------------------------------- MODULE Sandbox -------------------------------
(***************************************************************************)
(* rust-old/src/sandbox/: the manager's choice of an isolation, a tool in  *)
(* a child process (process.rs, python.rs, oci.rs), tools in WebAssembly   *)
(* (wasm.rs), and the life of a kavach sandbox (kavach_bridge.rs).         *)
(*                                                                         *)
(* The child and its pipes are the operating system's (external); input    *)
(* and output are counted in units of a pipe.  For a container the child   *)
(* is the runtime's client.  wasmtime's engine, external too, holds one    *)
(* epoch for all executions of a sandbox.                                  *)
(***************************************************************************)
EXTENDS Integers, FiniteSets

CONSTANTS
    PipeCapacity, MaxInput,     \* units a pipe holds, and of input, a bound
    WasmRuns,                   \* calls of WasmSandbox::execute on one sandbox
    WasmTimeout                 \* steps of sleep until a ticker fires

ASSUME SandboxAssumption == {PipeCapacity, MaxInput, WasmTimeout} \subseteq Nat \ {0}

VARIABLES
    policy, backend,    \* what is asked for, and where the manager runs it
    child,              \* what the child does: kind, at, and output it holds
    parent,             \* stage, input left to write, output read, result
    pipes,              \* units in stdin and stdout, whether stdin is closed
    input,
    epoch,              \* the engine's
    wasm,               \* per execution: at, deadline, exit code
    ticker,             \* per execution: at, steps slept, cancelled
    crossed,            \* executions that had to do with another's ticker
    kavach              \* the kavach sandbox: state, what exec answered, answer

childVars == <<policy, backend, child, parent, pipes, input>>
wasmVars == <<epoch, wasm, ticker, crossed>>
sandboxVars == <<childVars, wasmVars, kavach>>

\* IsolationLevel by strength: None, Wasm, Process, Oci.
Isolation == 0..3

Policies == [min : Isolation, filesystem : BOOLEAN, network : BOOLEAN]
NativePolicy == [min |-> 0, filesystem |-> FALSE, network |-> FALSE]

SandboxInit ==
    /\ policy \in Policies /\ backend \in {"manager", "python"}
    /\ child \in [kind : {"echo", "deaf", "quick"}, at : {"none"}, holds : {0}]
    /\ input \in 0..MaxInput
    /\ parent = [stage |-> "dispatch", left |-> input, read |-> 0, result |-> "none"]
    /\ pipes = [stdin |-> 0, stdout |-> 0, closed |-> FALSE]
    /\ epoch = 0
    /\ wasm = [e \in WasmRuns |-> [at |-> "idle", deadline |-> 0, exit |-> 1]]
    /\ ticker = [e \in WasmRuns |-> [at |-> "none", slept |-> 0, cancel |-> FALSE]]
    /\ crossed = {}
    /\ kavach = [state |-> "none", exec |-> "none", answer |-> "none"]
-----------------------------------------------------------------------------
(* policy.rs and manager.rs                                                *)

\* Wrong variant: the file system is looked at only when the network is not wanted
\* and nothing at least as strong as wasm is.
EffectiveIsolation_None(p) ==
    IF p.network /\ p.min < 3 THEN 3 ELSE IF p.filesystem /\ p.min = 0 THEN 2 ELSE p.min

EffectiveIsolation(p) ==
    IF p.network /\ p.min < 3 THEN 3 ELSE IF p.filesystem /\ p.min < 2 THEN 2 ELSE p.min

Backends == <<"native", "wasm", "process", "oci">>

Finish(result) == [parent EXCEPT !.stage = "done", !.result = result]

\* execute_argv of the manager: a native tool is answered with its input, a wasm
\* module is refused.
Dispatch ==
    /\ parent.stage = "dispatch"
    /\ backend' = IF backend = "python" THEN "python" ELSE Backends[EffectiveIsolation(policy) + 1]
    /\ parent' = CASE backend' = "native" -> [Finish("ok") EXCEPT !.read = input]
                   [] backend' = "wasm" -> Finish("error")
                   [] OTHER -> [parent EXCEPT !.stage = "spawn"]
    /\ UNCHANGED <<policy, child, pipes, input, wasmVars, kavach>>

\* The preparation of the command, and spawn.
Spawn ==
    /\ parent.stage = "spawn"
    /\ \/ parent' = [parent EXCEPT !.stage = "write"] /\ child' = [child EXCEPT !.at = "running"]
       \/ parent' = Finish("error") /\ UNCHANGED child
    /\ UNCHANGED <<policy, backend, pipes, input, wasmVars, kavach>>

\* kill_on_drop
Killed == [child EXCEPT !.at = IF @ = "running" THEN "killed" ELSE @]

\* write_all to stdin, outside of the timeout.  A child that is gone breaks the
\* pipe: python.rs gives up, the others go on.
WriteInput ==
    /\ parent.stage = "write" /\ parent.left > 0
    /\ IF child.at = "exited"
       THEN /\ parent' = IF backend = "python" THEN Finish("error") ELSE [parent EXCEPT !.stage = "wait"]
            /\ pipes' = [pipes EXCEPT !.closed = TRUE]
       ELSE /\ pipes.stdin < PipeCapacity
            /\ pipes' = [pipes EXCEPT !.stdin = @ + 1]
            /\ parent' = [parent EXCEPT !.left = @ - 1]
    /\ UNCHANGED <<policy, backend, child, input, wasmVars, kavach>>

InputWritten ==
    /\ parent.stage = "write" /\ parent.left = 0
    /\ parent' = [parent EXCEPT !.stage = "wait"] /\ pipes' = [pipes EXCEPT !.closed = TRUE]
    /\ UNCHANGED <<policy, backend, child, input, wasmVars, kavach>>

\* wait_with_output: it reads while it waits ...
ReadOutput ==
    /\ parent.stage = "wait" /\ pipes.stdout > 0
    /\ pipes' = [pipes EXCEPT !.stdout = @ - 1] /\ parent' = [parent EXCEPT !.read = @ + 1]
    /\ UNCHANGED <<policy, backend, child, input, wasmVars, kavach>>

\* ... until the child is gone and its output read.
Collected ==
    /\ parent.stage = "wait" /\ child.at = "exited" /\ pipes.stdout = 0
    /\ parent' = Finish("ok")
    /\ UNCHANGED <<policy, backend, child, pipes, input, wasmVars, kavach>>

\* Wrong variant: the child is left to itself.
AfterDrop_Lives == child

\* The child is dropped with the future that waits for it.
AfterDrop == Killed

\* The timeout, with nothing of the output.
WaitTimedOut ==
    /\ parent.stage = "wait"
    /\ parent' = [Finish("timeout") EXCEPT !.read = 0] /\ child' = AfterDrop
    /\ UNCHANGED <<policy, backend, pipes, input, wasmVars, kavach>>

\* The child (external): it passes input on, does nothing at all, or exits.
ChildStep ==
    /\ child.at = "running" /\ child.kind # "deaf"
    /\ \/ /\ child.kind = "echo" /\ child.holds = 0 /\ pipes.stdin > 0
          /\ child' = [child EXCEPT !.holds = 1] /\ pipes' = [pipes EXCEPT !.stdin = @ - 1]
       \/ /\ child.holds = 1 /\ pipes.stdout < PipeCapacity
          /\ child' = [child EXCEPT !.holds = 0] /\ pipes' = [pipes EXCEPT !.stdout = @ + 1]
       \/ /\ child.kind = "quick" \/ (child.holds = 0 /\ pipes.stdin = 0 /\ pipes.closed)
          /\ child' = [child EXCEPT !.at = "exited"] /\ UNCHANGED pipes
    /\ UNCHANGED <<policy, backend, parent, input, wasmVars, kavach>>

ParentStep == Dispatch \/ Spawn \/ WriteInput \/ InputWritten \/ ReadOutput \/ Collected \/ WaitTimedOut
ChildNext == ParentStep \/ ChildStep
-----------------------------------------------------------------------------
(* wasm.rs                                                                 *)

\* Calls of execute that have not returned.
Inside == {e \in WasmRuns : wasm[e].at \in {"running", "stopped"}}

\* execute, to the ticker: the deadline is one epoch on.
EnterWasm(e) ==
    /\ wasm[e].at = "idle"
    /\ wasm' = [wasm EXCEPT ![e] = [at |-> "running", deadline |-> epoch + 1, exit |-> 1]]
    /\ ticker' = [ticker EXCEPT ![e].at = "sleeps"]
    /\ crossed' = IF Inside = {} THEN crossed ELSE crossed \cup Inside \cup {e}
    /\ UNCHANGED <<epoch, childVars, kavach>>

\* A step of sleep; a ticker that was cancelled meanwhile goes.
TickerSleeps(e) ==
    /\ ticker[e].at = "sleeps"
    /\ LET t == ticker[e] IN ticker' = [ticker EXCEPT ![e] =
         IF t.cancel THEN [t EXCEPT !.at = "gone"]
         ELSE [t EXCEPT !.slept = @ + 1, !.at = IF t.slept + 1 < WasmTimeout THEN "sleeps" ELSE "fires"]]
    /\ UNCHANGED <<epoch, wasm, crossed, childVars, kavach>>

\* Past its last sleep it does not look again.
TickerFires(e) ==
    /\ ticker[e].at = "fires"
    /\ epoch' = epoch + 1 /\ ticker' = [ticker EXCEPT ![e].at = "gone"]
    /\ UNCHANGED <<wasm, crossed, childVars, kavach>>

Interrupted(e) == epoch >= wasm[e].deadline

\* The exit codes of extract_exit_code: 0, fuel -2, any other trap -3; and an
\* early return with an error (9).  An epoch past the deadline traps with -1.
WasmStops(e, code) ==
    /\ wasm[e].at = "running"
    /\ code \in IF Interrupted(e) THEN {-1} ELSE {0, -2, -3, 9}
    /\ wasm' = [wasm EXCEPT ![e].at = "stopped", ![e].exit = code]
    /\ ticker' = [ticker EXCEPT ![e].cancel = TRUE]
    /\ UNCHANGED <<epoch, crossed, childVars, kavach>>

\* Wrong variant: the ticker is cancelled and not waited for.
Joined_Never(e) == TRUE

\* Drop of EpochTicker joins its thread.
Joined(e) == ticker[e].at = "gone"

LeaveWasm(e) ==
    /\ wasm[e].at = "stopped" /\ Joined(e)
    /\ wasm' = [wasm EXCEPT ![e].at = "done"]
    /\ UNCHANGED <<epoch, ticker, crossed, childVars, kavach>>

WasmStep(e) ==
    TickerSleeps(e) \/ TickerFires(e) \/ LeaveWasm(e) \/ (Interrupted(e) /\ WasmStops(e, -1))

WasmNext == \E e \in WasmRuns : EnterWasm(e) \/ WasmStep(e) \/ \E code \in {0, -2, -3, 9} : WasmStops(e, code)
-----------------------------------------------------------------------------
(* kavach_bridge.rs: create, start, exec, and stop and destroy whatever    *)
(* exec said; a failed stop or destroy is only logged.  kavach is external *)

KavachStep(from, to, exec, answer) ==
    /\ kavach.state = from /\ kavach.answer = "none"
    /\ kavach' = [state |-> to, exec |-> exec, answer |-> answer]
    /\ UNCHANGED <<childVars, wasmVars>>

CreateKavach == KavachStep("none", "created", "none", "none") \/ KavachStep("none", "none", "none", "error")
StartKavach == KavachStep("created", "running", "none", "none") \/ KavachStep("created", "created", "none", "error")
ExecKavach == \E r \in {"ok", "error"} : KavachStep("running", "executed", r, "none")
StopKavach == KavachStep("executed", "stopped", kavach.exec, "none")
DestroyKavach == KavachStep("stopped", "destroyed", kavach.exec, kavach.exec)

KavachNext == CreateKavach \/ StartKavach \/ ExecKavach \/ StopKavach \/ DestroyKavach
-----------------------------------------------------------------------------
\* A tool runs in the weakest isolation that is as strong as asked, has files
\* only with a process of its own and the network only in a container; no child
\* outlives the call; the output of a call that succeeds is whole; a module is
\* interrupted before its own time only if it ran together with another on the
\* same sandbox; and a kavach sandbox that ran is destroyed before the answer.
SandboxSound ==
    /\ backend \in {"process", "oci", "native", "wasm"} =>
         LET level == CHOOSE i \in 1..4 : Backends[i] = backend IN
           level - 1 = CHOOSE l \in Isolation :
             LET fits(k) == k >= policy.min /\ (policy.filesystem => k >= 2) /\ (policy.network => k = 3) IN
               fits(l) /\ \A k \in Isolation : fits(k) => l <= k
    /\ parent.stage = "done" => child.at # "running"
    /\ parent.result = "ok" /\ child.kind = "echo" => parent.read = input
    /\ \A e \in WasmRuns : wasm[e].exit = -1 /\ e \notin crossed => ticker[e].slept = WasmTimeout
    /\ kavach.answer # "none" /\ kavach.exec # "none" => kavach.state = "destroyed"

\* A call ends when its input fits the pipe, or its child goes by itself; with
\* more input than pipes hold the write may wait for the child for ever.
ChildEnds ==
    (parent.stage = "spawn" /\ (input <= PipeCapacity \/ child.kind = "quick")) ~> parent.stage = "done"

\* However many run together, every module comes to an end and its ticker with it.
WasmEnds == \A e \in WasmRuns : wasm[e].at = "running" ~> wasm[e].at = "done"
=============================================================================
