----------------------------- MODULE TextGuards -----------------------------
(***************************************************************************)
(* The text filters between the server and the language model, from        *)
(* rust-old/src/server/output_filter.rs and prompt_guard.rs.               *)
(*                                                                         *)
(* A text is a sequence of bytes.  One symbol stands for each class of     *)
(* byte the filters tell apart: "9" a digit, "a" a letter, "_" and "+"     *)
(* through "-", ".", "@", "(", ")", " " white space, "k" the whole of an   *)
(* API-key prefix without white space in it, "B" the letters of the one    *)
(* prefix that ends in a space, "u" and "v" the two bytes of a character   *)
(* that is not ASCII, and "m" a character made from one such byte alone.   *)
(* The actions of `redact' are the turns of its loops: the key prefixes    *)
(* in their order, the SSN pass over bytes, the e-mail pass over           *)
(* characters.                                                             *)
(***************************************************************************)
EXTENDS Naturals, Sequences, FiniteSets, SequencesExt

CONSTANTS
    Responses,        \* responses of the model, the texts to redact
    Prompts,          \* system prompts that a response may repeat
    KeyTail,          \* bytes redacted behind a key prefix (20 in the code)
    LeakWindow,       \* size of a leaked window (50 in the code)
    MaxInputLength    \* bytes of user input that reach a prompt (50,000)

ASSUME TextAssumption ==
    /\ KeyTail \in Nat
    /\ LeakWindow \in Nat \ {0}
    /\ MaxInputLength \in Nat

\* A response is a string: the second byte of a character follows its first.
ASSUME ResponsesAssumption == \A r \in Responses :
    /\ r \in Seq({r[i] : i \in DOMAIN r})
    /\ \A i \in DOMAIN r : r[i] = "v" => i > 1 /\ r[i - 1] = "u"

VARIABLES
    given,            \* the response that came from the model
    text,             \* what the current pass reads
    out,              \* what the current pass has written
    at,               \* prefix number in the key pass, index of the next byte after it
    pass              \* "keys", "ssn", "email", "done", "panic"

textVars == <<given, text, out, at, pass>>

KeyPrefixes == << <<"k">>, <<"B", " ">> >>
Mark == <<"[", "R", "]">>
Ssn == <<"9","9","9","-","9","9","-","9","9","9","9">>
PlainPhone == <<"9","9","9","-","9","9","9","-","9","9","9","9">>
ParenPhone == <<"(","9","9","9",")"," ","9","9","9","-","9","9","9","9">>
AlphaNumeric == {"9", "a", "k", "B", "R"}
LocalPart == AlphaNumeric \cup {".", "_", "-", "+"}
DomainPart == AlphaNumeric \cup {".", "-"}

Starts(s, i, p) == i + Len(p) - 1 <= Len(s) /\ SubSeq(s, i, i + Len(p) - 1) = p
Places(s, p) == {i \in 1 .. Len(s) : Starts(s, i, p)}
Has(s, p) == Places(s, p) # {}
CharBoundary(s, i) == i > Len(s) \/ s[i] # "v"
Chars(s) == SelectSeq(s, LAMBDA b : b # "v")
AsChars(b) == IF b \in {"u", "v"} THEN "m" ELSE b
-----------------------------------------------------------------------------
(***************************************************************************)
(* Detection.                                                              *)
(***************************************************************************)
\* A window that would begin or end inside a character is no string, and is skipped.
LeaksSystemPrompt(s, prompt) ==
    LET size == IF LeakWindow < Len(prompt) THEN LeakWindow ELSE Len(prompt)
    IN  \E i \in 1 .. Len(prompt) - size :
            /\ CharBoundary(prompt, i) /\ CharBoundary(prompt, i + size)
            /\ Has(s, SubSeq(prompt, i, i + size - 1))

HasApiKey(s) == \E n \in DOMAIN KeyPrefixes : Has(s, KeyPrefixes[n])

\* An alphanumeric on each side of the `@' and a dot anywhere behind it.
ContainsEmail(s) ==
    \E i \in 2 .. Len(s) - 1 :
        /\ s[i] = "@" /\ s[i - 1] \in AlphaNumeric /\ s[i + 1] \in AlphaNumeric
        /\ \E j \in i + 1 .. Len(s) : s[j] = "."

ContainsPhone(s) == Has(s, PlainPhone) \/ Has(s, ParenPhone)
ContainsSsn(s) == Has(s, Ssn)

Pii(s) == {f \in {"email", "phone", "ssn"} :
              \/ f = "email" /\ ContainsEmail(s)
              \/ f = "phone" /\ ContainsPhone(s)
              \/ f = "ssn" /\ ContainsSsn(s)}

Scan(s, prompt) ==
    {f \in {"system_prompt"} : LeaksSystemPrompt(s, prompt)}
        \cup {f \in {"api_key"} : HasApiKey(s)} \cup Pii(s)
-----------------------------------------------------------------------------
(***************************************************************************)
(* Redaction.                                                              *)
(***************************************************************************)
\* First byte kept behind the key found at i: the next white space, or the
\* byte KeyTail past the prefix when the text holds no more white space.
TokenEnd(s, i, prefix) ==
    LET spaces == {j \in i .. Len(s) : s[j] = " "}
        past == IF i + Len(prefix) + KeyTail <= Len(s)
                THEN i + Len(prefix) + KeyTail ELSE Len(s) + 1
        stop == IF spaces = {} THEN past ELSE Min(spaces)
    IN  IF stop < i + Len(prefix) THEN i + Len(prefix) ELSE stop

KeyTurn ==
    /\ pass = "keys" /\ at <= Len(KeyPrefixes)
    /\ Has(text, KeyPrefixes[at])
    /\ LET first == Min(Places(text, KeyPrefixes[at]))
           stop == TokenEnd(text, first, KeyPrefixes[at])
       IN  IF CharBoundary(text, stop)
           THEN /\ text' = SubSeq(text, 1, first - 1) \o Mark \o SubSeq(text, stop, Len(text))
                /\ UNCHANGED pass
           ELSE pass' = "panic" /\ UNCHANGED text
    /\ UNCHANGED <<given, out, at>>

NextPrefix ==
    /\ pass = "keys"
    /\ at <= Len(KeyPrefixes) => ~Has(text, KeyPrefixes[at])
    /\ IF at <= Len(KeyPrefixes)
       THEN at' = at + 1 /\ UNCHANGED pass
       ELSE at' = 1 /\ pass' = "ssn"
    /\ UNCHANGED <<given, text, out>>

\* Wrong variant: the last place where the pattern fits is not looked at.
SsnAt_Short(s, i) == Starts(s, i, Ssn) /\ i + Len(Ssn) <= Len(s)

SsnAt(s, i) == Starts(s, i, Ssn)

\* A text shorter than the pattern is returned as it is; a longer one is
\* copied byte by byte, each byte pushed as a character.
SsnTurn ==
    /\ pass = "ssn" /\ Len(text) >= Len(Ssn) /\ at <= Len(text)
    /\ IF SsnAt(text, at)
       THEN out' = out \o Mark /\ at' = at + Len(Ssn)
       ELSE out' = Append(out, AsChars(text[at])) /\ at' = at + 1
    /\ UNCHANGED <<given, text, pass>>

SsnPassEnds ==
    /\ pass = "ssn" /\ (Len(text) < Len(Ssn) \/ at > Len(text))
    /\ text' = Chars(IF Len(text) < Len(Ssn) THEN text ELSE out)
    /\ out' = <<>> /\ at' = 1 /\ pass' = "email"
    /\ UNCHANGED given

\* Where the local part before the `@' at i begins, and where the domain ends.
LocalStart(s, i) ==
    Min({j \in 1 .. i : \A n \in j .. i - 1 : s[n] \in LocalPart})
DomainEnd(s, i) ==
    Max({j \in i .. Len(s) : \A n \in i + 1 .. j : s[n] \in DomainPart})
Redactable(s, i) ==
    /\ s[i] = "@" /\ LocalStart(s, i) < i
    /\ \E n \in i + 1 .. DomainEnd(s, i) : s[n] = "."

\* The characters of the local part are popped from what was written, and
\* popping an empty string is no error.
Popped(s, n) == SubSeq(s, 1, Len(s) - n)

EmailTurn ==
    /\ pass = "email" /\ at <= Len(text)
    /\ IF Redactable(text, at)
       THEN /\ out' = Popped(out, at - LocalStart(text, at)) \o Mark
            /\ at' = DomainEnd(text, at) + 1
       ELSE out' = Append(out, text[at]) /\ at' = at + 1
    /\ UNCHANGED <<given, text, pass>>

EmailPassEnds ==
    /\ pass = "email" /\ at > Len(text)
    /\ text' = out /\ pass' = "done"
    /\ UNCHANGED <<given, out, at>>

RedactStart(response) ==
    given = response /\ text = response /\ out = <<>> /\ at = 1 /\ pass = "keys"

TextInit == \E response \in Responses : RedactStart(response)

Redact == KeyTurn \/ NextPrefix \/ SsnTurn \/ SsnPassEnds \/ EmailTurn \/ EmailPassEnds
TextNext == Redact
-----------------------------------------------------------------------------
(***************************************************************************)
(* User input on its way into a prompt.                                    *)
(***************************************************************************)
\* The text that stands between the boundary markers.  The cut is at a byte, and
\* slicing inside a character panics; what looks like an instruction is only logged.
Sanitize(s) ==
    IF Len(s) > MaxInputLength
    THEN IF CharBoundary(s, MaxInputLength + 1)
         THEN [panics |-> FALSE, text |-> SubSeq(s, 1, MaxInputLength)]
         ELSE [panics |-> TRUE, text |-> <<>>]
    ELSE [panics |-> FALSE, text |-> s]
-----------------------------------------------------------------------------
Wide(s) == \E i \in DOMAIN s : s[i] = "u"

(***************************************************************************)
(* Redaction panics, on a cut inside a character, only for a response in   *)
(* which some character is not ASCII.                                      *)
(***************************************************************************)
PanicsExplained == pass = "panic" => Wide(given)

(***************************************************************************)
(* A redacted response holds no key prefix, no social security number and  *)
(* no address the e-mail pass could have taken, although each pass works   *)
(* on what the one before it left; a response in which the scan finds      *)
(* nothing and the e-mail pass takes nothing comes back as it was; and     *)
(* redaction panics on a response, and sanitize on an input, only when a   *)
(* character of it is not ASCII.  Any LeakWindow + 1 ASCII bytes of the    *)
(* system prompt in a row are found in a response, and nothing shorter     *)
(* than the window is taken for a leak.  Of other characters less is true: *)
(* windows are counted in bytes, and those that cut a character are        *)
(* skipped (output_filter.rs:100), so that a prompt whose characters all   *)
(* have a length that does not divide the window is never found.           *)
(***************************************************************************)
FilterSound ==
    /\ pass = "done" =>
        /\ ~HasApiKey(text) /\ ~ContainsSsn(text)
        /\ \A i \in DOMAIN text : ~Redactable(text, i)
        /\ /\ Scan(given, <<>>) = {} /\ ~Wide(given)
           /\ \A i \in DOMAIN given : ~Redactable(given, i)
           => text = given
    /\ PanicsExplained
    /\ pass = "keys" /\ at = 1 =>
        /\ \A p \in Prompts :
            /\ (\E i \in 1 .. Len(p) - LeakWindow :
                    /\ \A j \in i .. i + LeakWindow : p[j] \notin {"u", "v"}
                    /\ Has(given, SubSeq(p, i, i + LeakWindow)))
                  => LeaksSystemPrompt(given, p)
            /\ LeaksSystemPrompt(given, p)
                  => \E i \in 1 .. Len(p) - LeakWindow : Has(given, SubSeq(p, i, i + LeakWindow - 1))
        /\ Sanitize(given).panics => Wide(given)
        /\ Len(Sanitize(given).text) <= MaxInputLength
=============================================================================
