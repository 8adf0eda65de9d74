--------------------------- MODULE KeyedMutations ---------------------------
(***************************************************************************)
(* What a caller of a keyed mutation is promised, with no tables, nonces,  *)
(* keys or transactions: an effect happens in one step, only when no       *)
(* earlier effect of the key is still live; a response is the newest       *)
(* effect of the caller's key and fingerprint; a conflict means the key    *)
(* was used for another request; "unavailable" promises nothing.           *)
(***************************************************************************)
EXTENDS Integers

CONSTANTS
    Callers,    \* who may have a request under way
    Requests    \* records with fields key and fp

VARIABLES
    clock,      \* the time
    asked,      \* the request of each caller
    told,       \* what each caller was told
    done        \* the effects that happened: records with key, fp, at, exp

absVars == <<clock, asked, told, done>>

Nothing == [kind |-> "none", effect |-> {}]
Unknown == [kind |-> "unavailable", effect |-> {}]
KeyReused == [kind |-> "conflict", effect |-> {}]
Outcome(e) == [kind |-> "response", effect |-> {e}]

OwnEffect(c, e) == e.key = asked[c].key /\ e.fp = asked[c].fp

Ask(c, r) ==
    /\ asked' = [asked EXCEPT ![c] = r]
    /\ told' = [told EXCEPT ![c] = Nothing]
    /\ UNCHANGED <<clock, done>>

\* The effect happens; the caller learns of it, or is left in doubt.
Perform(c, e) ==
    /\ OwnEffect(c, e) /\ e.at = clock
    /\ \A d \in done : d.key = e.key => d.exp <= clock
    /\ done' = done \cup {e}
    /\ \E answer \in {Outcome(e), Unknown} : told' = [told EXCEPT ![c] = answer]
    /\ UNCHANGED <<clock, asked>>

Replay(c, e) ==
    /\ e \in done /\ OwnEffect(c, e)
    /\ \A d \in done : d.key = e.key => d.at <= e.at
    /\ told' = [told EXCEPT ![c] = Outcome(e)]
    /\ UNCHANGED <<clock, asked, done>>

Refuse(c) ==
    /\ \E d \in done : d.key = asked[c].key /\ d.fp # asked[c].fp
    /\ told' = [told EXCEPT ![c] = KeyReused]
    /\ UNCHANGED <<clock, asked, done>>

GiveUp(c) ==
    /\ told' = [told EXCEPT ![c] = Unknown]
    /\ UNCHANGED <<clock, asked, done>>

Advance == clock' = clock + 1 /\ UNCHANGED <<asked, told, done>>

AbsInit ==
    /\ clock = 0
    /\ asked \in [Callers -> Requests]
    /\ told = [c \in Callers |-> Nothing]
    /\ done = {}

AbsNext ==
    \/ Advance
    \/ \E c \in Callers :
          \/ \E r \in Requests : Ask(c, r)
          \/ \E e \in done' : Perform(c, e) \/ Replay(c, e)
          \/ Refuse(c) \/ GiveUp(c)

AbsSpec == AbsInit /\ [][AbsNext]_absVars
=============================================================================
