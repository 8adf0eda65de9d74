---------------------------- MODULE MCReadiness ----------------------------
(***************************************************************************)
(* A behaviour is of one of two kinds: one caller polls while the store     *)
(* comes and goes and requests keep arriving, or two callers share probes,  *)
(* and no worker is abandoned, no request comes and nobody closes.          *)
(***************************************************************************)
EXTENDS Readiness

VARIABLE kind

MCInit ==
    \/ kind = "poll" /\ InitFor({1})
    \/ kind = "share" /\ InitFor(Callers)

Shares == abandoned' = 0 /\ serving' # "busy" /\ ~closed'

MCNext ==
    /\ Next
    /\ UNCHANGED kind
    /\ kind = "share" => Shares

\* Of the first kind the fairness of TrafficSpec holds; the second, in which no
\* request comes, is checked for its safety.
MCTrafficSpec ==
    /\ MCInit /\ [][MCNext]_<<vars, kind>>
    /\ Fairness /\ WF_vars(Request)

\* The first kind only, and requests need not come.
MCDrainedSpec ==
    /\ Init /\ kind = "poll" /\ [][MCNext]_<<vars, kind>>
    /\ Fairness
=============================================================================
