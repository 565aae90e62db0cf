----------------------------- MODULE PostOffice -----------------------------
(* What messaging promises (ADR 0011): one total order of accepted messages *)
(* for the whole run, each with the recipients it had when it was accepted, *)
(* and recipients that each see their messages in that order, none lost,    *)
(* none made up, at their own pace.                                         *)
EXTENDS Naturals, Sequences, SequencesExt

CONSTANT Endpoint

VARIABLES
  accepted,  \* per accepted message how many copies each endpoint is owed
  received   \* Endpoint -> numbers of the messages it has been given

officeVars == <<accepted, received>>

Copies(n, times) == [i \in 1 .. times |-> n]

(* A recipient that is listed twice is owed two copies. *)
Owed(r) == FlattenSeq([n \in DOMAIN accepted |-> Copies(n, accepted[n][r])])

OfficeInit == accepted = <<>> /\ received = [r \in Endpoint |-> <<>>]

Accept ==
  /\ Len(accepted') = Len(accepted) + 1 /\ Front(accepted') = accepted
  /\ Last(accepted') \in [Endpoint -> Nat]
  /\ UNCHANGED received

HandOver(r) ==
  /\ \E n \in Len(received[r]) + 1 .. Len(Owed(r)) :
       received' = [received EXCEPT ![r] = SubSeq(Owed(r), 1, n)]
  /\ UNCHANGED accepted

OfficeNext == Accept \/ \E r \in Endpoint : HandOver(r)

OfficeSpec == OfficeInit /\ [][OfficeNext]_officeVars
=============================================================================
