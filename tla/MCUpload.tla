------------------------------ MODULE MCUpload ------------------------------
(* Model-checking instance of an upload: the preparation of the blocks,    *)
(* then the session that sends them.  uploadPrepared is called with what   *)
(* the preparation returns, and its first step is the reservation.  The    *)
(* instance is of one relay behind HTTP/1.1: a file that had to be         *)
(* prepared with smaller blocks is sent by another one, with other values  *)
(* of Total and Ramp.                                                      *)
EXTENDS StripeUpload, UploadPrepare

UploadInit == Init /\ PrepareInit

\* resolveStripeRampConcurrency, for a browser, one relay and no HTTP/2: blocks
\* of 32 MiB are sent with the ramp, smaller ones without
RampApplies == prep.cap = "large"

UploadPrepared ==
    /\ Cardinality(Tokens(uploads)) = Total
    /\ Ramp = RampApplies
    /\ HandOver
    /\ Reserve \/ ReserveFails

UploadNext ==
    \/ PrepareNext /\ UNCHANGED vars
    \/ UploadPrepared
    \/ prep.pc = "handed" /\ Next /\ UNCHANGED prepareVars

\* The fairness of both parts; the reservation follows the hand-over.
UploadSpec ==
    /\ UploadInit
    /\ [][UploadNext]_<<vars, prepareVars>>
    /\ PrepareFairness
    /\ WF_<<vars, prepareVars>>(UploadPrepared)
    /\ SendFairness
=============================================================================
