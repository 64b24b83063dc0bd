---------------------------- MODULE UploadContent ----------------------------
(***************************************************************************)
(* What the upload of a new file promises, whatever the number of chunks,  *)
(* retries and sessions: its contents are decided and made durable before  *)
(* the object exists, the object is created once with exactly these bytes, *)
(* each at its own offset, and success is reported only of such an object. *)
(***************************************************************************)
EXTENDS Naturals

CONSTANTS
  Total,     \* size of the file
  MaxEdits,  \* bound on the user's edits, which number its versions
  None

(* A byte is its offset and the version of the file it was read from.      *)
Bytes    == (1..Total) \X (0..MaxEdits)
Contents == {c \in [1..Total -> Bytes] : \A k \in 1..Total : c[k][1] = k}

VARIABLES
  fingerprint,   \* contents the durable digest stands for
  object,        \* contents of the provider's object
  verdict        \* what the last attempt came to

contentVars == <<fingerprint, object, verdict>>

Init == fingerprint = None /\ object = None /\ verdict = "open"

Decide ==
  /\ fingerprint = None
  /\ fingerprint' \in Contents
  /\ UNCHANGED <<object, verdict>>

Create ==
  /\ object = None /\ fingerprint # None
  /\ object' = fingerprint
  /\ UNCHANGED <<fingerprint, verdict>>

(* By the attempt itself, or by a recovery that finds the object.          *)
Report ==
  /\ verdict \in {"open", "failed"}
  /\ verdict' = "uploaded"
  /\ object # None /\ object = fingerprint
  /\ UNCHANGED <<fingerprint, object>>

Fail == verdict = "open" /\ verdict' = "failed" /\ UNCHANGED <<fingerprint, object>>

(* A new attempt, which starts while no object is known.                   *)
Retry ==
  /\ verdict = "failed" /\ object = None
  /\ verdict' = "open"
  /\ UNCHANGED <<fingerprint, object>>

Next == Decide \/ Create \/ Report \/ Fail \/ Retry

Spec == Init /\ [][Next]_contentVars

=============================================================================
