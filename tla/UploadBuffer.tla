---------------------------- MODULE UploadBuffer ----------------------------
(***************************************************************************)
(* SelectedRootFileCreateUploadBuffer and the loops around it that stream  *)
(* a new file to a resumable session: chunks of Target bytes, of which the *)
(* provider may accept any prefix, answers that get lost, requests that    *)
(* arrive after the client stopped waiting for them, and a later attempt   *)
(* in a session of its own while the first one's requests are under way.   *)
(*                                                                         *)
(* A file is read once per attempt, in order, while a user edits it.       *)
(***************************************************************************)
EXTENDS Naturals, Sequences, FiniteSets

CONSTANTS
  Total,       \* size of the file; an empty one is refused
  MaxEdits,
  None,
  Target,      \* target_request_bytes
  Alignment,   \* alignment_bytes
  MaxStalled,  \* SUPERVISED_FILE_CREATE_MAX_NO_PROGRESS_RESPONSES
  MaxAttempts, MaxSends   \* bounds for model checking

ASSUME UploadAssumption ==
  /\ Total \in Nat \ {0} /\ Target \in Nat \ {0} /\ Alignment \in Nat \ {0}
  /\ Target % Alignment = 0
  /\ MaxEdits \in Nat /\ MaxStalled \in Nat /\ MaxSends \in Nat
  /\ MaxAttempts \in Nat \ {0}

VARIABLES
  edits,        \* the version of the file on disk
  fingerprint,  \* durable digest of the streamed contents
  attempt,      \* attempt_count
  stream,       \* bytes read and hashed by each attempt
  start,        \* pending_start_offset
  pending,      \* bytes not yet acknowledged
  request,      \* the request under way
  step,         \* where the loop is
  stalled,      \* no_progress_responses
  answer,       \* the provider's answer, once it is here
  verdict,      \* outcome of the attempt
  sends,        \* requests sent so far
  sent,         \* requests that may still reach the provider
  received,     \* bytes each session holds
  expired,      \* sessions the provider dropped
  object        \* contents of the object, once a session completed

buffer   == <<start, pending>>
client   == <<attempt, stream, buffer, request, step, stalled, answer, verdict>>
provider == <<received, expired, object>>
vars     == <<edits, fingerprint, client, sends, sent, provider>>

Attempts == 1..MaxAttempts
Bytes    == (1..Total) \X (0..MaxEdits)
Request  == [attempt : Attempts, number : Nat, start : 0..Total,
             bytes : Seq(Bytes), final : BOOLEAN]

Init ==
  /\ edits = 0
  /\ fingerprint = None
  /\ attempt = 1
  /\ stream = [a \in Attempts |-> <<>>]
  /\ start = 0 /\ pending = <<>>
  /\ request = None
  /\ step = "prepare"
  /\ stalled = 0
  /\ answer = None
  /\ verdict = "open"
  /\ sends = 0 /\ sent = {}
  /\ received = [a \in Attempts |-> <<>>]
  /\ expired = {}
  /\ object = None

-----------------------------------------------------------------------------
(* The file.                                                               *)
Edit == edits < MaxEdits /\ edits' = edits + 1
        /\ UNCHANGED <<fingerprint, client, sends, sent, provider>>

(* The size, times and inode the intent was planned for.                   *)
Untouched == edits = 0

(* read_next_chunk: so many bytes from where the reading stopped.          *)
Chunk(read, count) == [k \in 1..count |-> <<read + k, edits>>]

-----------------------------------------------------------------------------
(* The client's loop.                                                      *)
Open(at) == verdict = "open" /\ step = at

Wanted == IF Total - start < Target THEN Total - start ELSE Target

(* prepare_request: the buffer is filled up to a whole request.            *)
Filled ==
  LET fresh == Chunk(Len(stream[attempt]), Wanted - Len(pending)) IN
  /\ Open("prepare")
  /\ start < Total /\ Len(pending) <= Wanted
  /\ sends < MaxSends
  /\ pending' = pending \o fresh
  /\ stream' = [stream EXCEPT ![attempt] = @ \o fresh]
  /\ request' = [attempt |-> attempt, number |-> sends + 1, start |-> start,
                 bytes |-> pending \o fresh, final |-> start + Wanted = Total]
  /\ start + Wanted = Total \/ Wanted % Alignment = 0
  /\ UNCHANGED <<edits, fingerprint, attempt, start, stalled, answer, verdict,
                 sends, sent, provider>>

(* The last request is preceded by the fingerprint.                        *)
Prepare ==
  Filled /\ step' = IF start + Wanted = Total THEN "fingerprint" ELSE "put"

(* The first final request records the digest of all that was streamed;    *)
(* any other must find the same digest (a later attempt that streamed      *)
(* other bytes ends here).                                                 *)
RecordFingerprint ==
  /\ Open("fingerprint")
  /\ fingerprint \in {None, stream[attempt]}
  /\ fingerprint' = stream[attempt]
  /\ step' = "put"
  /\ UNCHANGED <<edits, attempt, stream, buffer, request, stalled, answer,
                 verdict, sends, sent, provider>>

Put ==
  /\ Open("put")
  /\ sent' = sent \cup {request}
  /\ sends' = sends + 1
  /\ answer' = None
  /\ step' = "wait"
  /\ UNCHANGED <<edits, fingerprint, attempt, stream, buffer, request, stalled,
                 verdict, provider>>

(* No answer, or an error instead of one: the status is asked for.         *)
LoseAnswer ==
  /\ Open("wait")
  /\ answer' = None
  /\ step' = "probe"
  /\ UNCHANGED <<edits, fingerprint, attempt, stream, buffer, request, stalled,
                 verdict, sends, sent, provider>>

(* What a session that holds so many bytes says.                           *)
Status(a, held) ==
  [kind |-> CASE a \in expired -> "expired"
              [] a \notin expired /\ held = Total -> "complete"
              [] OTHER -> "incomplete",
   next |-> held]

Probe ==
  /\ Open("probe")
  /\ answer' = Status(attempt, Len(received[attempt]))
  /\ step' = "wait"
  /\ UNCHANGED <<edits, fingerprint, attempt, stream, buffer, request, stalled,
                 verdict, sends, sent, provider>>

Told(kind) == Open("wait") /\ answer # None /\ answer.kind = kind

(* acknowledge_provider_offset: the accepted prefix leaves the buffer.     *)
(* Mutant: the prefix is counted from one byte too far.                    *)
AcknowledgeOneMore ==
  /\ Told("incomplete")
  /\ start <= answer.next /\ answer.next <= start + Len(pending)
  /\ stalled < MaxStalled \/ answer.next > start
  /\ pending' = IF answer.next = start + Len(pending) THEN <<>>
                ELSE SubSeq(pending, answer.next - start + 2, Len(pending))
  /\ start' = answer.next
  /\ stalled' = IF answer.next = start THEN stalled + 1 ELSE 0
  /\ step' = "prepare"
  /\ answer' = None
  /\ UNCHANGED <<edits, fingerprint, attempt, stream, request, verdict, sends,
                 sent, provider>>

Acknowledge ==
  /\ Told("incomplete")
  /\ start <= answer.next /\ answer.next <= start + Len(pending)
  /\ stalled < MaxStalled \/ answer.next > start
  /\ pending' = SubSeq(pending, answer.next - start + 1, Len(pending))
  /\ start' = answer.next
  /\ stalled' = IF answer.next = start THEN stalled + 1 ELSE 0
  /\ step' = "prepare"
  /\ answer' = None
  /\ UNCHANGED <<edits, fingerprint, attempt, stream, request, verdict, sends,
                 sent, provider>>

(* The provider's digest, or the object found under the predetermined id,  *)
(* must be the durable one.  recover-file-create also wants a source that  *)
(* did not change under it; submit-file-create does not ask.               *)
Conclude ==
  /\ Told("complete")
  /\ request.final
  /\ verdict' = CASE object # fingerprint -> "conflict"
                  [] object = fingerprint /\ (attempt = 1 \/ Untouched) -> "uploaded"
                  [] OTHER -> "failed"
  /\ UNCHANGED <<edits, fingerprint, attempt, stream, buffer, request, step,
                 stalled, answer, sends, sent, provider>>

(* Any call may fail, any answer be refused (an expired session, an offset *)
(* outside the buffer, too many answers without progress, another digest), *)
(* and the process may die: the session's address is lost with it.         *)
Stop ==
  /\ verdict = "open"
  /\ verdict' = "failed"
  /\ UNCHANGED <<edits, fingerprint, attempt, stream, buffer, request, step,
                 stalled, answer, sends, sent, provider>>

-----------------------------------------------------------------------------
(* recover-file-create.                                                    *)

(* Nothing was recorded: the digest of the file, if it is as it was        *)
(* planned and stays so while it is read.                                  *)
HashCurrentSource ==
  /\ verdict = "failed"
  /\ fingerprint = None
  /\ Untouched
  /\ fingerprint' = Chunk(0, Total)
  /\ UNCHANGED <<edits, client, sends, sent, provider>>

(* An object under the id decides without another upload.                  *)
InspectId ==
  /\ verdict = "failed"
  /\ fingerprint # None /\ object # None
  /\ verdict' = IF object = fingerprint THEN "uploaded" ELSE "conflict"
  /\ UNCHANGED <<edits, fingerprint, attempt, stream, buffer, request, step,
                 stalled, answer, sends, sent, provider>>

(* No object: a new session, from the first byte, for an untouched file.   *)
RestartSubmission ==
  /\ verdict = "failed" /\ attempt < MaxAttempts
  /\ fingerprint # None /\ object = None
  /\ Untouched
  /\ attempt' = attempt + 1
  /\ verdict' = "open"
  /\ start' = 0 /\ pending' = <<>> /\ request' = None
  /\ step' = "prepare" /\ stalled' = 0 /\ answer' = None
  /\ UNCHANGED <<edits, fingerprint, stream, sends, sent, provider>>

-----------------------------------------------------------------------------
(* The provider.  A request that reaches it, whether or not somebody still *)
(* waits for the answer, adds a prefix of its bytes behind those the       *)
(* session holds; the first session to hold all of them is the object.     *)
Added(r, upto) ==
  SubSeq(r.bytes, Len(received[r.attempt]) - r.start + 1, upto - r.start)

Land(r, upto) ==
  LET a == r.attempt
      held == Len(received[a])
  IN
  /\ r \in sent
  /\ a \notin expired /\ held < Total
  /\ r.start <= held
  /\ upto \in held..(r.start + Len(r.bytes))
  /\ upto = Total => object = None
  /\ received' = [received EXCEPT ![a] = @ \o Added(r, upto)]
  /\ object' = IF upto = Total THEN received'[a] ELSE object
  /\ sent' = sent \ {r}
  /\ answer' = IF Open("wait") /\ r = request /\ answer = None
               THEN Status(a, upto) ELSE answer
  /\ UNCHANGED <<edits, fingerprint, attempt, stream, buffer, request, step,
                 stalled, verdict, sends, expired>>

Expire(a) ==
  /\ a \notin expired /\ Len(received[a]) < Total
  /\ expired' = expired \cup {a}
  /\ UNCHANGED <<edits, fingerprint, client, sends, sent, received, object>>

Next ==
  \/ Edit
  \/ Prepare \/ RecordFingerprint \/ Put \/ LoseAnswer \/ Probe \/ Acknowledge
  \/ Conclude \/ Stop
  \/ HashCurrentSource \/ InspectId \/ RestartSubmission
  \/ \E r \in sent, upto \in 0..Total : Land(r, upto)
  \/ \E a \in Attempts : Expire(a)

Spec == Init /\ [][Next]_vars

-----------------------------------------------------------------------------
Content == INSTANCE UploadContent

(* Chunks, resent prefixes, requests that arrive late and a second session *)
(* (acknowledge_provider_offset, prepare_request, the recovery loop) never *)
(* make another object than the one whose digest was durable before its    *)
(* last byte was sent: what UploadContent promises.                        *)
KeepsContent == Content!Spec

ASSUME NoneIsNoContents == None \notin Content!Contents

=============================================================================
