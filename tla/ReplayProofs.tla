---------------------------- MODULE ReplayProofs ----------------------------
(***************************************************************************)
(* Proofs about Replay, for any webhooks, calls, views and inputs: what    *)
(* the runs check of the tables, of the messages to the target and of the  *)
(* histories on small instances.                                           *)
(***************************************************************************)
EXTENDS Replay, TLAPS

(* A call on its way to the target has had no answer and left no row. *)
Fresh ==
  \A k \in Calls : pc[k] \in {"new", "looking", "listing", "building"} =>
    reply[k] = 0 /\ k \notin attempts

(* A code is what the target answered, whether or not it is recorded. *)
CodeTrue == \A k \in Calls : code[k] # 0 => reply[k] = code[k]

(* A webhook is in the table, or was taken out: ids are not used again. *)
ErasedGone == erased = Requests \ requests

(* A call for a deleted webhook gets no further than its lookup. *)
LateStops ==
  \A k \in late :
    /\ id[k] \in erased
    /\ pc[k] \in {"looking", "responding", "done"}
    /\ pc[k] # "looking" => http[k] = 404
    /\ reply[k] = 0 /\ k \notin attempts

(* An answered call is over. *)
AnsweredDone == \A k \in answered : pc[k] = "done"

(* The way of an attempt from the target to the table: what is about to be
   saved is what the target answered, unless the connection was cut. *)
Read ==
  \A k \in Calls :
    /\ reply[k] # 0 => pc[k] \in {"dispatching", "reading", "saving", "responding", "done"}
    /\ pc[k] = "reading" => code[k] = reply[k]
    /\ pc[k] = "saving" /\ reply[k] # 0 =>
         (code[k] = reply[k] /\ body[k] = "whole") \/ k \in broken \cup cancelled

(* What a view knew when it began is still there when it reads the attempts. *)
ViewInv ==
  \A v \in Views : view[v] = "listing" =>
    \/ known[v] \subseteq AttemptsOf(subject[v])
    \/ foreignKeys /\ subject[v] \in erased

Inv ==
  /\ TypeOK /\ Fresh /\ CodeTrue /\ ErasedGone /\ LateStops /\ AnsweredDone /\ Read
  /\ EnforcedNoOrphans /\ ViewInv /\ HistoryComplete
  /\ AttemptKept

-----------------------------------------------------------------------------
(* What handleReplay makes of a call is a message. *)
LEMMA OutgoingType ==
  ASSUME NEW i \in InputType
  PROVE  Outgoing(i) \in Message
  BY DEF InputType, Outgoing, Field, Message

LEMMA InitInv == Init => Inv
  <1> SUFFICES ASSUME Init PROVE Inv
    OBVIOUS
  <1>1. TypeOK
    <2>1. NoInput \in InputType /\ NoMessage \in Message
      BY DEF NoInput, InputType, NoMessage, Message
    <2> QED
      BY <2>1 DEF Init, TypeOK
  <1> QED
    BY <1>1 DEF Init, Inv, Fresh, CodeTrue, ErasedGone, LateStops, AnsweredDone, Read,
                EnforcedNoOrphans, ViewInv, HistoryComplete, AttemptKept

(* Most steps leave the tables, the views and the target alone. *)
LEMMA HandlerInv ==
  ASSUME Inv, NEW k \in Calls,
         \/ \E i \in Inputs : Arrive(k, i)
         \/ Lookup(k) \/ LookupFails(k) \/ Build(k) \/ Dispatch(k)
         \/ DoReturns(k) \/ DoFails(k) \/ ReadAll(k) \/ ReadCut(k) \/ Respond(k) \/ HangUp(k)
  PROVE  Inv'
  <1> USE ReplayAssumption
      DEF Inv, Goto, Answer, dbVars, targetVars, viewVars, replayVars
  <1>1. ASSUME NEW i \in Inputs, Arrive(k, i) PROVE Inv'
    <2>1. TypeOK'
      BY <1>1 DEF Arrive, TypeOK
    <2>2. (Fresh /\ CodeTrue /\ ErasedGone /\ LateStops /\ AnsweredDone /\ Read /\ AttemptKept)'
      BY <1>1 DEF Arrive, TypeOK, Fresh, CodeTrue, ErasedGone, LateStops,
                     AnsweredDone, Read, AttemptKept
    <2>3. (EnforcedNoOrphans /\ ViewInv /\ HistoryComplete)'
      BY <1>1 DEF Arrive, EnforcedNoOrphans, ViewInv, HistoryComplete, AttemptsOf
    <2> QED
      BY <2>1, <2>2, <2>3
  <1>2. CASE Lookup(k) \/ LookupFails(k) \/ Dispatch(k)
    <2>1. TypeOK'
      BY <1>2 DEF Lookup, LookupFails, Dispatch, TypeOK
    <2>2. (Fresh /\ CodeTrue /\ ErasedGone /\ LateStops /\ AnsweredDone /\ Read /\ AttemptKept)'
      BY <1>2 DEF Lookup, LookupFails, Dispatch,
                  TypeOK, Fresh, CodeTrue, ErasedGone, LateStops, AnsweredDone, Read, AttemptKept
    <2>3. (EnforcedNoOrphans /\ ViewInv /\ HistoryComplete)'
      BY <1>2 DEF Lookup, LookupFails, Dispatch,
                  EnforcedNoOrphans, ViewInv, HistoryComplete, AttemptsOf
    <2> QED
      BY <2>1, <2>2, <2>3
  <1>3. CASE Build(k)
    <2>1. TypeOK'
      BY <1>3, OutgoingType DEF Build, TypeOK
    <2>2. (Fresh /\ CodeTrue /\ ErasedGone /\ LateStops /\ AnsweredDone /\ Read /\ AttemptKept)'
      BY <1>3 DEF Build, TypeOK, Fresh, CodeTrue, ErasedGone, LateStops, AnsweredDone, Read, AttemptKept
    <2>3. (EnforcedNoOrphans /\ ViewInv /\ HistoryComplete)'
      BY <1>3 DEF Build, EnforcedNoOrphans, ViewInv, HistoryComplete, AttemptsOf
    <2> QED
      BY <2>1, <2>2, <2>3
  <1>4. CASE DoReturns(k) \/ DoFails(k) \/ ReadAll(k) \/ ReadCut(k)
    <2>1. TypeOK'
      BY <1>4 DEF DoReturns, DoFails, ReadAll, ReadCut, TypeOK
    <2>2. (Fresh /\ CodeTrue /\ ErasedGone /\ LateStops /\ AnsweredDone /\ Read /\ AttemptKept)'
      BY <1>4 DEF DoReturns, DoFails, ReadAll, ReadCut, TypeOK, Fresh, CodeTrue, ErasedGone, LateStops, AnsweredDone,
                  Read, AttemptKept
    <2>3. (EnforcedNoOrphans /\ ViewInv /\ HistoryComplete)'
      BY <1>4 DEF DoReturns, DoFails, ReadAll, ReadCut, EnforcedNoOrphans, ViewInv, HistoryComplete,
                  AttemptsOf
    <2> QED
      BY <2>1, <2>2, <2>3
  <1>5. CASE Respond(k) \/ HangUp(k)
    <2>1. TypeOK'
      BY <1>5 DEF Respond, HangUp, TypeOK
    <2>2. (Fresh /\ CodeTrue /\ ErasedGone /\ LateStops /\ AnsweredDone /\ Read /\ AttemptKept)'
      BY <1>5 DEF Respond, HangUp, TypeOK, Fresh, CodeTrue, ErasedGone, LateStops, AnsweredDone,
                  Read, AttemptKept
    <2>3. (EnforcedNoOrphans /\ ViewInv /\ HistoryComplete)'
      BY <1>5 DEF Respond, HangUp, EnforcedNoOrphans, ViewInv, HistoryComplete,
                  AttemptsOf
    <2> QED
      BY <2>1, <2>2, <2>3
  <1> QED
    BY <1>1, <1>2, <1>3, <1>4, <1>5

(* The target answers once, and ends its answer, unless the connection breaks. *)
LEMMA TargetInv ==
  ASSUME Inv, NEW k \in Calls,
         \/ \E s \in Codes : TargetAnswers(k, s)
         \/ TargetFinishes(k) \/ ConnectionBreaks(k)
  PROVE  Inv'
  <1> USE ReplayAssumption DEF Inv, TargetAnswers, TargetFinishes, ConnectionBreaks,
                               dbVars, viewVars, replayVars
  <1>1. TypeOK'
    BY DEF TypeOK
  <1>2. (Fresh /\ CodeTrue /\ ErasedGone /\ LateStops /\ AnsweredDone /\ Read /\ AttemptKept)'
    BY DEF TypeOK, Fresh, CodeTrue, ErasedGone, LateStops, AnsweredDone, Read, AttemptKept
  <1>3. (EnforcedNoOrphans /\ ViewInv /\ HistoryComplete)'
    BY DEF EnforcedNoOrphans, ViewInv, HistoryComplete, AttemptsOf
  <1> QED
    BY <1>1, <1>2, <1>3

(* A row is added, or none. *)
LEMMA SaveInv ==
  ASSUME Inv, NEW k \in Calls, Save(k) \/ SaveFails(k)
  PROVE  Inv'
  <1> USE DEF Inv, Answer, Goto, viewVars
  <1>1. /\ pc[k] = "saving"
        /\ \/ attempts' = attempts \cup {k} /\ (foreignKeys => id[k] \in requests)
           \/ /\ attempts' = attempts
              /\ \/ faults \/ k \in cancelled
                 \/ foreignKeys /\ id[k] \notin requests
        /\ pc' = [pc EXCEPT ![k] = "responding"] /\ http' = [http EXCEPT ![k] = 200]
        /\ UNCHANGED <<foreignKeys, faults, requests, erased, reply, whole, broken, id, input,
                       sent, code, body, cancelled, answered, late, viewVars>>
    <2>1. CASE Save(k)
      BY <2>1 DEF Save, KeyHolds, targetVars
    <2>2. CASE SaveFails(k)
      <3>1. \/ attempts' = attempts /\ (MayFail(k) \/ ~KeyHolds(k))
            \/ k \in cancelled /\ KeyHolds(k) /\ attempts' = attempts \cup {k}
        BY <2>2 DEF SaveFails
      <3> QED
        BY <2>2, <3>1 DEF SaveFails, MayFail, KeyHolds, targetVars
    <2> QED
      BY <2>1, <2>2
  <1>2. TypeOK'
    BY <1>1 DEF TypeOK
  <1>3. (Fresh /\ CodeTrue /\ ErasedGone /\ LateStops /\ AnsweredDone /\ Read /\ AttemptKept)'
    BY <1>1 DEF TypeOK, Fresh, CodeTrue, ErasedGone, LateStops, AnsweredDone, Read, AttemptKept
  <1>4. EnforcedNoOrphans'
    BY <1>1 DEF EnforcedNoOrphans
  <1>5. (ViewInv /\ HistoryComplete)'
    BY <1>1 DEF ViewInv, HistoryComplete, AttemptsOf
  <1> QED
    BY <1>2, <1>3, <1>4, <1>5

LEMMA ViewsInv ==
  ASSUME Inv, NEW v \in Views, ViewBegin(v) \/ ViewEnd(v)
  PROVE  Inv'
  <1> USE DEF Inv, ViewBegin, ViewEnd, dbVars, targetVars, replayVars
  <1>1. TypeOK'
    BY DEF TypeOK, AttemptsOf
  <1>2. (Fresh /\ CodeTrue /\ ErasedGone /\ LateStops /\ AnsweredDone /\ Read
          /\ EnforcedNoOrphans /\ AttemptKept)'
    BY DEF Fresh, CodeTrue, ErasedGone, LateStops, AnsweredDone, Read, EnforcedNoOrphans,
           AttemptKept
  <1>3. ViewInv'
    BY DEF TypeOK, ViewInv, AttemptsOf
  <1>4. HistoryComplete'
    BY DEF TypeOK, ViewInv, HistoryComplete, AttemptsOf
  <1> QED
    BY <1>1, <1>2, <1>3, <1>4

(* A delete takes attempts along only with the webhook they are about, which
   is still in the table. *)
LEMMA DeleteInv ==
  ASSUME Inv, NEW ids \in SUBSET Requests, Delete(ids)
  PROVE  Inv'
  <1> USE DEF Inv, Delete, targetVars, replayVars, viewVars
  <1>1. TypeOK'
    BY DEF TypeOK
  <1>2. (Fresh /\ CodeTrue /\ ErasedGone /\ LateStops /\ AnsweredDone /\ Read
          /\ EnforcedNoOrphans /\ AttemptKept)'
    BY DEF TypeOK, Fresh, CodeTrue, ErasedGone, LateStops, AnsweredDone, Read,
           EnforcedNoOrphans, AttemptKept
  <1>3. ViewInv'
    <2> SUFFICES ASSUME NEW v \in Views, view[v] = "listing",
                        ~(foreignKeys /\ subject[v] \in erased')
                 PROVE  known[v] \subseteq AttemptsOf(subject[v])'
      BY DEF ViewInv
    <2>1. known[v] \subseteq AttemptsOf(subject[v])
      BY DEF ViewInv
    <2>2. ASSUME NEW k \in known[v] PROVE k \in attempts'
      <3>1. k \in attempts /\ id[k] = subject[v]
        BY <2>1, <2>2 DEF AttemptsOf
      <3>2. CASE foreignKeys
        BY <3>1, <3>2 DEF EnforcedNoOrphans
      <3>3. CASE ~foreignKeys
        BY <3>1, <3>3
      <3> QED
        BY <3>2, <3>3
    <2> QED
      BY <2>1, <2>2 DEF AttemptsOf
  <1>4. HistoryComplete'
    BY DEF HistoryComplete
  <1> QED
    BY <1>1, <1>2, <1>3, <1>4

LEMMA NextInv == Inv /\ [Next]_vars => Inv'
  <1> SUFFICES ASSUME Inv, [Next]_vars PROVE Inv'
    OBVIOUS
  <1>1. CASE UNCHANGED vars
    BY <1>1 DEF vars, dbVars, replayVars, viewVars, Inv, TypeOK, Fresh, CodeTrue, ErasedGone,
                LateStops, AnsweredDone, Read, EnforcedNoOrphans, ViewInv, HistoryComplete,
                AttemptsOf, AttemptKept, targetVars
  <1>2. CASE Next
    BY <1>2, HandlerInv, TargetInv, SaveInv, ViewsInv, DeleteInv
    DEF Next, DeleteRequest, ClearRequests
  <1> QED
    BY <1>1, <1>2

LEMMA InvHolds == Spec => []Inv
  BY InitInv, NextInv, PTL DEF Spec

-----------------------------------------------------------------------------
(* A recorded or answered status code is the target's (dispatcher.go:78-98). *)
THEOREM AttemptsTrue == Spec => []AttemptTruth
  <1>1. Inv => AttemptTruth
    <2> SUFFICES ASSUME Inv, NEW k \in attempts \cup {c \in answered : http[c] = 200},
                        code[k] # 0
                 PROVE  reply[k] = code[k]
      BY DEF AttemptTruth
    <2>1. k \in Calls
      BY DEF Inv, TypeOK
    <2> QED
      BY <2>1 DEF Inv, CodeTrue
  <1> QED
    BY <1>1, InvHolds, PTL

(* A webhook that was deleted is not replayed by a later call, whatever runs
   beside it (server.go:88-97, sqlite.go:203-224). *)
THEOREM DeletedStaysDeleted == Spec => []DeletedNotReplayed
  <1>1. Inv => DeletedNotReplayed
    <2> SUFFICES ASSUME Inv, NEW k \in late, k \in answered PROVE http[k] = 404
      BY DEF Inv, LateStops, DeletedNotReplayed
    <2>1. pc[k] = "done"
      BY DEF Inv, AnsweredDone
    <2> QED
      BY <2>1 DEF Inv, LateStops
  <1> QED
    BY <1>1, InvHolds, PTL

(* With foreign keys on, the cascade of the schema leaves no attempt without
   its webhook, in any interleaving of replays and deletes (sqlite.go:62). *)
THEOREM CascadeComplete == Spec => []EnforcedNoOrphans
  <1>1. Inv => EnforcedNoOrphans
    BY DEF Inv
  <1> QED
    BY <1>1, InvHolds, PTL

(* The details of a webhook, read in two statements, miss no attempt that was
   answered before, but for a delete in between (sqlite.go:106-149). *)
THEOREM HistoriesComplete == Spec => []HistoryComplete
  <1>1. Inv => HistoryComplete
    BY DEF Inv
  <1> QED
    BY <1>1, InvHolds, PTL

(* A replay the target answered is in the history with its status and, the
   connection holding, its body, unless the client left, the database failed, or
   a deletion during the replay met enforced keys (dispatcher.go:88-98). *)
THEOREM AttemptsKept == Spec => []AttemptKept
  <1>1. Inv => AttemptKept
    BY DEF Inv
  <1> QED
    BY <1>1, InvHolds, PTL

(* Types, of every table and every call. *)
THEOREM ReplayTypes == Spec => []TypeOK
  <1>1. Inv => TypeOK
    BY DEF Inv
  <1> QED
    BY <1>1, InvHolds, PTL
=============================================================================
