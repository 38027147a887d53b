----------------------- MODULE FactorsAndFilesProofs -----------------------
(***************************************************************************)
(* Proofs about two modules that share no name and no state.               *)
(*                                                                         *)
(* MfaFactors, for any number of concurrent requests and of factors: no    *)
(* factor comes into force unproved, and none that was disabled comes      *)
(* back.                                                                   *)
(*                                                                         *)
(* FileSharing, for any number of files, browsers and downloads at a time: *)
(* what can be downloaded is whole, its object stays as long as a download *)
(* needs it, and no file is downloaded twice at once in one browser.       *)
(***************************************************************************)
EXTENDS MfaFactors, FileSharing, TLAPS

-----------------------------------------------------------------------------
(* Second factors: the inductive invariant *)

\* A request that confirms a factor verified a code of it, and writes its row.
ConfirmsProved ==
    \A r \in Requests :
        /\ request[r].pc \in {"confirm", "confirmed"} => request[r].read \in proved
        /\ request[r].pc = "confirmed" => request[r].locked = request[r].read

\* A row is known by its factor, and a factor that is being enrolled has no row yet.
OneRowPerFactor ==
    /\ \A f \in rows : f.id \in 1 .. factors
    /\ \A f, g \in rows : f.id = g.id => f = g
    /\ \A r \in Requests : request[r].pc = "enrolled" =>
          /\ request[r].new \in 1 .. factors
          /\ \A f \in rows : f.id # request[r].new
          /\ \A q \in Requests \ {r} : request[q].pc = "enrolled" =>
                request[q].new # request[r].new

MfaIInv == MfaTypeOK /\ ConfirmsProved /\ OneRowPerFactor /\ ActiveWasProved

LEMMA IdleTyped == Idle \in Request /\ Idle.pc = "idle"
  BY FactorsAssumption DEF Idle, Request

\* A request that starts with the factor a look-up found.
LEMMA RecordTyped ==
    ASSUME NEW f \in Factors, NEW pc \in {"confirm", "disable"}
    PROVE  LET rec == [Idle EXCEPT !.pc = pc, !.read = f] IN
           rec \in Request /\ rec.pc = pc /\ rec.read = f
  <1>1. 0 \in 0 .. MaxFactors /\ f \in 0 .. MaxFactors
    BY FactorsAssumption DEF Factors
  <1> DEFINE rec == [Idle EXCEPT !.pc = pc, !.read = f]
  <1>2. rec \in Request
    BY <1>1 DEF Idle, Request
  <1>3. rec.pc = pc /\ rec.read = f
    BY DEF Idle
  <1> QED BY <1>2, <1>3

-----------------------------------------------------------------------------
(* The steps that leave the table alone *)

\* A request moves on; the table and the factors are as before.
LEMMA RequestStep ==
    ASSUME MfaIInv, NEW r \in Requests, NEW rec \in Request, Go(r, rec),
           UNCHANGED <<rows, factors, app, logins>>,
           proved \subseteq proved', proved' \in SUBSET Factors,
           rec.pc # "enrolled",
           rec.pc \in {"confirm", "confirmed"} => rec.read \in proved',
           rec.pc = "confirmed" => rec.locked = rec.read
    PROVE  MfaIInv'
  <1>1. request \in [Requests -> Request]
    BY DEF MfaIInv, MfaTypeOK
  <1>2. request'[r] = rec /\ \A q \in Requests \ {r} : request'[q] = request[q]
    BY <1>1 DEF Go
  <1>3. MfaTypeOK'
    BY DEF MfaIInv, MfaTypeOK, Go
  <1>4. ConfirmsProved'
    BY <1>2 DEF MfaIInv, ConfirmsProved
  <1>5. OneRowPerFactor'
    BY <1>2 DEF MfaIInv, OneRowPerFactor
  <1>6. ActiveWasProved'
    BY DEF MfaIInv, ActiveWasProved, Active
  <1> QED BY <1>3, <1>4, <1>5, <1>6 DEF MfaIInv

LEMMA EnrollActiveStep == ASSUME MfaIInv, NEW r \in Requests, EnrollActive(r) PROVE MfaIInv'
  <1> DEFINE rec == [Idle EXCEPT !.pc = "enroll"]
  <1>1. rec \in Request /\ rec.pc = "enroll"
    BY FactorsAssumption DEF Idle, Request
  <1>2. Go(r, rec) /\ UNCHANGED <<rows, factors, app, logins, proved>>
    BY DEF EnrollActive, Quiet
  <1>3. proved \in SUBSET Factors BY DEF MfaIInv, MfaTypeOK
  <1> HIDE DEF rec
  <1> QED BY <1>1, <1>2, <1>3, RequestStep

LEMMA EnrollPendingStep == ASSUME MfaIInv, NEW r \in Requests, EnrollPending(r) PROVE MfaIInv'
  <1>1. PICK f \in 0 .. MaxFactors : Go(r, [request[r] EXCEPT !.pc = "replace", !.read = f])
    BY DEF EnrollPending
  <1> DEFINE rec == [request[r] EXCEPT !.pc = "replace", !.read = f]
  <1>2. rec \in Request /\ rec.pc = "replace"
    BY DEF MfaIInv, MfaTypeOK, Request
  <1>3. Go(r, rec) /\ UNCHANGED <<rows, factors, app, logins, proved>>
    BY <1>1 DEF EnrollPending, Quiet
  <1>4. proved \in SUBSET Factors BY DEF MfaIInv, MfaTypeOK
  <1> HIDE DEF rec
  <1> QED BY <1>2, <1>3, <1>4, RequestStep

\* A factor is enrolled: its number is drawn, and it has no row before the commit.
LEMMA EnrollWriteStep == ASSUME MfaIInv, NEW r \in Requests, EnrollWrite(r) PROVE MfaIInv'
  <1> DEFINE rec == [request[r] EXCEPT !.pc = "enrolled", !.locked = request[r].read,
                                       !.new = factors + 1]
  <1>1. /\ request \in [Requests -> Request] /\ factors \in 0 .. MaxFactors
        /\ factors < MaxFactors /\ MaxFactors \in Nat /\ factors' = factors + 1
        /\ app' = app \cup {factors + 1} /\ UNCHANGED <<rows, proved, logins>>
    BY FactorsAssumption DEF MfaIInv, MfaTypeOK, EnrollWrite
  <1>2. rec \in Request /\ rec.pc = "enrolled" /\ rec.new = factors + 1
    <2>1. request[r] \in Request /\ factors + 1 \in 0 .. MaxFactors
      BY <1>1
    <2> QED BY <2>1 DEF Request
  <1>3. request'[r] = rec /\ \A q \in Requests \ {r} : request'[q] = request[q]
    BY <1>1 DEF EnrollWrite, Go
  <1>4. request' \in [Requests -> Request]
    BY <1>1, <1>2 DEF EnrollWrite, Go
  <1> HIDE DEF rec
  <1>5. MfaTypeOK'
    BY <1>1, <1>4 DEF MfaIInv, MfaTypeOK, Factors
  <1>6. ConfirmsProved'
    BY <1>1, <1>2, <1>3 DEF MfaIInv, ConfirmsProved
  <1>7. OneRowPerFactor'
    <2>1. \A f \in rows : f.id \in 1 .. factors /\ f.id # factors + 1
      BY <1>1 DEF MfaIInv, OneRowPerFactor
    <2>2. \A q \in Requests \ {r} : request[q].pc = "enrolled" =>
             request[q].new \in 1 .. factors /\ request[q].new # factors + 1
      BY <1>1 DEF MfaIInv, OneRowPerFactor
    <2> QED BY <1>1, <1>2, <1>3, <2>1, <2>2 DEF MfaIInv, OneRowPerFactor
  <1>8. ActiveWasProved'
    BY <1>1 DEF MfaIInv, ActiveWasProved, Active
  <1> QED BY <1>5, <1>6, <1>7, <1>8 DEF MfaIInv

LEMMA ConfirmPendingStep == ASSUME MfaIInv, NEW r \in Requests, ConfirmPending(r) PROVE MfaIInv'
  <1>1. PICK f \in app : /\ proved' = proved \cup {f}
                         /\ Go(r, [Idle EXCEPT !.pc = "confirm", !.read = f])
    BY DEF ConfirmPending
  <1> DEFINE rec == [Idle EXCEPT !.pc = "confirm", !.read = f]
  <1>2. f \in Factors /\ proved \in SUBSET Factors BY DEF MfaIInv, MfaTypeOK
  <1>3. rec \in Request /\ rec.pc = "confirm" /\ rec.read = f
    BY <1>2, RecordTyped
  <1>4. Go(r, rec) /\ UNCHANGED <<rows, factors, app, logins>>
    BY <1>1 DEF ConfirmPending
  <1> HIDE DEF rec
  <1> QED BY <1>1, <1>2, <1>3, <1>4, RequestStep

LEMMA ConfirmWriteStep == ASSUME MfaIInv, NEW r \in Requests, ConfirmWrite(r) PROVE MfaIInv'
  <1> DEFINE rec == [request[r] EXCEPT !.pc = "confirmed", !.locked = request[r].read]
  <1>1. /\ rec \in Request /\ rec.pc = "confirmed"
        /\ rec.read = request[r].read /\ rec.locked = request[r].read
    BY DEF MfaIInv, MfaTypeOK, Request
  <1>2. request[r].read \in proved
    BY DEF MfaIInv, ConfirmsProved, ConfirmWrite
  <1>3. Go(r, rec) /\ UNCHANGED <<rows, factors, app, logins, proved>>
    BY DEF ConfirmWrite, Quiet
  <1>4. proved \in SUBSET Factors BY DEF MfaIInv, MfaTypeOK
  <1> HIDE DEF rec
  <1> QED BY <1>1, <1>2, <1>3, <1>4, RequestStep

LEMMA DisableActiveStep == ASSUME MfaIInv, NEW r \in Requests, DisableActive(r) PROVE MfaIInv'
  <1>1. PICK f \in Factors : Go(r, [Idle EXCEPT !.pc = "disable", !.read = f])
    BY DEF DisableActive
  <1> DEFINE rec == [Idle EXCEPT !.pc = "disable", !.read = f]
  <1>2. rec \in Request /\ rec.pc = "disable"
    BY RecordTyped
  <1>3. Go(r, rec) /\ UNCHANGED <<rows, factors, app, logins, proved>>
    BY <1>1 DEF DisableActive, Quiet
  <1>4. proved \in SUBSET Factors BY DEF MfaIInv, MfaTypeOK
  <1> HIDE DEF rec
  <1> QED BY <1>2, <1>3, <1>4, RequestStep

LEMMA DisableWriteStep == ASSUME MfaIInv, NEW r \in Requests, DisableWrite(r) PROVE MfaIInv'
  <1> DEFINE rec == [request[r] EXCEPT !.pc = "disabled", !.locked = request[r].read]
  <1>1. rec \in Request /\ rec.pc = "disabled"
    BY DEF MfaIInv, MfaTypeOK, Request
  <1>2. Go(r, rec) /\ UNCHANGED <<rows, factors, app, logins, proved>>
    BY DEF DisableWrite, Quiet
  <1>3. proved \in SUBSET Factors BY DEF MfaIInv, MfaTypeOK
  <1> HIDE DEF rec
  <1> QED BY <1>1, <1>2, <1>3, RequestStep

LEMMA AbortStep == ASSUME MfaIInv, NEW r \in Requests, Abort(r) PROVE MfaIInv'
  <1>1. Go(r, Idle) /\ UNCHANGED <<rows, factors, app, logins, proved>>
    BY DEF Abort, Quiet
  <1>2. proved \in SUBSET Factors BY DEF MfaIInv, MfaTypeOK
  <1> QED BY <1>1, <1>2, IdleTyped, RequestStep

LEMMA LoginStep == ASSUME MfaIInv, Login PROVE MfaIInv'
  <1>1. PICK f \in {0} \cup app : One(Active, f) /\ logins' = logins \cup {f}
    BY DEF Login
  <1>2. UNCHANGED <<rows, factors, app, proved, request>>
    BY DEF Login
  <1>3. MfaTypeOK'
    <2>1. f \in 0 .. MaxFactors BY FactorsAssumption DEF MfaIInv, MfaTypeOK, Factors
    <2> QED BY <1>1, <1>2, <2>1 DEF MfaIInv, MfaTypeOK
  <1>4. ConfirmsProved' /\ OneRowPerFactor'
    BY <1>2 DEF MfaIInv, ConfirmsProved, OneRowPerFactor
  <1>5. ActiveWasProved'
    BY <1>1, <1>2 DEF MfaIInv, ActiveWasProved, Active, One
  <1> QED BY <1>3, <1>4, <1>5 DEF MfaIInv

-----------------------------------------------------------------------------
(* The step that writes the table *)

LEMMA RowTyped ==
    ASSUME NEW i \in Factors
    PROVE  [id |-> i, enabled |-> FALSE, disabled |-> FALSE] \in Row
  BY DEF Row

LEMMA WrittenBackTyped ==
    ASSUME NEW f \in Row
    PROVE  /\ Enabled(f) \in Row /\ Enabled(f).id = f.id /\ Enabled(f).disabled = f.disabled
           /\ Disabled(f) \in Row /\ Disabled(f).id = f.id /\ Disabled(f).disabled
  BY DEF Row, Enabled, Disabled

\* A commit in which the rows of the table keep their factors, or one is replaced.
LEMMA CommitStep == ASSUME MfaIInv, NEW r \in Requests, Commit(r) PROVE MfaIInv'
  <1>1. /\ request \in [Requests -> Request] /\ rows \in SUBSET Row
        /\ UNCHANGED <<factors, app, proved, logins>> /\ Go(r, Idle)
        /\ factors \in 0 .. MaxFactors /\ MaxFactors \in Nat
    BY FactorsAssumption DEF MfaIInv, MfaTypeOK, Commit
  <1>2. request'[r] = Idle /\ \A q \in Requests \ {r} : request'[q] = request[q]
    BY <1>1 DEF Go
  <1>3. request' \in [Requests -> Request]
    BY <1>1, IdleTyped DEF Go
  <1>4. ConfirmsProved'
    BY <1>1, <1>2, IdleTyped DEF MfaIInv, ConfirmsProved
  <1>5. CASE request[r].pc = "enrolled" /\ rows' = Replaced(r)
    <2> DEFINE new == [id |-> request[r].new, enabled |-> FALSE, disabled |-> FALSE]
    <2>1. request[r].new \in 1 .. factors /\ \A f \in rows : f.id # request[r].new
      BY <1>5 DEF MfaIInv, OneRowPerFactor
    <2>2. new \in Row /\ new.id = request[r].new /\ ~new.enabled
      BY <1>1, <2>1, RowTyped DEF Factors
    <2>3. rows' \subseteq rows \cup {new}
      BY <1>5 DEF Replaced
    <2> HIDE DEF new
    <2>4. MfaTypeOK'
      BY <1>1, <1>3, <2>2, <2>3 DEF MfaIInv, MfaTypeOK
    <2>5. OneRowPerFactor'
      BY <1>1, <1>2, <1>5, <2>1, <2>2, <2>3, IdleTyped DEF MfaIInv, OneRowPerFactor
    <2>6. ActiveWasProved'
      BY <1>1, <2>2, <2>3 DEF MfaIInv, ActiveWasProved, Active
    <2> QED BY <1>4, <2>4, <2>5, <2>6 DEF MfaIInv
  <1>6. CASE request[r].pc = "confirmed" /\ rows' = Confirmed(r)
    <2>1. request[r].locked \in proved
      BY <1>6 DEF MfaIInv, ConfirmsProved
    <2>2. \A g \in rows' : \E f \in rows :
             (g = Enabled(f) /\ f.id = request[r].locked) \/ (g = f /\ f.id # request[r].locked)
      BY <1>6 DEF Confirmed
    <2>3. rows' \in SUBSET Row
      BY <1>1, <2>2, WrittenBackTyped
    <2>4. MfaTypeOK'
      BY <1>1, <1>3, <2>3 DEF MfaIInv, MfaTypeOK
    <2>5. OneRowPerFactor'
      <3>1. \A g \in rows' : \E f \in rows : g.id = f.id
        BY <1>1, <2>2, WrittenBackTyped
      <3>2. ASSUME NEW g \in rows', NEW h \in rows', g.id = h.id PROVE g = h
        <4>1. PICK f \in rows : (g = Enabled(f) /\ f.id = request[r].locked)
                                 \/ (g = f /\ f.id # request[r].locked)
          BY <2>2
        <4>2. PICK e \in rows : (h = Enabled(e) /\ e.id = request[r].locked)
                                 \/ (h = e /\ e.id # request[r].locked)
          BY <2>2
        <4>3. g.id = f.id /\ h.id = e.id
          BY <1>1, <4>1, <4>2, WrittenBackTyped
        <4>4. f = e
          BY <3>2, <4>3 DEF MfaIInv, OneRowPerFactor
        <4> QED BY <4>1, <4>2, <4>4
      <3> QED BY <1>1, <1>2, <3>1, <3>2, IdleTyped DEF MfaIInv, OneRowPerFactor
    <2>6. ActiveWasProved'
      <3>1. ASSUME NEW g \in rows', g.enabled, ~g.disabled PROVE g.id \in proved
        <4>1. PICK f \in rows : (g = Enabled(f) /\ f.id = request[r].locked)
                                 \/ (g = f /\ f.id # request[r].locked)
          BY <2>2
        <4>2. g.id = f.id
          BY <1>1, <4>1, WrittenBackTyped
        <4> QED BY <2>1, <3>1, <4>1, <4>2 DEF MfaIInv, ActiveWasProved, Active
      <3> QED BY <1>1, <3>1 DEF MfaIInv, ActiveWasProved, Active
    <2> QED BY <1>4, <2>4, <2>5, <2>6 DEF MfaIInv
  <1>7. CASE request[r].pc = "disabled" /\ rows' = Ended(r)
    <2>2. \A g \in rows' : \E f \in rows :
             (g = Disabled(f) /\ f.id = request[r].locked) \/ (g = f /\ f.id # request[r].locked)
      BY <1>7 DEF Ended
    <2>3. rows' \in SUBSET Row
      BY <1>1, <2>2, WrittenBackTyped
    <2>4. MfaTypeOK'
      BY <1>1, <1>3, <2>3 DEF MfaIInv, MfaTypeOK
    <2>5. OneRowPerFactor'
      <3>1. \A g \in rows' : \E f \in rows : g.id = f.id
        BY <1>1, <2>2, WrittenBackTyped
      <3>2. ASSUME NEW g \in rows', NEW h \in rows', g.id = h.id PROVE g = h
        <4>1. PICK f \in rows : (g = Disabled(f) /\ f.id = request[r].locked)
                                 \/ (g = f /\ f.id # request[r].locked)
          BY <2>2
        <4>2. PICK e \in rows : (h = Disabled(e) /\ e.id = request[r].locked)
                                 \/ (h = e /\ e.id # request[r].locked)
          BY <2>2
        <4>3. g.id = f.id /\ h.id = e.id
          BY <1>1, <4>1, <4>2, WrittenBackTyped
        <4>4. f = e
          BY <3>2, <4>3 DEF MfaIInv, OneRowPerFactor
        <4> QED BY <4>1, <4>2, <4>4
      <3> QED BY <1>1, <1>2, <3>1, <3>2, IdleTyped DEF MfaIInv, OneRowPerFactor
    <2>6. ActiveWasProved'
      <3>1. ASSUME NEW g \in rows', g.enabled, ~g.disabled PROVE g \in rows
        BY <1>1, <2>2, <3>1, WrittenBackTyped
      <3> QED BY <1>1, <3>1 DEF MfaIInv, ActiveWasProved, Active
    <2> QED BY <1>4, <2>4, <2>5, <2>6 DEF MfaIInv
  <1> QED BY <1>5, <1>6, <1>7 DEF Commit

\* Rows that were disabled stay so at a commit: a factor has one row, and no commit clears the flag.
LEMMA CommitKeepsDisabled ==
    ASSUME MfaIInv, NEW r \in Requests, Commit(r),
           NEW f \in rows, f.disabled, NEW g \in rows', g.id = f.id
    PROVE  g.disabled
  <1>1. rows \in SUBSET Row
    BY DEF MfaIInv, MfaTypeOK
  <1>2. \A h \in rows : h.id = f.id => h.disabled
    BY DEF MfaIInv, OneRowPerFactor
  <1>3. CASE request[r].pc = "enrolled" /\ rows' = Replaced(r)
    <2>1. \A h \in rows : h.id # request[r].new
      BY <1>3 DEF MfaIInv, OneRowPerFactor
    <2> QED BY <1>2, <1>3, <2>1 DEF Replaced
  <1>4. CASE request[r].pc = "confirmed" /\ rows' = Confirmed(r)
    <2>1. PICK h \in rows : g = Enabled(h) \/ g = h
      BY <1>4 DEF Confirmed
    <2>2. g.id = h.id /\ g.disabled = h.disabled
      BY <1>1, <2>1, WrittenBackTyped
    <2> QED BY <1>2, <2>2
  <1>5. CASE request[r].pc = "disabled" /\ rows' = Ended(r)
    <2>1. PICK h \in rows : g = Disabled(h) \/ g = h
      BY <1>5 DEF Ended
    <2> QED BY <1>1, <1>2, <2>1, WrittenBackTyped
  <1> QED BY <1>3, <1>4, <1>5 DEF Commit

-----------------------------------------------------------------------------
(* Second factors: the theorems *)

LEMMA InitMfaIInv == MfaInit => MfaIInv
  <1> SUFFICES ASSUME MfaInit PROVE MfaIInv OBVIOUS
  <1>1. request \in [Requests -> Request]
    BY IdleTyped DEF MfaInit
  <1>2. MfaTypeOK
    BY <1>1, FactorsAssumption DEF MfaInit, MfaTypeOK
  <1>3. \A r \in Requests : request[r].pc = "idle"
    BY IdleTyped DEF MfaInit
  <1>4. ConfirmsProved /\ OneRowPerFactor
    BY <1>3 DEF MfaInit, ConfirmsProved, OneRowPerFactor
  <1>5. ActiveWasProved
    BY DEF MfaInit, ActiveWasProved, Active
  <1> QED BY <1>2, <1>4, <1>5 DEF MfaIInv

LEMMA NextMfaIInv == MfaIInv /\ [MfaNext]_mfaVars => MfaIInv'
  <1> SUFFICES ASSUME MfaIInv, [MfaNext]_mfaVars PROVE MfaIInv' OBVIOUS
  <1>1. CASE UNCHANGED mfaVars
    BY <1>1 DEF mfaVars, MfaIInv, MfaTypeOK, ConfirmsProved, OneRowPerFactor, ActiveWasProved, Active
  <1>2. CASE Login
    BY <1>2, LoginStep
  <1>3. ASSUME NEW r \in Requests,
               \/ EnrollActive(r) \/ EnrollPending(r) \/ EnrollWrite(r)
               \/ ConfirmPending(r) \/ ConfirmWrite(r)
               \/ DisableActive(r) \/ DisableWrite(r)
               \/ Commit(r) \/ Abort(r)
        PROVE  MfaIInv'
    BY <1>3, EnrollActiveStep, EnrollPendingStep, EnrollWriteStep, ConfirmPendingStep,
       ConfirmWriteStep, DisableActiveStep, DisableWriteStep, CommitStep, AbortStep
  <1> QED BY <1>1, <1>2, <1>3 DEF MfaNext

LEMMA MfaIInvHolds == MfaSpec => []MfaIInv
  BY InitMfaIInv, NextMfaIInv, PTL DEF MfaSpec

\* The table, the requests and the factors stay within their types, for any number of each.
THEOREM FactorsTyped == MfaSpec => []MfaTypeOK
  <1>1. MfaIInv => MfaTypeOK BY DEF MfaIInv
  <1> QED BY <1>1, MfaIInvHolds, PTL

\* No factor comes into force, and no login takes a code of one, unless a code of its own
\* secret was verified: for any number of enrolments and confirmations that overlap.
THEOREM ActiveFactorsWereProved == MfaSpec => []ActiveWasProved
  <1>1. MfaIInv => ActiveWasProved BY DEF MfaIInv
  <1> QED BY <1>1, MfaIInvHolds, PTL

\* No step of any request takes back that a factor was disabled.
THEOREM DisabledFactorsStayDisabled == MfaSpec => DisabledForGood
  <1>1. ASSUME MfaIInv, [MfaNext]_mfaVars
        PROVE  [\A f \in rows : f.disabled => \A g \in rows' : g.id = f.id => g.disabled]_mfaVars
    <2>1. CASE \E r \in Requests : Commit(r)
      BY <1>1, <2>1, CommitKeepsDisabled
    <2>2. CASE rows' = rows
      BY <1>1, <2>2 DEF MfaIInv, OneRowPerFactor
    <2>3. ASSUME NEW r \in Requests,
                 \/ EnrollActive(r) \/ EnrollPending(r) \/ EnrollWrite(r)
                 \/ ConfirmPending(r) \/ ConfirmWrite(r)
                 \/ DisableActive(r) \/ DisableWrite(r) \/ Abort(r)
          PROVE  rows' = rows
      BY <2>3 DEF EnrollActive, EnrollPending, EnrollWrite, ConfirmPending, ConfirmWrite,
                  DisableActive, DisableWrite, Abort, Quiet
    <2>4. ASSUME Login PROVE rows' = rows
      BY <2>4 DEF Login
    <2> QED BY <1>1, <2>1, <2>2, <2>3, <2>4 DEF MfaNext, mfaVars
  <1> QED BY <1>1, MfaIInvHolds, PTL DEF MfaSpec, DisabledForGood

-----------------------------------------------------------------------------
(* Files: the inductive invariant *)

\* An upload that passed the comparison of sizes has its whole object in the storage.
PassedIsWhole ==
    \A f \in Files :
        upload[f] \in {"write", "announce", "commit"} => object[f] = "whole"

\* Only an upload that came to its end commits, and no other step of it follows.
RowsAreDone == \A f \in attachments : upload[f] = "done" /\ object[f] = "whole"

\* A download under way is of a file in a browser; one that found its attachment found that
\* of a finished upload.
LoadsAreDone ==
    \A l \in Loads :
        /\ load[l] # NoLoad => load[l].browser \in Browsers /\ load[l].file \in Files
        /\ load[l].pc = "object" => upload[load[l].file] = "done" /\ object[load[l].file] = "whole"

IInv == TypeOK /\ PassedIsWhole /\ RowsAreDone /\ LoadsAreDone /\ OneDownloadPerFile

LEMMA NoLoadTyped == NoLoad \in Load /\ NoLoad.pc = "idle"
  BY DEF NoLoad, Load

\* What TypeOK says of the upload and the storage.
LEMMA StorageTyped ==
    ASSUME TypeOK
    PROVE  /\ upload \in [Files -> {"new", "put", "check", "write", "announce", "commit", "done"}]
           /\ object \in [Files -> {"none", "whole", "other"}]
           /\ attachments \in SUBSET Files
  BY DEF TypeOK

-----------------------------------------------------------------------------
(* The steps of the upload leave the browsers alone. *)

\* A step of the upload of one file that keeps the objects of finished uploads keeps the
\* invariant, when what the upload does next is well founded.
LEMMA UploadStep ==
    ASSUME IInv, TypeOK', NEW f \in Files, UNCHANGED <<attachments, load>>,
           upload[f] # "done",
           \A g \in Files \ {f} : upload'[g] = upload[g] /\ object'[g] = object[g],
           upload'[f] \in {"write", "announce", "commit"} => object'[f] = "whole"
    PROVE  IInv'
  <1>1. PassedIsWhole'
    BY DEF IInv, PassedIsWhole
  <1>2. f \notin attachments /\ \A l \in Loads : load[l].pc = "object" => load[l].file # f
    BY DEF IInv, RowsAreDone, LoadsAreDone
  <1>3. RowsAreDone'
    BY <1>2, StorageTyped DEF IInv, RowsAreDone
  <1>4. LoadsAreDone'
    BY <1>2, NoLoadTyped DEF IInv, LoadsAreDone
  <1>5. OneDownloadPerFile'
    BY DEF IInv, OneDownloadPerFile
  <1> QED BY <1>1, <1>3, <1>4, <1>5 DEF IInv

LEMMA AuthorizeStep == ASSUME IInv, NEW f \in Files, Authorize(f) PROVE IInv'
  <1>1. TypeOK' BY DEF IInv, TypeOK, Authorize, Step, browser
  <1>2. \A g \in Files \ {f} : upload'[g] = upload[g] /\ object'[g] = object[g]
    BY StorageTyped DEF IInv, Authorize, Step
  <1>3. upload'[f] \notin {"write", "announce", "commit"} /\ upload[f] # "done"
    BY StorageTyped DEF IInv, Authorize, Step
  <1> QED BY <1>1, <1>2, <1>3, UploadStep DEF Authorize, browser

LEMMA RefuseStep == ASSUME IInv, NEW f \in Files, Refuse(f) PROVE IInv'
  <1>1. TypeOK' BY DEF IInv, TypeOK, Refuse, Step, browser
  <1>2. \A g \in Files \ {f} : upload'[g] = upload[g] /\ object'[g] = object[g]
    BY StorageTyped DEF IInv, Refuse, Step
  <1>3. upload'[f] \notin {"write", "announce", "commit"} /\ upload[f] # "done"
    BY StorageTyped DEF IInv, Refuse, Step
  <1> QED BY <1>1, <1>2, <1>3, UploadStep DEF Refuse, browser

LEMMA PutObjectStep == ASSUME IInv, NEW f \in Files, PutObject(f) PROVE IInv'
  <1>1. TypeOK' BY DEF IInv, TypeOK, PutObject, Store, Step, browser
  <1>2. \A g \in Files \ {f} : upload'[g] = upload[g] /\ object'[g] = object[g]
    BY StorageTyped DEF IInv, PutObject, Store, Step
  <1>3. upload'[f] \notin {"write", "announce", "commit"} /\ upload[f] # "done"
    BY StorageTyped DEF IInv, PutObject, Step
  <1> QED BY <1>1, <1>2, <1>3, UploadStep DEF PutObject, browser

LEMMA SizeMismatchStep == ASSUME IInv, NEW f \in Files, SizeMismatch(f) PROVE IInv'
  <1>1. TypeOK' BY DEF IInv, TypeOK, SizeMismatch, Store, Step, browser
  <1>2. \A g \in Files \ {f} : upload'[g] = upload[g] /\ object'[g] = object[g]
    BY StorageTyped DEF IInv, SizeMismatch, Store, Step
  <1>3. upload'[f] \notin {"write", "announce", "commit"} /\ upload[f] # "done"
    BY StorageTyped DEF IInv, SizeMismatch, Step
  <1> QED BY <1>1, <1>2, <1>3, UploadStep DEF SizeMismatch, browser

LEMMA SizeCheckedStep == ASSUME IInv, NEW f \in Files, SizeChecked(f) PROVE IInv'
  <1>1. TypeOK' BY DEF IInv, TypeOK, SizeChecked, Step, browser
  <1>2. \A g \in Files \ {f} : upload'[g] = upload[g] /\ object'[g] = object[g]
    BY StorageTyped DEF IInv, SizeChecked, Step
  <1>3. object'[f] = "whole" /\ upload[f] # "done"
    BY DEF SizeChecked, SizeMatches
  <1> QED BY <1>1, <1>2, <1>3, UploadStep DEF SizeChecked, browser

LEMMA WriteRowsStep == ASSUME IInv, NEW f \in Files, WriteRows(f) PROVE IInv'
  <1>1. TypeOK' BY DEF IInv, TypeOK, WriteRows, Step, browser
  <1>2. \A g \in Files \ {f} : upload'[g] = upload[g] /\ object'[g] = object[g]
    BY StorageTyped DEF IInv, WriteRows, Step
  <1>3. object'[f] = "whole" /\ upload[f] # "done"
    BY DEF WriteRows, IInv, PassedIsWhole
  <1> QED BY <1>1, <1>2, <1>3, UploadStep DEF WriteRows, browser

LEMMA AnnounceStep == ASSUME IInv, NEW f \in Files, Announce(f) PROVE IInv'
  <1>1. TypeOK' BY DEF IInv, TypeOK, Announce, Step, browser
  <1>2. \A g \in Files \ {f} : upload'[g] = upload[g] /\ object'[g] = object[g]
    BY StorageTyped DEF IInv, Announce, Step
  <1>3. object'[f] = "whole" /\ upload[f] # "done"
    BY DEF Announce, IInv, PassedIsWhole
  <1> QED BY <1>1, <1>2, <1>3, UploadStep DEF Announce, browser

LEMMA UploadFailsStep == ASSUME IInv, NEW f \in Files, UploadFails(f) PROVE IInv'
  <1>1. TypeOK' BY DEF IInv, TypeOK, UploadFails, Step, browser
  <1>2. \A g \in Files \ {f} : upload'[g] = upload[g] /\ object'[g] = object[g]
    BY StorageTyped DEF IInv, UploadFails, Step
  <1>3. upload'[f] \notin {"write", "announce", "commit"} /\ upload[f] # "done"
    BY StorageTyped DEF IInv, UploadFails, Step
  <1> QED BY <1>1, <1>2, <1>3, UploadStep DEF UploadFails, browser

\* The rows of a file appear with its upload done.
LEMMA CommitUploadStep == ASSUME IInv, NEW f \in Files, CommitUpload(f) PROVE IInv'
  <1>1. TypeOK' BY DEF IInv, TypeOK, CommitUpload, Step, browser
  <1>2. object[f] = "whole" /\ upload' = [upload EXCEPT ![f] = "done"] /\ attachments' = attachments \cup {f}
    BY DEF IInv, PassedIsWhole, CommitUpload, Step
  <1>3. PassedIsWhole'
    BY <1>2, StorageTyped DEF IInv, PassedIsWhole, CommitUpload
  <1>4. RowsAreDone'
    BY <1>2, StorageTyped DEF IInv, RowsAreDone, CommitUpload
  <1>5. LoadsAreDone'
    BY <1>2, StorageTyped DEF IInv, LoadsAreDone, CommitUpload, browser
  <1>6. OneDownloadPerFile'
    BY DEF IInv, OneDownloadPerFile, CommitUpload, browser
  <1> QED BY <1>1, <1>3, <1>4, <1>5, <1>6 DEF IInv

LEMMA DeleteConversationStep == ASSUME IInv, DeleteConversation PROVE IInv'
  <1>1. TypeOK' BY DEF IInv, TypeOK, DeleteConversation, browser
  <1>2. PassedIsWhole' BY DEF IInv, PassedIsWhole, DeleteConversation
  <1>3. RowsAreDone' BY DEF RowsAreDone, DeleteConversation
  <1>4. LoadsAreDone' BY DEF IInv, LoadsAreDone, DeleteConversation, browser
  <1>5. OneDownloadPerFile' BY DEF IInv, OneDownloadPerFile, DeleteConversation, browser
  <1> QED BY <1>1, <1>2, <1>3, <1>4, <1>5 DEF IInv

-----------------------------------------------------------------------------
(* The steps of the browsers leave the server alone. *)

\* What the upload and the storage keep when a browser moves.
LEMMA BrowserStep ==
    ASSUME IInv, TypeOK', UNCHANGED server, LoadsAreDone', OneDownloadPerFile'
    PROVE  IInv'
  <1>1. PassedIsWhole' /\ RowsAreDone'
    BY DEF IInv, PassedIsWhole, RowsAreDone, server
  <1> QED BY <1>1 DEF IInv

\* A download that ends takes nothing from the others.
LEMMA LoadEnds ==
    ASSUME IInv, TypeOK', UNCHANGED server, NEW S \in SUBSET Loads,
           load' = [l \in Loads |-> IF l \in S THEN NoLoad ELSE load[l]]
    PROVE  IInv'
  <1>1. LoadsAreDone'
    BY NoLoadTyped DEF IInv, LoadsAreDone, server
  <1>2. OneDownloadPerFile'
    <2> SUFFICES ASSUME NEW k \in Loads, NEW l \in Loads, load'[k] # NoLoad, k # l,
                        load'[k].browser = load'[l].browser, load'[k].file = load'[l].file
                 PROVE  FALSE
      BY DEF OneDownloadPerFile
    <2>1. load'[k] = load[k]
      OBVIOUS
    <2>2. CASE l \notin S
      BY <2>1, <2>2 DEF IInv, OneDownloadPerFile
    <2>3. CASE l \in S
      <3>1. load[k].browser \in Browsers
        BY <2>1 DEF IInv, LoadsAreDone
      <3> QED BY <2>1, <2>3, <3>1, BoundAssumption DEF NoLoad
    <2> QED BY <2>2, <2>3
  <1> QED BY <1>1, <1>2, BrowserStep

\* A download starts only for a file the browser is not downloading.
LEMMA LoadStarts ==
    ASSUME IInv, TypeOK', UNCHANGED server, NEW b \in Browsers, NEW f \in Files,
           f \notin Loading(b), Start(b, f)
    PROVE  IInv'
  <1> DEFINE Downloading == [pc |-> "row", browser |-> b, file |-> f]
  <1>1. PICK n \in Loads : load[n] = NoLoad /\ load' = [load EXCEPT ![n] = Downloading]
    BY DEF Start
  <1>2. load \in [Loads -> Load]
    BY DEF IInv, TypeOK
  <1>3. load'[n] = Downloading /\ \A l \in Loads \ {n} : load'[l] = load[l]
    BY <1>1, <1>2
  <1>4. LoadsAreDone'
    BY <1>3 DEF IInv, LoadsAreDone, server
  <1>5. \A l \in Loads \ {n} : ~(load[l].browser = b /\ load[l].file = f)
    BY DEF Loading
  <1>6. OneDownloadPerFile'
    <2> SUFFICES ASSUME NEW k \in Loads, NEW l \in Loads, load'[k] # NoLoad, k # l,
                        load'[k].browser = load'[l].browser, load'[k].file = load'[l].file
                 PROVE  FALSE
      BY DEF OneDownloadPerFile
    <2>1. CASE k = n BY <1>3, <1>5, <2>1
    <2>2. CASE l = n BY <1>3, <1>5, <2>2
    <2>3. CASE k # n /\ l # n BY <1>3, <2>3 DEF IInv, OneDownloadPerFile
    <2> QED BY <2>1, <2>2, <2>3
  <1> QED BY <1>4, <1>6, BrowserStep

\* Starting a download keeps the type of the downloads.
LEMMA StartTyped ==
    ASSUME load \in [Loads -> Load], NEW b \in Browsers, NEW f \in Files, Start(b, f)
    PROVE  load' \in [Loads -> Load]
  <1>1. [pc |-> "row", browser |-> b, file |-> f] \in Load
    BY DEF Load
  <1> QED BY <1>1 DEF Start

LEMMA KnownAreFiles == ASSUME TypeOK, NEW b PROVE Known(b) \subseteq Files
  BY DEF TypeOK, Known

LEMMA LoadFileStep ==
    ASSUME IInv, NEW b \in Browsers, NEW f \in Files, LoadFile(b, f) PROVE IInv'
  <1>1. f \notin Loading(b) /\ Start(b, f) /\ UNCHANGED <<server, awaited, shown, failed, events>>
    BY DEF LoadFile
  <1>2. TypeOK'
    BY <1>1, StartTyped DEF IInv, TypeOK, server
  <1> QED BY <1>1, <1>2, LoadStarts

LEMMA RetryLoadFileStep ==
    ASSUME IInv, NEW b \in Browsers, NEW f \in Files, RetryLoadFile(b, f) PROVE IInv'
  <1>1. /\ UNCHANGED <<server, awaited, shown>> /\ events' \in 0 .. MaxEvents
        /\ failed' \in [Browsers -> SUBSET Files]
    BY BoundAssumption DEF RetryLoadFile, IInv, TypeOK
  <1>2. CASE UNCHANGED load
    <2>1. TypeOK' BY <1>1, <1>2 DEF IInv, TypeOK, server
    <2>2. LoadsAreDone' /\ OneDownloadPerFile'
      BY <1>1, <1>2 DEF IInv, LoadsAreDone, OneDownloadPerFile, server
    <2> QED BY <1>1, <2>1, <2>2, BrowserStep
  <1>3. CASE f \notin Loading(b) /\ Start(b, f)
    <2>1. TypeOK' BY <1>1, <1>3, StartTyped DEF IInv, TypeOK, server
    <2> QED BY <1>1, <1>3, <2>1, LoadStarts
  <1> QED BY <1>2, <1>3 DEF RetryLoadFile

\* A download that fails is over, and its file is marked.
LEMMA FailsStep ==
    ASSUME IInv, NEW l \in Loads, Fails(l), UNCHANGED <<server, awaited, shown, events>>,
           load[l].pc # "idle"
    PROVE  IInv'
  <1>1. load[l].file \in Files /\ load[l].browser \in Browsers
    BY NoLoadTyped DEF IInv, LoadsAreDone
  <1>2. load' = [k \in Loads |-> IF k \in {l} THEN NoLoad ELSE load[k]]
    BY DEF Fails, IInv, TypeOK
  <1>3. TypeOK'
    BY <1>1, <1>2, NoLoadTyped DEF Fails, IInv, TypeOK, server
  <1> QED BY <1>2, <1>3, LoadEnds

LEMMA FindAttachmentStep == ASSUME IInv, NEW l \in Loads, FindAttachment(l) PROVE IInv'
  <1>1. load[l].pc = "row" /\ load[l] \in Load /\ UNCHANGED <<server, awaited, shown, events>>
    BY DEF FindAttachment, IInv, TypeOK
  <1>2. CASE load[l].file \notin attachments
    BY <1>1, <1>2, FailsStep DEF FindAttachment
  <1>3. CASE load[l].file \in attachments
    <2> DEFINE Found == [load[l] EXCEPT !.pc = "object"]
    <2>1. Found \in Load /\ Found.pc = "object" /\ Found.browser = load[l].browser
                        /\ Found.file = load[l].file
      BY <1>1 DEF Load
    <2>2. load' = [load EXCEPT ![l] = Found] /\ UNCHANGED failed
      BY <1>3 DEF FindAttachment
    <2>3. TypeOK' BY <1>1, <2>1, <2>2 DEF IInv, TypeOK, server
    <2>4. load \in [Loads -> Load] /\ load[l] # NoLoad
      BY <1>1, NoLoadTyped DEF IInv, TypeOK
    <2>5. load'[l] = Found /\ \A k \in Loads \ {l} : load'[k] = load[k]
      BY <2>2, <2>4
    <2> HIDE DEF Found
    <2>6. LoadsAreDone'
      <3>1. load[l].browser \in Browsers /\ load[l].file \in Files
        BY <2>4 DEF IInv, LoadsAreDone
      <3>2. upload[load[l].file] = "done" /\ object[load[l].file] = "whole"
        BY <1>3 DEF IInv, RowsAreDone
      <3> QED BY <1>1, <2>1, <2>5, <3>1, <3>2 DEF IInv, LoadsAreDone, server
    <2>7. OneDownloadPerFile'
      <3>1. \A k \in Loads : /\ load'[k].browser = load[k].browser
                             /\ load'[k].file = load[k].file
                             /\ load'[k] # NoLoad => load[k] # NoLoad
        BY <2>1, <2>4, <2>5
      <3> QED BY <3>1 DEF IInv, OneDownloadPerFile
    <2> QED BY <1>1, <2>3, <2>6, <2>7, BrowserStep
  <1> QED BY <1>2, <1>3

LEMMA GetObjectStep == ASSUME IInv, NEW l \in Loads, GetObject(l) PROVE IInv'
  <1>1. load[l].pc = "object" /\ UNCHANGED <<server, awaited, failed, events>>
    BY DEF GetObject
  <1>2. load[l].file \in Files /\ load[l].browser \in Browsers
    BY <1>1, NoLoadTyped DEF IInv, LoadsAreDone
  <1>3. load' = [k \in Loads |-> IF k \in {l} THEN NoLoad ELSE load[k]]
    BY DEF GetObject, IInv, TypeOK
  <1>4. TypeOK'
    BY <1>1, <1>2, <1>3, NoLoadTyped DEF GetObject, IInv, TypeOK, server
  <1> QED BY <1>1, <1>3, <1>4, LoadEnds

LEMMA LoadPageStep == ASSUME IInv, NEW b \in Browsers, LoadPage(b) PROVE IInv'
  <1> DEFINE S == {l \in Loads : load[l].browser = b}
  <1>1. load' = [l \in Loads |-> IF l \in S THEN NoLoad ELSE load[l]] /\ UNCHANGED server
    BY DEF LoadPage
  <1>2. TypeOK'
    BY <1>1, NoLoadTyped, BoundAssumption DEF LoadPage, IInv, TypeOK, server
  <1> QED BY <1>1, <1>2, LoadEnds

\* The answer to the sender changes neither the server nor a download.
LEMMA AnsweredStep == ASSUME IInv, NEW f \in Files, Answered(f) PROVE IInv'
  <1>1. UNCHANGED <<server, load>>
    BY DEF Answered
  <1>2. TypeOK' BY DEF IInv, TypeOK, Answered, server
  <1>3. LoadsAreDone' /\ OneDownloadPerFile'
    BY <1>1 DEF IInv, LoadsAreDone, OneDownloadPerFile, server
  <1> QED BY <1>1, <1>2, <1>3, BrowserStep

-----------------------------------------------------------------------------
(* Files: the theorems *)

LEMMA InitIInv == Init => IInv
  <1> SUFFICES ASSUME Init PROVE IInv
    OBVIOUS
  <1>1. TypeOK
    <2>1. load \in [Loads -> Load] BY NoLoadTyped DEF Init
    <2>2. shown \in [Browsers -> SUBSET Files] /\ failed \in [Browsers -> SUBSET Files]
      BY DEF Init
    <2>3. /\ upload \in [Files -> {"new", "put", "check", "write", "announce", "commit", "done"}]
          /\ object \in [Files -> {"none", "whole", "other"}]
      BY DEF Init
    <2>4. events \in 0 .. MaxEvents BY BoundAssumption DEF Init
    <2> QED BY <2>1, <2>2, <2>3, <2>4 DEF Init, TypeOK
  <1>2. PassedIsWhole /\ RowsAreDone BY DEF Init, PassedIsWhole, RowsAreDone
  <1>3. \A l \in Loads : load[l] = NoLoad BY DEF Init
  <1>4. LoadsAreDone /\ OneDownloadPerFile
    BY <1>3, NoLoadTyped DEF LoadsAreDone, OneDownloadPerFile
  <1> QED BY <1>1, <1>2, <1>4 DEF IInv

LEMMA NextIInv == IInv /\ [Next]_vars => IInv'
  <1> SUFFICES ASSUME IInv, [Next]_vars PROVE IInv'
    OBVIOUS
  <1>1. ASSUME NEW f \in Files,
               \/ Authorize(f) \/ Refuse(f) \/ PutObject(f) \/ SizeMismatch(f) \/ SizeChecked(f)
               \/ WriteRows(f) \/ Announce(f) \/ Answered(f) \/ CommitUpload(f) \/ UploadFails(f)
        PROVE  IInv'
    BY <1>1, AuthorizeStep, RefuseStep, PutObjectStep, SizeMismatchStep, SizeCheckedStep,
       WriteRowsStep, AnnounceStep, AnsweredStep, CommitUploadStep, UploadFailsStep
  <1>2. ASSUME NEW f \in Files, NEW b \in Browsers, LoadFile(b, f) \/ RetryLoadFile(b, f)
        PROVE  IInv'
    BY <1>2, LoadFileStep, RetryLoadFileStep
  <1>3. ASSUME NEW l \in Loads, FindAttachment(l) \/ GetObject(l)
        PROVE  IInv'
    BY <1>3, FindAttachmentStep, GetObjectStep
  <1>4. ASSUME NEW l \in Loads, LoadFails(l)
        PROVE  IInv'
    BY <1>4, FailsStep DEF LoadFails
  <1>5. ASSUME NEW b \in Browsers, LoadPage(b)
        PROVE  IInv'
    BY <1>5, LoadPageStep
  <1>6. ASSUME DeleteConversation
        PROVE  IInv'
    BY <1>6, DeleteConversationStep
  <1>7. ASSUME UNCHANGED vars
        PROVE  IInv'
    BY <1>7 DEF vars, IInv, TypeOK, PassedIsWhole, RowsAreDone, LoadsAreDone, OneDownloadPerFile
  <1> QED BY <1>1, <1>2, <1>3, <1>4, <1>5, <1>6, <1>7 DEF Next

LEMMA IInvHolds == Spec => []IInv
  BY InitIInv, NextIInv, PTL DEF Spec

\* The storage, the rows, the uploads and the downloads are well typed.
THEOREM FilesTyped == Spec => []TypeOK
  <1>1. IInv => TypeOK BY DEF IInv
  <1> QED BY <1>1, IInvHolds, PTL

\* Whatever uploads, failures, rollbacks and the deletion of the conversation overlap, an
\* attachment that can be downloaded has its whole object in the storage.
THEOREM ServedFilesAreWhole == Spec => []ServedIsWhole
  <1>1. IInv => ServedIsWhole BY DEF IInv, RowsAreDone, ServedIsWhole
  <1> QED BY <1>1, IInvHolds, PTL

\* A download that found the attachment finds the object too, even after the deletion.
THEOREM DownloadsFindTheObject == Spec => []ObjectIsThere
  <1>1. IInv => ObjectIsThere BY DEF IInv, LoadsAreDone, ObjectIsThere
  <1> QED BY <1>1, IInvHolds, PTL

\* Prefetch, bubbles and retries never download one file twice at once in one browser.
THEOREM NoDoubleDownload == Spec => []OneDownloadPerFile
  <1>1. IInv => OneDownloadPerFile BY DEF IInv
  <1> QED BY <1>1, IInvHolds, PTL
=============================================================================
