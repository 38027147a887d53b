----------------------------- MODULE MfaFactors -----------------------------
(***************************************************************************)
(* The second factors of one account: MfaService (mfa_service.py) over the *)
(* table mfa_factors, and the step-up of a password login that asks for a  *)
(* code of the active factor.                                              *)
(*                                                                         *)
(* A request reads, writes and is answered in one transaction that commits *)
(* afterwards; reads see what is committed. A write locks its row until    *)
(* then. Nothing in the table keeps an account to one factor of a kind:    *)
(* scalar_one_or_none raises where a look-up finds two.                    *)
(*                                                                         *)
(* A factor stands for its secret; a code of it can be given once an       *)
(* answer has shown the secret to the user's authenticator.                *)
(***************************************************************************)
EXTENDS Integers, FiniteSets

CONSTANTS Requests,
          MaxFactors    \* bound on the factors enrolled

ASSUME FactorsAssumption == MaxFactors \in Nat

VARIABLES
    rows,     \* committed rows of mfa_factors
    factors,  \* factors enrolled so far
    app,      \* factors whose secret was shown
    proved,   \* factors a code of which was verified
    logins,   \* what the logins so far were granted with: a factor, or 0 for no code
    request

mfaVars == <<rows, factors, app, proved, logins, request>>

Factors == 1 .. MaxFactors

\* is_pending: neither; is_active: enabled and not disabled.
Row == [id: Factors, enabled: BOOLEAN, disabled: BOOLEAN]

\* read: the factor a look-up found, 0 for none. locked: the row it wrote.
Request == [pc: {"idle", "enroll", "replace", "enrolled", "confirm", "confirmed",
                 "disable", "disabled"},
            read: 0 .. MaxFactors, locked: 0 .. MaxFactors, new: 0 .. MaxFactors]
Idle == [pc |-> "idle", read |-> 0, locked |-> 0, new |-> 0]

MfaTypeOK ==
    /\ rows \in SUBSET Row
    /\ factors \in 0 .. MaxFactors
    /\ app \in SUBSET Factors /\ proved \in SUBSET Factors
    /\ logins \in SUBSET (0 .. MaxFactors)
    /\ request \in [Requests -> Request]

MfaInit ==
    /\ rows = {} /\ factors = 0 /\ app = {} /\ proved = {} /\ logins = {}
    /\ request = [r \in Requests |-> Idle]

-----------------------------------------------------------------------------
(* Helpers *)

Active == {f.id : f \in {g \in rows : g.enabled /\ ~g.disabled}}
Pending == {f.id : f \in {g \in rows : ~g.enabled /\ ~g.disabled}}
Stored == {f.id : f \in rows}

\* scalar_one_or_none: the only row of a look-up, 0 for none; two raise.
One(found, f) == found = {f} \/ (found = {} /\ f = 0)

Go(r, rec) == request' = [request EXCEPT ![r] = rec]
Unlocked(f) == \A r \in Requests : f # 0 => request[r].locked # f
Quiet == UNCHANGED <<rows, factors, app, proved, logins>>

\* Mutant of Enabled: the row is written back as it was read.
EnabledAsRead(f) == [f EXCEPT !.enabled = TRUE, !.disabled = FALSE]

\* A flush writes the columns that were assigned.
Enabled(f) == [f EXCEPT !.enabled = TRUE]
Disabled(f) == [f EXCEPT !.disabled = TRUE]

-----------------------------------------------------------------------------
(* enroll *)

\* There must be no active factor.
EnrollActive(r) ==
    /\ request[r].pc = "idle" /\ Active = {} /\ factors < MaxFactors
    /\ Go(r, [Idle EXCEPT !.pc = "enroll"])
    /\ Quiet

\* A factor that was never confirmed is to be replaced.
EnrollPending(r) ==
    /\ request[r].pc = "enroll"
    /\ \E f \in 0 .. MaxFactors :
          One(Pending, f) /\ Go(r, [request[r] EXCEPT !.pc = "replace", !.read = f])
    /\ Quiet

\* Mutant of EnrollWrite: the key is taken before it is drawn.
EnrollWriteLastId(r) ==
    /\ request[r].pc = "replace" /\ Unlocked(request[r].read) /\ factors < MaxFactors
    /\ factors' = factors + 1
    /\ app' = app \cup {factors}
    /\ Go(r, [request[r] EXCEPT !.pc = "enrolled", !.locked = request[r].read, !.new = factors])
    /\ UNCHANGED <<rows, proved, logins>>

\* It is deleted, by its primary key, and the new one inserted; the answer shows its secret.
EnrollWrite(r) ==
    /\ request[r].pc = "replace" /\ Unlocked(request[r].read) /\ factors < MaxFactors
    /\ factors' = factors + 1
    /\ app' = app \cup {factors + 1}
    /\ Go(r, [request[r] EXCEPT !.pc = "enrolled", !.locked = request[r].read,
                                !.new = factors + 1])
    /\ UNCHANGED <<rows, proved, logins>>

-----------------------------------------------------------------------------
(* confirm and disable *)

\* The code given is verified with the secret of the pending factor that was found.
ConfirmPending(r) ==
    /\ request[r].pc = "idle"
    /\ \E f \in app :
          /\ One(Pending, f)
          /\ proved' = proved \cup {f}
          /\ Go(r, [Idle EXCEPT !.pc = "confirm", !.read = f])
    /\ UNCHANGED <<rows, factors, app, logins>>

\* Mutant of ConfirmWrite: the update is of whatever is pending by now.
ConfirmWritePending(r) ==
    /\ request[r].pc = "confirm"
    /\ \E f \in Pending : Unlocked(f) /\ Go(r, [request[r] EXCEPT !.pc = "confirmed", !.locked = f])
    /\ Quiet

\* The row is updated by its primary key; one that was deleted meanwhile raises.
ConfirmWrite(r) ==
    /\ request[r].pc = "confirm"
    /\ Unlocked(request[r].read) /\ request[r].read \in Stored
    /\ Go(r, [request[r] EXCEPT !.pc = "confirmed", !.locked = request[r].read])
    /\ Quiet

\* The password, or a code of the active factor, is verified.
DisableActive(r) ==
    /\ request[r].pc = "idle"
    /\ \E f \in Factors : One(Active, f) /\ Go(r, [Idle EXCEPT !.pc = "disable", !.read = f])
    /\ Quiet

DisableWrite(r) ==
    /\ request[r].pc = "disable"
    /\ Unlocked(request[r].read) /\ request[r].read \in Stored
    /\ Go(r, [request[r] EXCEPT !.pc = "disabled", !.locked = request[r].read])
    /\ Quiet

-----------------------------------------------------------------------------
(* The end of a request, and logins *)

\* The table after the transaction of a request that enrolled, confirmed or disabled.
Replaced(r) == {f \in rows : f.id # request[r].locked}
               \cup {[id |-> request[r].new, enabled |-> FALSE, disabled |-> FALSE]}
Confirmed(r) == {IF f.id = request[r].locked THEN Enabled(f) ELSE f : f \in rows}
Ended(r) == {IF f.id = request[r].locked THEN Disabled(f) ELSE f : f \in rows}

Commit(r) ==
    /\ \/ request[r].pc = "enrolled" /\ rows' = Replaced(r)
       \/ request[r].pc = "confirmed" /\ rows' = Confirmed(r)
       \/ request[r].pc = "disabled" /\ rows' = Ended(r)
    /\ Go(r, Idle)
    /\ UNCHANGED <<factors, app, proved, logins>>

\* A refusal, an error or a failed commit: nothing is written.
Abort(r) ==
    /\ request[r].pc # "idle"
    /\ Go(r, Idle)
    /\ Quiet

\* verify_login_code: without an active factor the password is enough.
Login ==
    /\ \E f \in {0} \cup app : One(Active, f) /\ logins' = logins \cup {f}
    /\ UNCHANGED <<rows, factors, app, proved, request>>

MfaNext ==
    \/ \E r \in Requests : \/ EnrollActive(r) \/ EnrollPending(r) \/ EnrollWrite(r)
                           \/ ConfirmPending(r) \/ ConfirmWrite(r)
                           \/ DisableActive(r) \/ DisableWrite(r)
                           \/ Commit(r) \/ Abort(r)
    \/ Login

MfaSpec == MfaInit /\ [][MfaNext]_mfaVars

-----------------------------------------------------------------------------
(* Properties *)

\* A factor comes into force only after a code of its own secret was verified, and no login
\* ever takes a code of another: whatever enrolments and confirmations overlapped, an
\* account never depends on a secret its owner did not prove to have.
ActiveWasProved == Active \cup (logins \ {0}) \subseteq proved

\* A factor that was disabled never comes into force again, not even when a confirmation
\* that read it earlier is written later.
DisabledForGood ==
    [][\A f \in rows : f.disabled => \A g \in rows' : g.id = f.id => g.disabled]_mfaVars

\* get_active_for_user expects at most one row. Refuted by two enrolments at once: the
\* second factor is inserted beside an active one and confirmed; every later login raises.
AtMostOneActive == Cardinality(Active) <= 1
=============================================================================
