----------------------------- MODULE SessionLife -----------------------------
(***************************************************************************)
(* What the session table promises to the rest of the backend, with no     *)
(* request, transaction or clock in sight: a login opens a session under a *)
(* fresh refresh token, a redemption replaces the token by a fresh one, a  *)
(* revocation is final, and a replaced token never comes back.             *)
(* Sessions implements this specification with concurrent transactions,    *)
(* and AuthClient with the calls of a browser.                             *)
(***************************************************************************)

CONSTANTS SessionIds,   \* identifiers of rows of table sessions
          Tokens,       \* refresh tokens (their hashes: SHA3-256 is injective here)
          NoToken       \* the hash column of a row that does not exist

VARIABLES life,         \* life[s]: "none" until created, then "live" or "revoked"
          current,      \* current[s]: the one refresh token session s accepts
          spent         \* the tokens that a redemption has replaced

vars == <<life, current, spent>>

Init ==
    /\ life = [s \in SessionIds |-> "none"]
    /\ current = [s \in SessionIds |-> NoToken]
    /\ spent = {}

\* A token no session accepts and none has ever accepted and dropped.
Fresh(t) ==
    /\ t \notin spent
    /\ \A s \in SessionIds : current[s] # t

Open(s, t) ==
    /\ life[s] = "none"
    /\ Fresh(t)
    /\ life' = [life EXCEPT ![s] = "live"]
    /\ current' = [current EXCEPT ![s] = t]
    /\ UNCHANGED spent

\* A revoked session may still see its token replaced: the redemption read the
\* row before the revocation and wrote it afterwards. It does not revive it.
Rotate(s, t) ==
    /\ life[s] # "none"
    /\ Fresh(t)
    /\ spent' = spent \cup {current[s]}
    /\ current' = [current EXCEPT ![s] = t]
    /\ UNCHANGED life

Close(s) ==
    /\ life[s] # "none"
    /\ life' = [life EXCEPT ![s] = "revoked"]
    /\ UNCHANGED <<current, spent>>

Next ==
    \E s \in SessionIds :
        \/ \E t \in Tokens : Open(s, t) \/ Rotate(s, t)
        \/ Close(s)

Spec == Init /\ [][Next]_vars

(* The table is seldom empty: what has happened to it before leaves it in a state of Inv, from
   which ResumedSpec goes on. *)

\* A row appears with its token.
RowHasToken == \A s \in SessionIds : life[s] = "none" <=> current[s] = NoToken

\* No token names two sessions, and a replaced one names none.
TokensApart ==
    \A s \in SessionIds : life[s] # "none" =>
        /\ current[s] \in Tokens \ spent
        /\ \A q \in SessionIds : current[q] = current[s] => q = s

Inv ==
    /\ life \in [SessionIds -> {"none", "live", "revoked"}]
    /\ current \in [SessionIds -> Tokens \cup {NoToken}]
    /\ spent \in SUBSET Tokens
    /\ RowHasToken /\ TokensApart

ResumedSpec == Inv /\ [][Next]_vars
=============================================================================
