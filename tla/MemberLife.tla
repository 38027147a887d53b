----------------------------- MODULE MemberLife -----------------------------
(***************************************************************************)
(* What conversations promise about who is in them, with no request, lock, *)
(* answer or client in sight. A direct conversation has two members until  *)
(* it is deleted, for both. A group has one admin, its creator, for ever;  *)
(* memberships are given by the admin and given up by the member or the    *)
(* admin, and whoever posts is or was a member.                            *)
(* Conversations implements this specification with concurrent             *)
(* transactions, and GroupKeys with the server that its clients see.       *)
(***************************************************************************)

CONSTANTS Convs, Users

VARIABLES kind,      \* kind[c]: "none", "direct", "group", or "deleted"
          row,       \* row[c][u]: the membership of u, "none", "active" or "left"
          admins,    \* admins[c]: the members with the role group_admin, left or not
          authors    \* authors[c]: the senders of the messages that c has

vars == <<kind, row, admins, authors>>

Init ==
    /\ kind = [c \in Convs |-> "none"]
    /\ row = [c \in Convs |-> [u \in Users |-> "none"]]
    /\ admins = [c \in Convs |-> {}]
    /\ authors = [c \in Convs |-> {}]

Rows(us) == [u \in Users |-> IF u \in us THEN "active" ELSE "none"]

CreateDirect(c, u, v) ==
    /\ kind[c] = "none" /\ u # v
    /\ kind' = [kind EXCEPT ![c] = "direct"]
    /\ row' = [row EXCEPT ![c] = Rows({u, v})]
    /\ UNCHANGED <<admins, authors>>

CreateGroup(c, a, us) ==
    /\ kind[c] = "none" /\ a \in us
    /\ kind' = [kind EXCEPT ![c] = "group"]
    /\ row' = [row EXCEPT ![c] = Rows(us)]
    /\ admins' = [admins EXCEPT ![c] = {a}]
    /\ UNCHANGED authors

\* A new member, or one who had left; adding an active member again changes nothing.
Admit(c, by, u) ==
    /\ kind[c] = "group" /\ by \in admins[c]
    /\ row' = [row EXCEPT ![c] = [@ EXCEPT ![u] = "active"]]
    /\ UNCHANGED <<kind, admins, authors>>

\* Nobody leaves who never was a member.
Depart(c, by, u) ==
    /\ kind[c] = "group" /\ by \in admins[c] \cup {u}
    /\ row[c][u] # "none"
    /\ row' = [row EXCEPT ![c] = [@ EXCEPT ![u] = "left"]]
    /\ UNCHANGED <<kind, admins, authors>>

Delete(c) ==
    /\ kind[c] = "direct"
    /\ kind' = [kind EXCEPT ![c] = "deleted"]
    /\ row' = [row EXCEPT ![c] = Rows({})]
    /\ authors' = [authors EXCEPT ![c] = {}]
    /\ UNCHANGED admins

\* A sender may leave between the check of its membership and its message.
Post(c, u) ==
    /\ row[c][u] # "none"
    /\ authors' = [authors EXCEPT ![c] = @ \cup {u}]
    /\ UNCHANGED <<kind, row, admins>>

Next ==
    \E c \in Convs :
        \/ \E u, v \in Users : CreateDirect(c, u, v) \/ Admit(c, u, v) \/ Depart(c, u, v)
        \/ \E a \in Users, us \in SUBSET Users : CreateGroup(c, a, us)
        \/ Delete(c)
        \/ \E u \in Users : Post(c, u)

Spec == Init /\ [][Next]_vars

-----------------------------------------------------------------------------
(* What follows *)

Members(c) == {u \in Users : row[c][u] # "none"}

\* The creator of a group stays its one admin, and has a membership there, given up or not.
GroupHasItsAdmin ==
    \A c \in Convs :
        /\ kind[c] = "group" => \E a \in Members(c) : admins[c] = {a}
        /\ kind[c] # "group" => admins[c] = {}

\* Nobody leaves a direct conversation of two.
DirectOfTwo ==
    \A c \in Convs : kind[c] = "direct" =>
        \E u, v \in Users : u # v /\ row[c] = Rows({u, v})

\* What is not there has no members, and nobody who never was a member has posted.
AuthorsAreMembers ==
    \A c \in Convs :
        /\ kind[c] \in {"none", "deleted"} => Members(c) = {}
        /\ authors[c] \subseteq Members(c)

Inv ==
    /\ kind \in [Convs -> {"none", "direct", "group", "deleted"}]
    /\ row \in [Convs -> [Users -> {"none", "active", "left"}]]
    /\ GroupHasItsAdmin /\ DirectOfTwo /\ AuthorsAreMembers
=============================================================================
