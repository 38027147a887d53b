---------------------------- MODULE ClientProofs ----------------------------
(***************************************************************************)
(* Proofs about the two modules of the browser's connection to the server, *)
(* which share no name and no state.                                       *)
(*                                                                         *)
(* AuthClient, for any number of tabs, calls, tokens and events: a tab     *)
(* redeems the cookie once at a time, whoever waits for that is woken, the *)
(* session shown is not newer than the token requests are sent with, and   *)
(* what becomes of the session table is what SessionLife allows.           *)
(*                                                                         *)
(* Realtime, for any number of pages, sockets, backend instances, tasks,   *)
(* events and faults: registry and subscribers agree, events come in order *)
(* and once, and a page keeps to one attempt at a connection.              *)
(***************************************************************************)
EXTENDS AuthClient, Realtime, FiniteSetTheorems, WellFoundedInduction, TLAPS

-----------------------------------------------------------------------------
(* Sign-in: the inductive invariant *)

\* The kinds of calls that share a refresh, and those of a page that boots.
Retried == {"api", "boot"}
Boots == {"boot", "restore"}
Runs(c) == call[c].kind \notin {"none", "gone"}

\* The server has begun a transaction for the call; the call still redeems the cookie.
Begun(c) == call[c].pc \in {"reading", "authed"}
Seeks(c) == call[c].pc \in {"refresh", "reading"}

\* What a call can be at each step.
CallShape ==
    \A c \in Calls :
        /\ call[c].kind = "none" => call[c] = NoCall
        /\ call[c].kind = "gone" => Begun(c) /\ call[c].tab = NoTab /\ call[c].captured = None
        /\ Runs(c) => call[c].tab \in Tabs
        /\ call[c].pc = "waiting" => call[c].kind \in Retried
        /\ Redeeming(c) => call[c].kind \in Retried \cup {"restore", "gone"}
        /\ call[c].kind = "restore" => Redeeming(c)
        /\ call[c].pc = "authed" => call[c].kind \in {"logout", "gone"}
        /\ Begun(c) => call[c].carries # None

\* A page that boots makes one call, which ends with the boot.
BootsAlone ==
    \A c \in Calls : Runs(c) =>
        /\ call[c].tab \in booted <=> call[c].kind \notin Boots
        /\ call[c].kind \in Boots =>
              \A d \in Calls : Runs(d) /\ call[d].tab = call[c].tab => d = c

OneRedeemer ==
    \A c, d \in Calls :
        Runs(c) /\ Redeeming(c) /\ Redeeming(d) /\ call[c].tab = call[d].tab => c = d

\* Tokens are issued in order, each for the login that an earlier one, or itself, began.
TokensInOrder ==
    /\ \A n \in Issued, m \in Tokens : m < n => m \in Issued
    /\ \A n \in Tokens : login[n] <= n

\* Whatever anybody holds was issued.
Known(n) == n = None \/ n \in Issued

HeldKnown ==
    /\ Known(cookie)
    /\ \A t \in Tabs : Known(bearer[t]) /\ Known(session[t])
    /\ \A c \in Calls : Known(call[c].captured) /\ Known(call[c].carries)

\* The answers that bring a token, until they are handled.
SignsIn(c) == call[c].kind = "login" /\ call[c].pc = "ok"
Brings(c) == SignsIn(c) \/ call[c].pc = "rotated"

\* Each brings its own. That of a login is the only one of its login, since nobody can
\* redeem it before it is in the cookie.
AnswersApart ==
    \A c \in Calls :
        /\ Brings(c) => /\ call[c].got \in Issued
                        /\ \A d \in Calls : Brings(d) /\ call[d].got = call[c].got => d = c
        /\ SignsIn(c) =>
              /\ cookie # call[c].got
              /\ \A d \in Calls : Seeks(d) => call[d].carries # call[c].got
              /\ \A m \in Tokens : login[m] = login[call[c].got] => m = call[c].got

\* The sessions a tab shows, or will show again once its profile is loaded.
Shows(t, m) ==
    m # None /\ (m = session[t] \/ \E c \in Calls : call[c].tab = t /\ m = call[c].captured)

\* The bearers a tab has, or will have once an answer is handled.
Bears(t, n) ==
    n # None /\ (n = bearer[t] \/ \E c \in Calls : call[c].tab = t /\ Brings(c) /\ n = call[c].got)

NotAhead ==
    \A t \in Tabs : \A m, n \in Tokens :
        Shows(t, m) /\ Bears(t, n) /\ login[m] = login[n] => m <= n

CallsInv == CallShape /\ BootsAlone /\ OneRedeemer /\ WaitersHaveARefresh
TokensInv == TokensInOrder /\ HeldKnown /\ AnswersApart /\ NotAhead

IInv == TypeOK /\ CallsInv /\ TokensInv

-----------------------------------------------------------------------------
(* Sign-in: helpers *)

LEMMA NoCallIsACall == NoCall \in Call
BY BoundAssumption DEF NoCall, Call, None

LEMMA NoneIsNoToken == None \in 0 .. MaxTokens /\ None \notin Tokens
BY BoundAssumption DEF None, Tokens

LEMMA CallsTyped ==
    ASSUME IInv
    PROVE  call \in [Calls -> Call] /\ \A c \in Calls : call[c] \in Call
BY DEF IInv, TypeOK

\* What the tokens that were issued say of their logins.
LEMMA LoginsTyped ==
    ASSUME IInv
    PROVE  /\ \A n \in Tokens : login[n] \in 0 .. MaxTokens /\ n \in Nat \ {0}
           /\ \A n \in Issued : n \in Tokens /\ login[n] \in Tokens /\ login[n] <= n
           /\ \A c \in Calls : Begun(c) =>
                  call[c].carries \in Issued /\ call[c].carries \in Tokens
<1>1. login \in [Tokens -> 0 .. MaxTokens]
    BY DEF IInv, TypeOK
<1>2. \A n \in Tokens : login[n] \in 0 .. MaxTokens /\ n \in Nat \ {0}
    BY <1>1, BoundAssumption DEF Tokens
<1>3. \A n \in Issued : n \in Tokens /\ login[n] \in Tokens
    BY <1>2, BoundAssumption DEF Issued, Tokens
<1>4. \A n \in Issued : login[n] <= n
    BY <1>3 DEF IInv, TokensInv, TokensInOrder
<1>5. \A c \in Calls : Begun(c) => call[c].carries \in Issued
    BY DEF IInv, CallsInv, CallShape, TokensInv, HeldKnown, Known
<1> QED
    BY <1>2, <1>3, <1>4, <1>5

\* A call that is replaced, and one that is answered.
LEMMA Replaced ==
    ASSUME IInv, NEW c \in Calls, NEW rec, Is(c, rec)
    PROVE  call'[c] = rec /\ \A d \in Calls \ {c} : call'[d] = call[d]
BY CallsTyped DEF Is

LEMMA Answered ==
    ASSUME IInv, NEW c \in Calls, call[c].kind # "gone", NEW pc, NEW n, Answer(c, pc, n)
    PROVE  /\ call'[c].kind = call[c].kind /\ call'[c].tab = call[c].tab
           /\ call'[c].pc = pc /\ call'[c].got = n /\ call'[c].captured = call[c].captured
           /\ call'[c].carries = None
           /\ \A d \in Calls \ {c} : call'[d] = call[d]
<1>1. /\ call'[c] = [call[c] EXCEPT !.pc = pc, !.carries = None, !.got = n]
      /\ \A d \in Calls \ {c} : call'[d] = call[d]
    BY Replaced DEF Answer
<1>2. call[c] \in Call
    BY CallsTyped
<1> QED
    BY <1>1, <1>2 DEF Call

LEMMA AnswerTyped ==
    ASSUME IInv, NEW c \in Calls, NEW pc \in {"ok", "refused", "rotated"},
           NEW n \in 0 .. MaxTokens, Answer(c, pc, n)
    PROVE  call' \in [Calls -> Call]
<1>1. call[c] \in Call
    BY CallsTyped
<1>2. [call[c] EXCEPT !.pc = pc, !.carries = None, !.got = n] \in Call
    BY <1>1, NoneIsNoToken DEF Call
<1> QED
    BY <1>2, NoCallIsACall, CallsTyped DEF Answer, Is

LEMMA NoCallFields ==
    /\ NoCall.kind = "none" /\ NoCall.pc = "sent"
    /\ NoCall.carries = None /\ NoCall.got = None /\ NoCall.captured = None
    /\ NoCall.tab = NoTab
BY DEF NoCall

\* What is left of a call that its tab gives up brings nothing, and belongs to no tab.
LEMMA DroppedFields ==
    ASSUME IInv, NEW c \in Calls
    PROVE  /\ Dropped(c) \in Call
           /\ Dropped(c).kind \in {"none", "gone"} /\ Dropped(c).tab = NoTab
           /\ Dropped(c).captured = None /\ Dropped(c).got = None
           /\ ~Begun(c) => Dropped(c) = NoCall
           /\ Begun(c) => /\ Dropped(c).kind = "gone" /\ Dropped(c).pc = call[c].pc
                          /\ Dropped(c).carries = call[c].carries
<1>1. call[c] \in Call
    BY CallsTyped
<1>2. CASE Begun(c)
    <2>1. Dropped(c) = [NoCall EXCEPT !.kind = "gone", !.pc = call[c].pc,
                                      !.carries = call[c].carries]
        BY <1>2 DEF Dropped, Begun
    <2>2. call[c].pc \in {"sent", "authed", "ok", "refused", "waiting", "refresh", "reading",
                         "rotated"} /\ call[c].carries \in 0 .. MaxTokens
        BY <1>1 DEF Call
    <2>3. NoCall = [kind |-> "none", pc |-> "sent", tab |-> NoTab, retried |-> FALSE,
                    carries |-> None, got |-> None, captured |-> None]
        BY DEF NoCall
    <2> QED
        BY <1>2, <2>1, <2>2, <2>3, NoneIsNoToken DEF Call
<1>3. CASE ~Begun(c)
    <2>1. Dropped(c) = NoCall
        BY <1>3 DEF Dropped, Begun
    <2> QED
        BY <1>3, <2>1, NoCallFields, NoCallIsACall
<1> QED
    BY <1>2, <1>3

\* NextToken is the least token that was not issued.
LEMMA NextTokenIsNew ==
    ASSUME TypeOK, TokensInOrder, Fresh # {}
    PROVE  /\ NextToken \in Tokens /\ NextToken \notin Issued
           /\ \A m \in Issued : m < NextToken
           /\ \A m \in Fresh : NextToken <= m
<1>1. Fresh \subseteq Nat
    BY BoundAssumption DEF Fresh, Tokens
<1>2. PICK n \in Fresh : \A m \in Fresh : <<m, n>> \notin OpToRel(<, Nat)
    <2> DEFINE S == Fresh
    <2>1. S \subseteq Nat /\ S # {}
        BY <1>1
    <2> HIDE DEF S
    <2>2. \E n \in S : \A m \in S : <<m, n>> \notin OpToRel(<, Nat)
        BY <2>1, NatLessThanWellFounded, WFMin
    <2> QED
        BY <2>2 DEF S
<1>3. \A m \in Fresh : n <= m
    <2> TAKE m \in Fresh
    <2>1. m \in Nat /\ n \in Nat
        BY <1>1
    <2>2. <<m, n>> \notin {ss \in Nat \X Nat : ss[1] < ss[2]}
        BY <1>2 DEF OpToRel
    <2> QED
        BY <2>1, <2>2
<1>4. NextToken \in Fresh /\ \A m \in Fresh : NextToken <= m
    BY <1>3 DEF NextToken
<1>5. ASSUME NEW m \in Issued PROVE m < NextToken
    <2>1. NextToken \in Tokens /\ NextToken \notin Issued /\ m \in Tokens
        BY <1>4 DEF Fresh, Issued
    <2>2. ~ NextToken < m
        BY <2>1 DEF TokensInOrder
    <2> QED
        BY <2>1, <2>2, BoundAssumption DEF Tokens
<1> QED
    BY <1>4, <1>5 DEF Fresh

\* A call that its tab gives up in a step.
GivenUp(c) ==
    /\ \/ call'[c] = NoCall
       \/ /\ call'[c].kind = "gone" /\ call'[c].pc = call[c].pc
          /\ Begun(c) /\ Begun(c)' /\ call'[c].carries # None
    /\ ~Runs(c)' /\ call'[c].kind \in {"none", "gone"} /\ call'[c].tab = NoTab
    /\ ~Brings(c)' /\ ~SignsIn(c)' /\ call'[c].pc # "waiting" /\ call'[c].captured = None
    /\ Redeeming(c)' => Redeeming(c)
    /\ Seeks(c)' => Seeks(c) /\ call'[c].carries = call[c].carries
    /\ call'[c].carries \in {None, call[c].carries}

LEMMA WhatIsGivenUp ==
    ASSUME IInv, NEW c \in Calls, call'[c] = Dropped(c)
    PROVE  GivenUp(c)
<1>1. CASE Begun(c)
    <2>1. call'[c].kind = "gone" /\ call'[c].tab = NoTab /\ call'[c].captured = None
        BY <1>1, DroppedFields
    <2>2. call'[c].pc = call[c].pc /\ call'[c].carries = call[c].carries
        BY <1>1, DroppedFields
    <2>3. call[c].carries # None /\ call[c].pc \in {"reading", "authed"}
        BY <1>1 DEF Begun, IInv, CallsInv, CallShape
    <2> QED
        BY <1>1, <2>1, <2>2, <2>3
        DEF GivenUp, Runs, Brings, SignsIn, Redeeming, Seeks, Begun
<1>2. CASE ~Begun(c)
    <2>1. call'[c] = NoCall
        BY <1>2, DroppedFields
    <2> QED
        BY <2>1, NoCallFields DEF GivenUp, Runs, Brings, SignsIn, Redeeming, Seeks
<1> QED
    BY <1>1, <1>2

\* What is known stays known when more tokens are issued.
LEMMA FewerShown ==
    ASSUME IInv, TypeOK', login' = login, cookie' \in {cookie, None},
           \A c \in Calls : Brings(c)' => /\ Brings(c) /\ call'[c].got = call[c].got
                                          /\ call'[c].tab = call[c].tab,
           \A c \in Calls : SignsIn(c)' => SignsIn(c),
           \A c \in Calls : Known(call'[c].carries),
           \A c \in Calls : Seeks(c)' =>
               \/ call'[c].carries = cookie
               \/ Seeks(c) /\ call'[c].carries = call[c].carries,
           \A t \in Tabs : bearer'[t] \in {bearer[t], None},
           \A t \in Tabs : session'[t] # None => Shows(t, session'[t]),
           \A c \in Calls, t \in Tabs :
               call'[c].captured # None /\ call'[c].tab = t => Shows(t, call'[c].captured),
           \A c \in Calls : call'[c].captured # None => call'[c].tab \in Tabs
    PROVE  TokensInv'
<1>1. Issued' = Issued
    BY DEF Issued
<1>2. TokensInOrder'
    BY <1>1 DEF IInv, TokensInv, TokensInOrder
<1>3. \A t \in Tabs, m \in Tokens : Shows(t, m)' => Shows(t, m)
    BY DEF Shows
<1>4. \A t \in Tabs, n \in Tokens : Bears(t, n)' => Bears(t, n)
    BY DEF Bears, None
<1>5. NotAhead'
    BY <1>3, <1>4 DEF IInv, TokensInv, NotAhead
<1>6. \A t \in Tabs : \A m : Shows(t, m) => Known(m)
    BY DEF Shows, IInv, TokensInv, HeldKnown
<1>7. HeldKnown'
    BY <1>1, <1>6 DEF IInv, TokensInv, HeldKnown, Known
<1>8. AnswersApart'
    <2>1. \A c \in Calls : SignsIn(c)' => Brings(c)'
        BY DEF Brings
    <2>2. \A c \in Calls : Brings(c)' => call'[c].got \in Issued'
        BY <1>1 DEF IInv, TokensInv, AnswersApart
    <2>3. \A c, d \in Calls : Brings(c)' /\ Brings(d)' /\ call'[d].got = call'[c].got => d = c
        BY DEF IInv, TokensInv, AnswersApart
    <2>4. \A c \in Calls : SignsIn(c)' =>
              /\ cookie' # call'[c].got
              /\ \A d \in Calls : Seeks(d)' => call'[d].carries # call'[c].got
              /\ \A m \in Tokens : login'[m] = login'[call'[c].got] => m = call'[c].got
        <3> TAKE c \in Calls
        <3> HAVE SignsIn(c)'
        <3>1. SignsIn(c) /\ call'[c].got = call[c].got /\ call[c].got \in Issued
            BY <2>1, <2>2 DEF IInv, TokensInv, AnswersApart, Brings
        <3>2. call[c].got # None
            BY <3>1 DEF Issued, Tokens, None
        <3> QED
            BY <3>1, <3>2 DEF IInv, TokensInv, AnswersApart
    <2> QED
        BY <2>2, <2>3, <2>4 DEF AnswersApart
<1> QED
    BY <1>2, <1>5, <1>7, <1>8 DEF TokensInv

\* A call that ends, waits, is given up or is sent on leaves less behind.
LEMMA FewerCalls ==
    ASSUME IInv, TypeOK', login' = login, cookie' \in {cookie, None},
           \A t \in Tabs : bearer'[t] \in {bearer[t], None} /\ session'[t] \in {session[t], None},
           \A d \in Calls : \/ call'[d] \in {call[d], NoCall}
                            \/ GivenUp(d)
                            \/ /\ call'[d].captured = call[d].captured /\ call'[d].tab = call[d].tab
                               /\ ~Brings(d)' /\ Runs(d) /\ Known(call'[d].carries)
                               /\ Seeks(d)' =>
                                     (\/ call'[d].carries = cookie
                                      \/ (Seeks(d) /\ call'[d].carries = call[d].carries))
    PROVE  TokensInv'
<1>1. \A d \in Calls : /\ Brings(d)' => Brings(d) /\ call'[d] = call[d]
                       /\ SignsIn(d)' => SignsIn(d)
    BY NoCallFields DEF GivenUp, Brings, SignsIn
<1>2. \A t \in Tabs : session'[t] # None => Shows(t, session'[t])
    BY DEF Shows
<1>3. \A d \in Calls, t \in Tabs :
          call'[d].captured # None /\ call'[d].tab = t => Shows(t, call'[d].captured)
    BY NoCallFields DEF GivenUp, Shows
<1>4. \A d \in Calls : call'[d].captured # None => call'[d].tab \in Tabs
    BY NoCallFields DEF GivenUp, Runs, IInv, CallsInv, CallShape
<1>5. \A d \in Calls : Seeks(d)' =>
          \/ call'[d].carries = cookie
          \/ (Seeks(d) /\ call'[d].carries = call[d].carries)
    BY NoCallFields DEF GivenUp, Seeks
<1>6. \A d \in Calls : Known(call'[d].carries)
    BY NoCallFields DEF GivenUp, Known, IInv, TokensInv, HeldKnown
<1> QED
    BY <1>1, <1>2, <1>3, <1>4, <1>5, <1>6, FewerShown

\* A step after which every call waits, redeems or does neither as before.
LEMMA SameCalls ==
    ASSUME IInv, booted' = booted,
           \A c \in Calls : /\ call'[c].kind = call[c].kind /\ call'[c].tab = call[c].tab
                            /\ Redeeming(c)' <=> Redeeming(c)
                            /\ call'[c].pc = "waiting" <=> call[c].pc = "waiting"
                            /\ \/ call'[c] = call[c]
                               \/ /\ Runs(c)
                                  /\ Begun(c)' => call'[c].carries # None
                                  /\ call'[c].pc = "authed" => call[c].kind = "logout"
    PROVE  CallsInv'
<1>1. CallShape'
    BY DEF IInv, CallsInv, CallShape, Runs, Begun, Redeeming
<1>2. BootsAlone'
    BY DEF IInv, CallsInv, BootsAlone, Runs
<1>3. OneRedeemer'
    BY DEF IInv, CallsInv, OneRedeemer, Runs
<1>4. WaitersHaveARefresh'
    <2>1. \A t \in Tabs : Sharing(t)' = Sharing(t)
        BY DEF Sharing, Of
    <2>2. \A c \in Calls : call[c].pc = "waiting" => call[c].tab \in Tabs
        BY DEF IInv, CallsInv, CallShape, Retried, Runs
    <2>3. \A t \in Tabs : Sharing(t) \subseteq Calls
        BY DEF Sharing, Of
    <2> QED
        BY <2>1, <2>2, <2>3 DEF IInv, CallsInv, WaitersHaveARefresh
<1> QED
    BY <1>1, <1>2, <1>3, <1>4 DEF CallsInv

\* A step that leaves alone the calls that wait, and the refreshes they wait for.
LEMMA WaitersKept ==
    ASSUME WaitersHaveARefresh,
           \A w \in Calls : call'[w].kind # "none" /\ call'[w].pc = "waiting" =>
               /\ call'[w] = call[w]
               /\ \A d \in Calls : /\ Redeeming(d) /\ call[d].kind \in Retried
                                   /\ call[d].tab = call[w].tab
                                   => call'[d] = call[d]
    PROVE  WaitersHaveARefresh'
<1> SUFFICES ASSUME NEW w \in Calls, call'[w].kind # "none", call'[w].pc = "waiting"
             PROVE  \E d \in Sharing(call[w].tab)' : Redeeming(d)'
    BY DEF WaitersHaveARefresh
<1>1. call'[w] = call[w]
    OBVIOUS
<1>2. PICK d \in Sharing(call[w].tab) : Redeeming(d)
    BY <1>1 DEF WaitersHaveARefresh
<1>3. d \in Calls /\ call'[d] = call[d]
    BY <1>2 DEF Sharing, Of, Retried
<1> QED
    BY <1>1, <1>2, <1>3 DEF Sharing, Of, Redeeming

\* A call that ends without settling a refresh.
LEMMA CallEnds ==
    ASSUME IInv, NEW c \in Calls, Runs(c), ~Redeeming(c) \/ call[c].kind = "restore",
           call' = [call EXCEPT ![c] = Dropped(c)], booted' = booted \cup Booting({c})
    PROVE  CallsInv'
<1>0. call'[c] = Dropped(c) /\ \A d \in Calls \ {c} : call'[d] = call[d]
    BY DEF IInv, TypeOK
<1>1. GivenUp(c) /\ \A d \in Calls \ {c} : call'[d] = call[d]
    BY <1>0, WhatIsGivenUp
<1>2. booted' = IF call[c].kind \in Boots THEN booted \cup {call[c].tab} ELSE booted
    <2>1. Booting({c}) = IF call[c].kind \in Boots THEN {call[c].tab} ELSE {}
        BY DEF Booting, Boots
    <2> QED
        BY <2>1
<1>3. CallShape'
    BY <1>1, NoCallFields DEF GivenUp, IInv, CallsInv, CallShape, Runs, Redeeming, Begun
<1>4. BootsAlone'
    <2>1. BootsAlone
        BY DEF IInv, CallsInv
    <2>2. ~Runs(c)' /\ \A d \in Calls \ {c} : Runs(d)' <=> Runs(d)
        BY <1>1, NoCallFields DEF GivenUp, Runs
    <2>3. ASSUME NEW d \in Calls, Runs(d)'
          PROVE  /\ call'[d].tab \in booted' <=> call'[d].kind \notin Boots
                 /\ call'[d].kind \in Boots => \A e \in Calls :
                       Runs(e)' /\ call'[e].tab = call'[d].tab => e = d
        <3>1. d # c /\ Runs(d) /\ call'[d] = call[d]
            BY <1>1, <2>2, <2>3
        <3>2. /\ call[d].tab \in booted <=> call[d].kind \notin Boots
              /\ call[d].kind \in Boots =>
                    \A e \in Calls : Runs(e) /\ call[e].tab = call[d].tab => e = d
              /\ call[c].kind \in Boots => call[d].tab # call[c].tab
            BY <2>1, <3>1 DEF BootsAlone
        <3>3. call[d].tab \in booted' <=> call[d].tab \in booted
            BY <1>2, <3>2
        <3>4. \A e \in Calls : Runs(e)' => Runs(e) /\ call'[e] = call[e]
            BY <1>1, <2>2
        <3> QED
            BY <3>1, <3>2, <3>3, <3>4
    <2> QED
        BY <2>3 DEF BootsAlone
<1>5. OneRedeemer'
    <2>1. \A d \in Calls : Runs(d)' => Runs(d) /\ call'[d] = call[d] /\ call[d].tab \in Tabs
        BY <1>1, NoCallFields DEF GivenUp, Runs, IInv, CallsInv, CallShape
    <2>2. \A d \in Calls : Redeeming(d)' => Redeeming(d) /\ (d = c => call'[d].tab = NoTab)
        BY <1>1, NoCallFields DEF GivenUp, Redeeming, Begun
    <2> QED
        BY <1>1, <2>1, <2>2, NoTabAssumption DEF IInv, CallsInv, OneRedeemer
<1>6. WaitersHaveARefresh'
    <2>1. ~Redeeming(c) \/ call[c].kind \notin Retried
        BY DEF Retried
    <2>2. call'[c].pc # "waiting"
        BY <1>1, NoCallFields DEF GivenUp, Begun
    <2> QED
        BY <1>1, <2>1, <2>2, WaitersKept DEF IInv, CallsInv
<1> QED
    BY <1>3, <1>4, <1>5, <1>6 DEF CallsInv

\* The refresh of a tab settles: all that share it go on, or fail, together.
LEMMA SettleKeepsCalls ==
    ASSUME IInv, NEW t \in Tabs, NEW ok \in BOOLEAN, NEW n, Settle(t, ok, n)
    PROVE  CallsInv'
<1>1. \A c \in Calls : /\ c \notin Sharing(t) => call'[c] = call[c]
                       /\ c \in Sharing(t) =>
                             IF ok THEN /\ call'[c].kind = call[c].kind /\ call'[c].tab = t
                                        /\ call'[c].pc = "sent"
                             ELSE call'[c] = Dropped(c)
    BY DEF Settle, IInv, TypeOK, Call, Sharing, Of
<1>2. \A c \in Calls : c \in Sharing(t) <=>
          call[c].tab = t /\ call[c].kind \in Retried /\ (Redeeming(c) \/ call[c].pc = "waiting")
    BY DEF Sharing, Of, Retried
<1>3. \A c \in Calls : c \in Sharing(t) => Runs(c)
    BY <1>2 DEF Retried, Runs
<1>g. \A c \in Calls : c \in Sharing(t) /\ ~ok => GivenUp(c)
    BY <1>1, WhatIsGivenUp
<1>4. CallShape'
    <2>1. CASE ok
        BY <1>1, <1>2, <1>3, <2>1
        DEF IInv, CallsInv, CallShape, Runs, Redeeming, Retried, Begun
    <2>2. CASE ~ok
        BY <1>1, <1>3, <1>g, <2>2, NoCallFields
        DEF GivenUp, IInv, CallsInv, CallShape, Runs, Redeeming, Begun
    <2> QED
        BY <2>1, <2>2
<1>5. OneRedeemer'
    <2>1. \A c \in Calls : Runs(c)' => call'[c].tab = call[c].tab /\ call[c].tab \in Tabs /\ Runs(c)
        BY <1>1, <1>2, <1>3, <1>g DEF GivenUp, Runs, IInv, CallsInv, CallShape
    <2>2. \A c \in Calls : Redeeming(c)' =>
              Redeeming(c) /\ call'[c].tab \in {call[c].tab, NoTab}
        BY <1>1, <1>g DEF GivenUp, Redeeming
    <2> QED
        BY <2>1, <2>2, NoTabAssumption DEF IInv, CallsInv, OneRedeemer
<1>6. BootsAlone'
    <2>1. CASE ok
        <3>1. booted' = booted
            BY <2>1 DEF Settle
        <3> QED
            BY <1>1, <1>2, <1>3, <2>1, <3>1 DEF IInv, CallsInv, BootsAlone, Runs
    <2>2. CASE ~ok
        <3>1. booted' = booted \cup Booting(Sharing(t))
            BY <2>2 DEF Settle
        <3>2. \A u : u \in Booting(Sharing(t)) =>
                  /\ u = t
                  /\ \E e \in Sharing(t) : call[e].kind \in Boots
            BY <1>2 DEF Booting, Sharing, Of, Boots
        <3>3. \A e \in Sharing(t) : call[e].kind \in Boots => t \in Booting(Sharing(t))
            BY DEF Booting, Sharing, Of, Boots
        <3>4. Sharing(t) \subseteq Calls
            BY DEF Sharing, Of
        <3>5. \A d \in Calls : Runs(d)' => d \notin Sharing(t) /\ call'[d] = call[d] /\ Runs(d)
            BY <1>1, <1>g, <2>2 DEF GivenUp, Runs
        <3>6. \A d \in Calls : Runs(d)' => call[d].tab \notin Booting(Sharing(t))
            BY <1>2, <1>3, <3>2, <3>4, <3>5 DEF IInv, CallsInv, BootsAlone
        <3> QED
            BY <3>1, <3>5, <3>6 DEF IInv, CallsInv, BootsAlone
    <2> QED
        BY <2>1, <2>2
<1>7. WaitersHaveARefresh'
    <2>1. \A w \in Calls : call'[w].kind # "none" /\ call'[w].pc = "waiting" =>
              w \notin Sharing(t) /\ call'[w] = call[w] /\ call[w].tab # t
        BY <1>1, <1>2, <1>g DEF GivenUp, IInv, CallsInv, CallShape
    <2>2. \A d \in Calls : call[d].tab # t => call'[d] = call[d]
        BY <1>1, <1>2
    <2> QED
        BY <2>1, <2>2, WaitersKept DEF IInv, CallsInv
<1> QED
    BY <1>4, <1>5, <1>6, <1>7 DEF CallsInv

-----------------------------------------------------------------------------
(* Sign-in: the calls a tab makes *)

LEMMA SendKeeps ==
    ASSUME IInv, NEW c \in Calls, NEW t \in Tabs, t \in booted,
           NEW kind \in {"api", "logout", "login"}, Send(c, t, kind)
    PROVE  IInv'
<1>1. /\ call'[c].kind = kind /\ call'[c].tab = t /\ call'[c].pc = "sent"
      /\ call'[c].captured \in {session[t], None} /\ call'[c].carries \in {bearer[t], None}
      /\ \A d \in Calls \ {c} : call'[d] = call[d]
    BY DEF Send, Is, IInv, TypeOK, NoCall
<1>2. TypeOK'
    <2>1. [NoCall EXCEPT !.kind = kind, !.tab = t,
                         !.carries = IF kind = "login" THEN None ELSE bearer[t],
                         !.captured = IF kind = "api" THEN session[t] ELSE None] \in Call
        BY NoCallIsACall, NoneIsNoToken DEF IInv, TypeOK, Call
    <2> QED
        BY <2>1 DEF Send, Is, server, table, flushed, IInv, TypeOK
<1>3. ~Runs(c) /\ call[c] = NoCall
    BY DEF Send, Runs, IInv, CallsInv, CallShape
<1>4. CallsInv'
    <2>1. CallShape'
        BY <1>1 DEF IInv, CallsInv, CallShape, Runs, Redeeming, Begun
    <2>2. BootsAlone'
        BY <1>1, <1>3 DEF Send, IInv, CallsInv, BootsAlone, Runs, Boots
    <2>3. OneRedeemer'
        BY <1>1 DEF IInv, CallsInv, OneRedeemer, Redeeming, Runs
    <2>4. WaitersHaveARefresh'
        BY <1>1, <1>3, NoCallFields, WaitersKept DEF Redeeming, IInv, CallsInv
    <2> QED
        BY <2>1, <2>2, <2>3, <2>4 DEF CallsInv
<1>5. TokensInv'
    <2>1. ~Brings(c)' /\ ~SignsIn(c)' /\ ~Seeks(c)'
        BY <1>1 DEF Brings, SignsIn, Seeks
    <2>2. \A d \in Calls \ {c} : /\ (Brings(d)' <=> Brings(d)) /\ (SignsIn(d)' <=> SignsIn(d))
                                /\ Seeks(d)' <=> Seeks(d)
        BY <1>1 DEF Brings, SignsIn, Seeks
    <2>k. \A d \in Calls : Known(call'[d].carries)
        BY <1>1 DEF IInv, TokensInv, HeldKnown, Known
    <2>3. \A u \in Tabs : session'[u] # None => Shows(u, session'[u])
        BY DEF Send, Shows
    <2>4. \A d \in Calls, u \in Tabs :
              call'[d].captured # None /\ call'[d].tab = u => Shows(u, call'[d].captured)
        BY <1>1 DEF Shows
    <2>5. \A d \in Calls : call'[d].captured # None => call'[d].tab \in Tabs
        BY <1>1, NoCallFields DEF IInv, CallsInv, CallShape, Runs
    <2>6. \A d \in Calls : /\ Brings(d)' => Brings(d) /\ call'[d].got = call[d].got
                                              /\ call'[d].tab = call[d].tab
                           /\ SignsIn(d)' => SignsIn(d)
        BY <1>1 DEF Brings, SignsIn
    <2>7. \A d \in Calls : Seeks(d)' =>
              \/ call'[d].carries = cookie
              \/ (Seeks(d) /\ call'[d].carries = call[d].carries)
        BY <1>1 DEF Seeks
    <2>8. login' = login /\ cookie' = cookie /\ bearer' = bearer
        BY DEF Send, server
    <2> QED
        BY <1>2, <2>k, <2>3, <2>4, <2>5, <2>6, <2>7, <2>8, FewerShown
<1> QED
    BY <1>2, <1>4, <1>5 DEF IInv

LEMMA RestoreKeeps ==
    ASSUME IInv, NEW c \in Calls, NEW t \in Tabs, Restore(c, t)
    PROVE  IInv'
<1>1. /\ call'[c].kind = "restore" /\ call'[c].tab = t /\ call'[c].pc = "refresh"
      /\ call'[c].captured = None /\ call'[c].carries = cookie
      /\ \A d \in Calls \ {c} : call'[d] = call[d]
    BY DEF Restore, Is, IInv, TypeOK, NoCall
<1>2. TypeOK'
    <2>1. [NoCall EXCEPT !.kind = "restore", !.tab = t, !.pc = "refresh",
                         !.carries = cookie] \in Call
        BY NoCallIsACall, NoneIsNoToken DEF IInv, TypeOK, Call
    <2> QED
        BY <2>1 DEF Restore, Is, server, table, flushed, IInv, TypeOK
<1>3. ~Runs(c) /\ call[c] = NoCall
    BY DEF Restore, Runs, IInv, CallsInv, CallShape
\* No call is under way in a tab that has not begun to boot.
<1>4. \A d \in Calls : Runs(d) => call[d].tab # t
    BY DEF Restore, RestoreGuard, Of, Boots, IInv, CallsInv, BootsAlone
<1>5. CallsInv'
    <2>1. CallShape'
        BY <1>1 DEF IInv, CallsInv, CallShape, Runs, Redeeming, Begun
    <2>2. BootsAlone'
        BY <1>1, <1>3, <1>4 DEF Restore, RestoreGuard, IInv, CallsInv, BootsAlone, Runs, Boots
    <2>3. OneRedeemer'
        <3>1. \A d \in Calls \ {c} : Redeeming(d)' => Redeeming(d) /\ call'[d].tab # t
            BY <1>1, <1>4, NoCallFields, NoTabAssumption
            DEF Redeeming, Runs, IInv, CallsInv, CallShape
        <3> QED
            BY <1>1, <3>1 DEF IInv, CallsInv, OneRedeemer, Runs
    <2>4. WaitersHaveARefresh'
        BY <1>1, <1>3, NoCallFields, WaitersKept DEF Redeeming, IInv, CallsInv
    <2> QED
        BY <2>1, <2>2, <2>3, <2>4 DEF CallsInv
<1>6. TokensInv'
    <2>1. ~Brings(c)' /\ ~SignsIn(c)'
        BY <1>1 DEF Brings, SignsIn
    <2>2. \A d \in Calls \ {c} : /\ (Brings(d)' <=> Brings(d)) /\ (SignsIn(d)' <=> SignsIn(d))
                                /\ Seeks(d)' <=> Seeks(d)
        BY <1>1 DEF Brings, SignsIn, Seeks
    <2>k. \A d \in Calls : Known(call'[d].carries)
        BY <1>1 DEF IInv, TokensInv, HeldKnown, Known
    <2>3. \A u \in Tabs : session'[u] # None => Shows(u, session'[u])
        BY DEF Restore, Shows
    <2>4. \A d \in Calls, u \in Tabs :
              call'[d].captured # None /\ call'[d].tab = u => Shows(u, call'[d].captured)
        BY <1>1 DEF Shows
    <2>5. \A d \in Calls : call'[d].captured # None => call'[d].tab \in Tabs
        BY <1>1, NoCallFields DEF IInv, CallsInv, CallShape, Runs
    <2>6. \A d \in Calls : /\ Brings(d)' => Brings(d) /\ call'[d].got = call[d].got
                                              /\ call'[d].tab = call[d].tab
                           /\ SignsIn(d)' => SignsIn(d)
        BY <1>1 DEF Brings, SignsIn
    <2>7. \A d \in Calls : Seeks(d)' =>
              \/ call'[d].carries = cookie
              \/ (Seeks(d) /\ call'[d].carries = call[d].carries)
        BY <1>1 DEF Seeks
    <2>8. login' = login /\ cookie' = cookie /\ bearer' = bearer
        BY DEF Restore, server
    <2> QED
        BY <1>2, <2>k, <2>3, <2>4, <2>5, <2>6, <2>7, <2>8, FewerShown
<1> QED
    BY <1>2, <1>5, <1>6 DEF IInv

-----------------------------------------------------------------------------
(* Sign-in: the server answers *)

LEMMA ServeKeeps ==
    ASSUME IInv, NEW c \in Calls, Serve(c)
    PROVE  IInv'
<1>0. Runs(c) /\ ~Redeeming(c) /\ call[c].pc = "sent" /\ call[c] \in Call /\ expired \in Nat
    BY CallsTyped, BoundAssumption DEF Serve, Runs, Redeeming, IInv, TypeOK
<1>1. CASE Accepted(call[c].carries) /\ call[c].kind = "logout"
    <2>1. /\ call'[c] = [call[c] EXCEPT !.pc = "authed"]
          /\ \A d \in Calls \ {c} : call'[d] = call[d]
        BY <1>1, Replaced DEF Serve
    <2>2. /\ call'[c].kind = "logout" /\ call'[c].tab = call[c].tab /\ call'[c].pc = "authed"
          /\ call'[c].captured = call[c].captured /\ call'[c].carries = call[c].carries
        BY <1>0, <1>1, <2>1 DEF Call
    <2>3. [call[c] EXCEPT !.pc = "authed"] \in Call
        BY <1>0 DEF Call
    <2>4. TypeOK'
        BY <1>1, <2>3 DEF Serve, Is, server, table, flushed, IInv, TypeOK
    <2>5. call[c].carries # None
        BY <1>0, <1>1 DEF Accepted, None
    <2>6. CallsInv'
        BY ZenonT(30), <1>0, <1>1, <2>1, <2>2, <2>5, SameCalls DEF Serve, Redeeming
    <2>7. TokensInv'
        <3>1. ~Brings(c)' /\ ~Seeks(c)' /\ Known(call'[c].carries)
            BY <2>2 DEF Brings, SignsIn, Seeks, IInv, TokensInv, HeldKnown
        <3> QED
            BY <1>0, <2>1, <2>2, <2>4, <3>1, FewerCalls DEF Serve, server
    <2> QED
        BY <2>4, <2>6, <2>7 DEF IInv
<1>2. CASE ~(Accepted(call[c].carries) /\ call[c].kind = "logout")
    <2>1. PICK pc \in {"ok", "refused"} : Answer(c, pc, None)
        BY <1>2 DEF Serve
    <2>2. /\ call'[c].kind = call[c].kind /\ call'[c].tab = call[c].tab
          /\ call'[c].pc \in {"ok", "refused"} /\ call'[c].captured = call[c].captured
          /\ call'[c].carries = None
          /\ \A d \in Calls \ {c} : call'[d] = call[d]
        BY <2>1, Answered DEF Serve
    <2>3. TypeOK'
        BY <2>1, NoneIsNoToken, AnswerTyped DEF Serve, server, table, flushed, IInv, TypeOK
    <2>4. CallsInv'
        BY <1>0, <2>2, SameCalls DEF Serve, Redeeming, Begun
    <2>5. TokensInv'
        <3>1. ~Brings(c)' /\ ~Seeks(c)' /\ Known(call'[c].carries)
            BY <2>2 DEF Serve, Brings, SignsIn, Seeks, Known
        <3> QED
            BY <1>0, <2>2, <2>3, <3>1, FewerCalls DEF Serve, server
    <2> QED
        BY <2>3, <2>4, <2>5 DEF IInv
<1> QED
    BY <1>1, <1>2

\* A request that the server ends, with no tab to hear of it.
LEMMA GoneCallEnds ==
    ASSUME IInv, NEW c \in Calls, call[c].kind = "gone", Is(c, NoCall), booted' = booted
    PROVE  /\ CallsInv' /\ call' \in [Calls -> Call]
           /\ \A d \in Calls : call'[d] \in {call[d], NoCall}
<1>1. call'[c] = NoCall /\ \A d \in Calls \ {c} : call'[d] = call[d]
    BY Replaced
<1>2. call' \in [Calls -> Call]
    BY NoCallIsACall, CallsTyped DEF Is
<1>3. ~Runs(c) /\ ~Runs(c)' /\ ~Redeeming(c)' /\ call'[c].pc # "waiting"
    BY <1>1, NoCallFields DEF Runs, Redeeming
<1>4. CallShape'
    BY <1>1, NoCallFields DEF IInv, CallsInv, CallShape, Runs, Redeeming, Begun
<1>5. BootsAlone'
    BY <1>1, <1>3 DEF IInv, CallsInv, BootsAlone, Runs
<1>6. OneRedeemer'
    BY <1>1, <1>3 DEF IInv, CallsInv, OneRedeemer, Runs, Redeeming
<1>7. WaitersHaveARefresh'
    BY <1>1, <1>3, WaitersKept DEF IInv, CallsInv, Retried
<1> QED
    BY <1>1, <1>2, <1>4, <1>5, <1>6, <1>7 DEF CallsInv

LEMMA ServeLogoutKeeps ==
    ASSUME IInv, NEW c \in Calls, ServeLogout(c)
    PROVE  IInv'
<1>0. call[c].kind \in {"logout", "gone"} /\ call[c].pc = "authed"
    BY DEF ServeLogout, IInv, CallsInv, CallShape
<1>1. call' \in [Calls -> Call]
    BY NoneIsNoToken, AnswerTyped DEF ServeLogout
<1>2. closing' \in SUBSET Tokens
    <2>1. call[c].carries \in Tokens
        BY <1>0 DEF Begun, IInv, CallsInv, CallShape, TokensInv, HeldKnown, Known, Issued
    <2>2. login[call[c].carries] \in Tokens
        BY <1>0, <2>1, NoneIsNoToken, CallsTyped, SMTT(30) DEF Begun, IInv, CallsInv, CallShape, TypeOK,
           TokensInv, HeldKnown, Known, Issued, Tokens, None
    <2> QED
        BY <2>2 DEF ServeLogout, IInv, TypeOK
<1>3. TypeOK'
    BY <1>1, <1>2 DEF ServeLogout, table, IInv, TypeOK
<1>4. CASE call[c].kind = "gone"
    <2>1. Is(c, NoCall)
        BY <1>4 DEF ServeLogout, Answer
    <2>2. CallsInv' /\ \A d \in Calls : call'[d] \in {call[d], NoCall}
        BY <1>4, <2>1, GoneCallEnds DEF ServeLogout
    <2>3. TokensInv'
        BY <1>3, <2>2, FewerCalls DEF ServeLogout
    <2> QED
        BY <1>3, <2>2, <2>3 DEF IInv
<1>5. CASE call[c].kind = "logout"
    <2>1. /\ call'[c].kind = call[c].kind /\ call'[c].tab = call[c].tab
          /\ call'[c].pc = "ok" /\ call'[c].captured = call[c].captured
          /\ call'[c].carries = None
          /\ \A d \in Calls \ {c} : call'[d] = call[d]
        BY <1>5, Answered DEF ServeLogout
    <2>2. CallsInv'
        BY <1>0, <1>5, <2>1, SameCalls DEF ServeLogout, Redeeming, Begun, Runs
    <2>3. TokensInv'
        <3>1. ~Brings(c)' /\ ~Seeks(c)' /\ Known(call'[c].carries) /\ Runs(c)
            BY <1>5, <2>1 DEF Brings, SignsIn, Seeks, Known, Runs
        <3> QED
            BY <2>1, <1>3, <3>1, FewerCalls DEF ServeLogout
    <2> QED
        BY <1>3, <2>2, <2>3 DEF IInv
<1> QED
    BY <1>0, <1>4, <1>5

LEMMA ReadRefreshKeeps ==
    ASSUME IInv, NEW c \in Calls, ReadRefresh(c)
    PROVE  IInv'
<1>0. Runs(c) /\ Redeeming(c) /\ Seeks(c) /\ call[c] \in Call
    BY CallsTyped, NoCallFields
    DEF ReadRefresh, Runs, Redeeming, Seeks, Begun, IInv, CallsInv, CallShape
<1>1. /\ call'[c] = [call[c] EXCEPT !.pc = "reading"]
      /\ \A d \in Calls \ {c} : call'[d] = call[d]
    BY Replaced DEF ReadRefresh
<1>2. /\ call'[c].kind = call[c].kind /\ call'[c].tab = call[c].tab /\ call'[c].pc = "reading"
      /\ call'[c].captured = call[c].captured /\ call'[c].carries = call[c].carries
      /\ call'[c] \in Call
    BY <1>0, <1>1 DEF Call
<1>3. TypeOK'
    BY <1>1, <1>2 DEF ReadRefresh, Is, server, table, flushed, IInv, TypeOK
<1>4. CallsInv'
    BY <1>0, <1>1, <1>2, SameCalls DEF ReadRefresh, Redeeming
<1>5. TokensInv'
    <2>1. ~Brings(c)' /\ Known(call'[c].carries)
        BY <1>0, <1>2 DEF Brings, SignsIn, IInv, TokensInv, HeldKnown
    <2> QED
        BY <1>0, <1>1, <1>2, <1>3, <2>1, FewerCalls DEF ReadRefresh, server
<1> QED
    BY <1>3, <1>4, <1>5 DEF IInv

LEMMA AbandonKeeps ==
    ASSUME IInv, NEW c \in Calls, Abandon(c)
    PROVE  IInv'
<1>1. /\ CallsInv' /\ call' \in [Calls -> Call]
      /\ \A d \in Calls : call'[d] \in {call[d], NoCall}
    BY GoneCallEnds DEF Abandon
<1>2. TypeOK'
    BY <1>1 DEF Abandon, server, table, flushed, IInv, TypeOK
<1>3. TokensInv'
    BY <1>1, <1>2, FewerCalls DEF Abandon, server
<1> QED
    BY <1>1, <1>2, <1>3 DEF IInv

\* The end of a transaction shows in no tab.
LEMMA EndsKeeps ==
    ASSUME IInv, NEW l \in Tokens, Ends(l)
    PROVE  IInv'
<1>1. /\ login' = login /\ cookie' = cookie /\ bearer' = bearer /\ session' = session
      /\ booted' = booted /\ call' = call /\ expired' = expired
    BY DEF Ends, CommitToken, CommitRevoke, Rollback, Lag, table
<1>2. /\ life' \in [Tokens -> {"none", "live", "revoked"}]
      /\ current' \in [Tokens -> 0 .. MaxTokens] /\ spent' \in SUBSET Tokens
      /\ writing' \in [Tokens -> 0 .. MaxTokens] /\ closing' \in SUBSET Tokens
      /\ lagging' \in SUBSET Tokens /\ events' \in 0 .. MaxEvents
    <2>1. CASE CommitToken(l)
        <3>1. writing[l] \in 0 .. MaxTokens /\ current[l] \in 0 .. MaxTokens
            BY DEF IInv, TypeOK
        <3>2. {current[l]} \ {None} \subseteq Tokens
            BY <3>1, BoundAssumption DEF Tokens, None
        <3>3. (IF life[l] = "none" THEN "live" ELSE life[l]) \in {"none", "live", "revoked"}
            BY DEF IInv, TypeOK
        <3> QED
            BY <2>1, <3>1, <3>2, <3>3, NoneIsNoToken DEF CommitToken, IInv, TypeOK
    <2>2. CASE CommitRevoke(l)
        BY <2>2 DEF CommitRevoke, IInv, TypeOK
    <2>3. CASE Rollback(l)
        BY <2>3, NoneIsNoToken DEF Rollback, table, IInv, TypeOK
    <2>4. CASE Lag(l)
        BY <2>4, BoundAssumption DEF Lag, Event, table, IInv, TypeOK
    <2> QED
        BY <2>1, <2>2, <2>3, <2>4 DEF Ends
<1>3. TypeOK'
    BY <1>1, <1>2 DEF IInv, TypeOK
<1>4. CallsInv'
    BY <1>1, SameCalls DEF Redeeming
<1>5. TokensInv'
    BY <1>1, <1>3, FewerCalls
<1> QED
    BY <1>3, <1>4, <1>5 DEF IInv

\* The server issues the next token, for a login of its own or for that of a token which is
\* not on its way to a tab that signs in.
LEMMA TokenIssued ==
    ASSUME IInv, TypeOK', Fresh # {}, NEW c \in Calls, NEW l,
           login' = [login EXCEPT ![NextToken] = l],
           \/ l = NextToken
           \/ /\ ~SignsIn(c)'
              /\ \E raw \in Issued : /\ l = login[raw]
                                     /\ \A d \in Calls : SignsIn(d) => call[d].got # raw,
           cookie' = cookie, bearer' = bearer, session' = session,
           \/ call'[c] = NoCall
           \/ /\ Brings(c)' /\ call'[c].got = NextToken /\ call'[c].captured = call[c].captured
              /\ call'[c].tab = call[c].tab /\ call'[c].carries = None,
           \A d \in Calls \ {c} : call'[d] = call[d]
    PROVE  TokensInv'
<1> DEFINE n == NextToken
<1>1. n \in Tokens /\ n \notin Issued /\ \A m \in Issued : m < n
    BY NextTokenIsNew DEF IInv, TokensInv
<1> HIDE DEF n
<1>2. login' = [login EXCEPT ![n] = l] /\ (Brings(c)' => call'[c].got = n)
    BY NoCallFields DEF n, Brings, SignsIn
<1>c. ~Seeks(c)' /\ call'[c].captured \in {None, call[c].captured} /\ call'[c].carries = None
    BY NoCallFields DEF Seeks, Brings, SignsIn
<1>t. call'[c].captured # None => call'[c].tab = call[c].tab
    BY NoCallFields
<1>3. l \in 1 .. n
    <2>1. CASE l = NextToken
        BY <1>1, <2>1 DEF n, Tokens
    <2>2. CASE \E raw \in Issued : l = login[raw]
        <3>1. PICK raw \in Issued : l = login[raw]
            BY <2>2
        <3>2. /\ raw \in Tokens /\ raw < n
              /\ login[raw] # 0 /\ login[raw] <= raw /\ login[raw] \in 0 .. MaxTokens
            BY <1>1 DEF Issued, IInv, TypeOK, TokensInv, TokensInOrder
        <3> QED
            BY <1>1, <3>1, <3>2, BoundAssumption DEF Tokens
    <2> QED
        BY <2>1, <2>2
<1>4. /\ login'[n] = l
      /\ \A m \in Tokens \ {n} : login'[m] = login[m]
    BY <1>1, <1>2 DEF IInv, TypeOK
<1>5. Issued' = Issued \cup {n}
    BY <1>1, <1>3, <1>4 DEF Issued
<1>6. TokensInOrder'
    <2>1. ASSUME NEW i \in Issued', NEW m \in Tokens, m < i PROVE m \in Issued'
        <3>1. CASE i \in Issued
            BY <2>1, <3>1, <1>5 DEF IInv, TokensInv, TokensInOrder
        <3>2. CASE i = n
            <4>1. m \in Fresh => n <= m
                BY NextTokenIsNew DEF n, IInv, TokensInv
            <4> QED
                BY <1>1, <1>5, <2>1, <3>2, <4>1, BoundAssumption DEF Tokens, Fresh
        <3> QED
            BY <1>5, <3>1, <3>2
    <2>2. \A m \in Tokens : login'[m] <= m
        BY <1>1, <1>3, <1>4 DEF IInv, TokensInv, TokensInOrder, Tokens
    <2> QED
        BY <2>1, <2>2 DEF TokensInOrder
<1>7. HeldKnown'
    <2>1. \A d \in Calls : /\ call'[d].captured \in {None, call[d].captured}
                           /\ call'[d].carries \in {None, call[d].carries}
        BY <1>c
    <2> QED
        BY <1>2, <1>5, <2>1 DEF IInv, TokensInv, HeldKnown, Known
<1>8. \A d \in Calls \ {c} : (Brings(d)' <=> Brings(d)) /\ (SignsIn(d)' <=> SignsIn(d))
    BY DEF Brings, SignsIn
\* Nothing of the new token's login is around but what came before it.
<1>9. NotAhead'
    <2>1. \A t \in Tabs : \A m : Shows(t, m)' => Shows(t, m)
        BY <1>c, <1>t DEF Shows
    <2>2. \A t \in Tabs : \A m : Shows(t, m) => m \in Issued
        BY DEF Shows, IInv, TokensInv, HeldKnown, Known
    <2>3. \A t \in Tabs : \A m : Bears(t, m)' => m = n \/ (Bears(t, m) /\ m \in Issued)
        <3> TAKE t \in Tabs
        <3> TAKE m
        <3> HAVE Bears(t, m)'
        <3>1. CASE m = bearer[t]
            BY <3>1 DEF Bears, IInv, TokensInv, HeldKnown, Known
        <3>2. CASE \E d \in Calls \ {c} : call'[d].tab = t /\ Brings(d)' /\ m = call'[d].got
            <4>1. PICK d \in Calls \ {c} : call[d].tab = t /\ Brings(d) /\ m = call[d].got
                BY <3>2, <1>8
            <4>2. m \in Issued
                BY <4>1 DEF IInv, TokensInv, AnswersApart
            <4> QED
                BY <4>1, <4>2, NoneIsNoToken DEF Bears, Issued
        <3> QED
            BY <1>2, <3>1, <3>2 DEF Bears
    <2> SUFFICES ASSUME NEW t \in Tabs, NEW m \in Tokens, NEW i \in Tokens,
                        Shows(t, m)', Bears(t, i)', login'[m] = login'[i]
                 PROVE  m <= i
        BY DEF NotAhead
    <2>4. Shows(t, m) /\ m \in Issued /\ m < n
        BY <1>1, <2>1, <2>2
    <2>5. CASE i = n
        BY <2>4, <2>5, <1>1 DEF Tokens
    <2>6. CASE Bears(t, i) /\ i \in Issued
        BY <2>4, <2>6, <1>1, <1>4 DEF IInv, TokensInv, NotAhead
    <2> QED
        BY <2>3, <2>5, <2>6
<1>10. AnswersApart'
    <2>1. \A d \in Calls \ {c} : Brings(d) => call[d].got \in Issued /\ call[d].got # n
        BY <1>1 DEF IInv, TokensInv, AnswersApart
    <2>2. ASSUME NEW d \in Calls, Brings(d)'
          PROVE  /\ call'[d].got \in Issued'
                 /\ \A e \in Calls : Brings(e)' /\ call'[e].got = call'[d].got => e = d
        BY <1>2, <1>5, <1>8, <2>1, <2>2 DEF IInv, TokensInv, AnswersApart
    <2>3. ASSUME NEW d \in Calls, SignsIn(d)'
          PROVE  /\ cookie' # call'[d].got
                 /\ \A e \in Calls : Seeks(e)' => call'[e].carries # call'[d].got
                 /\ \A m \in Tokens : login'[m] = login'[call'[d].got] => m = call'[d].got
        <3>1. CASE d = c
            <4>1. l = n
                BY <2>3, <3>1 DEF n
            <4>2. cookie # n
                BY <1>1, NoneIsNoToken DEF IInv, TokensInv, HeldKnown, Known
            <4>3. \A e \in Calls : Seeks(e)' => call'[e].carries # n
                BY <1>1, <1>c, NoneIsNoToken DEF IInv, TokensInv, HeldKnown, Known
            <4>4. ASSUME NEW m \in Tokens \ {n} PROVE login'[m] # n
                <5>1. CASE m \in Issued
                    BY <1>1, <1>4, <5>1, LoginsTyped
                <5>2. CASE m \notin Issued
                    BY <1>1, <1>4, <5>2 DEF Issued, Tokens
                <5> QED
                    BY <5>1, <5>2
            <4> QED
                BY <1>2, <1>4, <2>3, <3>1, <4>1, <4>2, <4>3, <4>4 DEF Brings
        <3>2. CASE d # c
            <4>1. SignsIn(d) /\ call'[d] = call[d] /\ Brings(d) /\ call[d].got \in Issued
                BY <1>8, <2>1, <2>3, <3>2 DEF Brings
            <4>2. call[d].got # n /\ call[d].got \in Tokens
                BY <4>1, <1>1 DEF Issued
            <4>3. login[call[d].got] # l
                <5>1. CASE l = n
                    BY <5>1, <4>1, <1>1, LoginsTyped
                <5>2. CASE \E raw \in Issued : /\ l = login[raw]
                                               /\ \A e \in Calls : SignsIn(e) => call[e].got # raw
                    <6>1. PICK raw \in Issued : l = login[raw] /\ call[d].got # raw
                        BY <5>2, <4>1
                    <6>2. raw \in Tokens
                        BY DEF Issued
                    <6> QED
                        BY <6>1, <6>2, <4>1 DEF IInv, TokensInv, AnswersApart
                <5> QED
                    BY <5>1, <5>2 DEF n
            <4>4. \A m \in Tokens : login'[m] = login'[call[d].got] => m = call[d].got
                BY <1>4, <4>1, <4>2, <4>3 DEF IInv, TokensInv, AnswersApart
            <4> QED
                BY <1>c, <4>1, <4>4 DEF IInv, TokensInv, AnswersApart, Seeks
        <3> QED
            BY <3>1, <3>2
    <2> QED
        BY <2>2, <2>3 DEF AnswersApart
<1> QED
    BY <1>6, <1>7, <1>9, <1>10 DEF TokensInv

LEMMA ServeLoginKeeps ==
    ASSUME IInv, NEW c \in Calls, ServeLogin(c)
    PROVE  IInv'
<1>1. NextToken \in Tokens /\ NextToken \in 0 .. MaxTokens
    BY NextTokenIsNew DEF ServeLogin, IInv, TokensInv, Tokens
<1>2. /\ call'[c].kind = "login" /\ call'[c].tab = call[c].tab
      /\ call'[c].pc = "ok" /\ call'[c].got = NextToken /\ call'[c].captured = call[c].captured
      /\ call'[c].carries = None
      /\ \A d \in Calls \ {c} : call'[d] = call[d]
    BY Answered DEF ServeLogin
<1>3. TypeOK'
    BY <1>1, AnswerTyped DEF ServeLogin, Issue, table, IInv, TypeOK
<1>4. CallsInv'
    BY <1>2, SameCalls DEF ServeLogin, Redeeming, Begun, Runs
<1>5. TokensInv'
    <2>1. Brings(c)'
        BY <1>2 DEF Brings, SignsIn
    <2> QED
        BY <1>2, <1>3, <2>1, TokenIssued DEF ServeLogin, Issue
<1> QED
    BY <1>3, <1>4, <1>5 DEF IInv

LEMMA ServeRefreshKeeps ==
    ASSUME IInv, NEW c \in Calls, ServeRefresh(c)
    PROVE  IInv'
<1>0. Redeeming(c) /\ Seeks(c) /\ call[c].pc # "waiting" /\ call[c].kind # "none"
    BY NoCallFields DEF ServeRefresh, Redeeming, Seeks, IInv, CallsInv, CallShape
<1>1. NextToken \in Tokens /\ NextToken \in 0 .. MaxTokens
    BY NextTokenIsNew DEF ServeRefresh, IInv, TokensInv, Tokens
<1>2. call[c].carries \in Issued /\ call[c].carries \in Tokens
    BY LoginsTyped DEF ServeRefresh, Begun
<1>3. login[call[c].carries] \in Tokens
    BY <1>2, LoginsTyped
<1>4. TypeOK'
    <2>1. call' \in [Calls -> Call]
        BY <1>1, AnswerTyped DEF ServeRefresh
    <2>2. PICK l \in Tokens : l = login[call[c].carries] /\ l \in 0 .. MaxTokens
        BY <1>3 DEF Tokens
    <2>3. Issue(NextToken, l)
        BY <2>2 DEF ServeRefresh
    <2>4. login' \in [Tokens -> 0 .. MaxTokens] /\ writing' \in [Tokens -> 0 .. MaxTokens]
        BY <1>1, <2>2, <2>3 DEF Issue, IInv, TypeOK
    <2> QED
        BY <2>1, <2>4 DEF ServeRefresh, table, IInv, TypeOK
<1>5. \A d \in Calls : SignsIn(d) => call[d].got # call[c].carries
    BY <1>0 DEF IInv, TokensInv, AnswersApart
<1>6. CASE call[c].kind = "gone"
    <2>1. Is(c, NoCall)
        BY <1>6 DEF ServeRefresh, Answer
    <2>2. CallsInv'
        BY <1>6, <2>1, GoneCallEnds DEF ServeRefresh
    <2>3. call'[c] = NoCall /\ \A d \in Calls \ {c} : call'[d] = call[d]
        BY <2>1, Replaced
    <2>4. ~SignsIn(c)'
        BY <2>3, NoCallFields DEF SignsIn
    <2>5. TokensInv'
        BY <1>2, <1>4, <1>5, <2>3, <2>4, TokenIssued DEF ServeRefresh, Issue
    <2> QED
        BY <1>4, <2>2, <2>5 DEF IInv
<1>7. CASE call[c].kind # "gone"
    <2>1. /\ call'[c].kind = call[c].kind /\ call'[c].tab = call[c].tab
          /\ call'[c].pc = "rotated" /\ call'[c].got = NextToken
          /\ call'[c].captured = call[c].captured /\ call'[c].carries = None
          /\ \A d \in Calls \ {c} : call'[d] = call[d]
        BY <1>7, Answered DEF ServeRefresh
    <2>2. CallsInv'
        BY <1>0, <1>7, <2>1, SameCalls DEF ServeRefresh, Redeeming, Begun, Runs
    <2>3. Brings(c)' /\ ~SignsIn(c)'
        BY <2>1 DEF Brings, SignsIn
    <2>4. TokensInv'
        BY <1>2, <1>4, <1>5, <2>1, <2>3, TokenIssued DEF ServeRefresh, Issue
    <2> QED
        BY <1>4, <2>2, <2>4 DEF IInv
<1> QED
    BY <1>6, <1>7

-----------------------------------------------------------------------------
(* Sign-in: the tab handles the answer *)

\* An answer that brings token n to tab t, before and after a step.
StillBrings(d, t, n) ==
    Brings(d)' /\ call'[d] = call[d] /\ n = call[d].got /\ call[d].tab = t

\* An answer that brings a token is handled: the cookie, the bearer and, if one is shown, the
\* session of the tab become that token, and nothing else of the tab brings one any more
\* but a sign-in.
LEMMA TokenTaken ==
    ASSUME IInv, TypeOK', NEW c \in Calls, Brings(c), call[c].tab \in Tabs,
           login' = login, cookie' = call[c].got,
           bearer' = [bearer EXCEPT ![call[c].tab] = call[c].got],
           \A t \in Tabs : \/ session'[t] \in {session[t], None}
                           \/ t = call[c].tab /\ session'[t] = call[c].got,
           ~Brings(c)',
           \A d \in Calls : Known(call'[d].carries),
           \A d \in Calls : Seeks(d)' => Seeks(d) /\ call'[d].carries = call[d].carries,
           \A d \in Calls : Brings(d)' => call'[d] = call[d],
           \A d \in Calls : call'[d].captured # None =>
               /\ call'[d].tab = call[d].tab /\ call[d].tab \in Tabs
               /\ \/ call'[d].captured = call[d].captured
                  \/ call'[d].captured = call[c].got /\ call[d].tab = call[c].tab
    PROVE  TokensInv'
<1> DEFINE n == call[c].got
           t == call[c].tab
<1>1. n \in Issued /\ n \in Tokens /\ Bears(t, n)
    BY NoneIsNoToken DEF IInv, TokensInv, AnswersApart, Issued, Bears
<1>2. PICK nn \in Tokens, tt \in Tabs : nn = n /\ tt = t
    BY <1>1
<1> HIDE DEF n, t
<1>3. Issued' = Issued
    BY DEF Issued
<1>4. TokensInOrder'
    BY <1>3 DEF IInv, TokensInv, TokensInOrder
<1>5. \A u \in Tabs : bearer'[u] = IF u = tt THEN nn ELSE bearer[u]
    BY <1>2 DEF IInv, TypeOK, n, t
<1>6. HeldKnown'
    BY <1>1, <1>2, <1>3, <1>5 DEF IInv, TokensInv, HeldKnown, Known, n, t
<1>7. \A d \in Calls : SignsIn(d)' => SignsIn(d) /\ call'[d] = call[d] /\ d # c
    BY DEF SignsIn, Brings
<1>8. AnswersApart'
    <2>1. \A d \in Calls : Brings(d)' => Brings(d)
        BY DEF Brings, SignsIn
    <2>2. \A d \in Calls : SignsIn(d) => Brings(d)
        BY DEF Brings
    <2>3. ASSUME NEW d \in Calls, Brings(d)'
          PROVE  /\ call'[d].got \in Issued'
                 /\ \A e \in Calls : Brings(e)' /\ call'[e].got = call'[d].got => e = d
        BY <1>3, <2>1, <2>3 DEF IInv, TokensInv, AnswersApart
    <2>4. ASSUME NEW d \in Calls, SignsIn(d)'
          PROVE  /\ cookie' # call'[d].got
                 /\ \A e \in Calls : Seeks(e)' => call'[e].carries # call'[d].got
                 /\ \A m \in Tokens : login'[m] = login'[call'[d].got] => m = call'[d].got
        BY <1>7, <2>2, <2>4 DEF IInv, TokensInv, AnswersApart, Seeks
    <2> QED
        BY <2>3, <2>4 DEF AnswersApart
<1>9. NotAhead'
    <2>1. \A u \in Tabs, m \in Tokens : Shows(u, m)' => Shows(u, m) \/ (u = tt /\ m = nn)
        BY <1>2 DEF Shows, n, t
    <2>2. \A u \in Tabs, i \in Tokens :
              Bears(u, i)' => \/ u = tt /\ i = nn
                              \/ Bears(u, i) /\ u # tt
                              \/ Bears(u, i) /\ \E d \in Calls \ {c} : StillBrings(d, u, i)
        <3> TAKE u \in Tabs, i \in Tokens
        <3> HAVE Bears(u, i)'
        <3>1. CASE i = bearer'[u]
            BY <1>5, <3>1, NoneIsNoToken DEF Bears
        <3>2. CASE \E d \in Calls : call'[d].tab = u /\ Brings(d)' /\ i = call'[d].got
            <4>1. PICK d \in Calls \ {c} : call'[d].tab = u /\ Brings(d)' /\ i = call'[d].got
                BY <3>2
            <4>2. call'[d] = call[d] /\ Brings(d)
                BY <4>1 DEF Brings, SignsIn
            <4> QED
                BY <4>1, <4>2, NoneIsNoToken DEF Bears, StillBrings
        <3> QED
            BY <3>1, <3>2 DEF Bears
    \* Another answer that brings a token to this tab is that of a sign-in.
    <2>3. \A d \in Calls \ {c} : \A i :
              StillBrings(d, tt, i) /\ call[c].pc = "rotated" => SignsIn(d)
        <3>1. Runs(c)
            BY NoTabAssumption, NoCallFields DEF Runs, Brings, SignsIn, IInv, CallsInv, CallShape
        <3> QED
            BY <1>2, <3>1
            DEF StillBrings, Brings, SignsIn, Redeeming, IInv, CallsInv, OneRedeemer, t
    <2> SUFFICES ASSUME NEW u \in Tabs, NEW m \in Tokens, NEW i \in Tokens,
                        Shows(u, m)', Bears(u, i)', login[m] = login[i]
                 PROVE  m <= i
        BY DEF NotAhead
    <2>4. CASE Shows(u, m) /\ Bears(u, i)
        BY <2>4 DEF IInv, TokensInv, NotAhead
    <2>5. CASE Shows(u, m) /\ u = tt /\ i = nn
        BY <1>1, <1>2, <2>5 DEF IInv, TokensInv, NotAhead
    <2>6. CASE u = tt /\ m = nn /\ i = nn
        BY <2>6 DEF Tokens
    <2>7. CASE u = tt /\ m = nn /\ \E d \in Calls \ {c} : StillBrings(d, u, i)
        <3>1. PICK d \in Calls \ {c} : StillBrings(d, tt, i) /\ Brings(d) /\ i = call[d].got
            BY <2>7 DEF StillBrings, Brings, SignsIn
        <3>2. SignsIn(d) \/ SignsIn(c)
            BY <2>3, <3>1 DEF Brings
        <3>3. m = i
            BY <1>2, <2>7, <3>1, <3>2 DEF n, IInv, TokensInv, AnswersApart
        <3> QED
            BY <3>3 DEF Tokens
    <2> QED
        BY <2>1, <2>2, <2>4, <2>5, <2>6, <2>7
<1> QED
    BY <1>4, <1>6, <1>8, <1>9 DEF TokensInv

LEMMA ReceiveLoginKeeps ==
    ASSUME IInv, NEW c \in Calls, ReceiveLogin(c)
    PROVE  IInv'
<1>1. Brings(c) /\ Runs(c) /\ ~Redeeming(c) /\ call[c].tab \in Tabs /\ call[c].tab \in booted
    BY DEF ReceiveLogin, Brings, SignsIn, Runs, Redeeming, Boots, IInv, CallsInv, CallShape,
           BootsAlone
<1>2. call' = [call EXCEPT ![c] = NoCall] /\ booted' = booted
    BY <1>1 DEF ReceiveLogin, Is
<1>3. TypeOK'
    BY <1>1, <1>2, NoCallIsACall DEF ReceiveLogin, server, table, flushed, IInv, TypeOK, Call
<1>4. CallsInv'
    <2>1. Booting({c}) = {} /\ ~Begun(c)
        BY DEF ReceiveLogin, Booting, Begun
    <2>2. Dropped(c) = NoCall
        BY <2>1, DroppedFields
    <2> QED
        BY <1>1, <1>2, <2>1, <2>2, CallEnds
<1>5. TokensInv'
    <2>1. \A d \in Calls : call'[d] = IF d = c THEN NoCall ELSE call[d]
        BY <1>2 DEF IInv, TypeOK
    <2>2. ~Brings(c)'
        BY <2>1, NoCallFields DEF Brings, SignsIn
    <2>3. \A d \in Calls : call'[d].captured # None => d # c /\ call[d].tab \in Tabs
        BY <2>1, NoCallFields DEF Runs, IInv, CallsInv, CallShape
    <2>4. \A t \in Tabs : session'[t] = IF t = call[c].tab THEN call[c].got ELSE session[t]
        BY <1>1 DEF ReceiveLogin, IInv, TypeOK
    <2>5. \A d \in Calls : call'[d].captured # None =>
              /\ call'[d].tab = call[d].tab /\ call[d].tab \in Tabs
              /\ \/ call'[d].captured = call[d].captured
                 \/ call'[d].captured = call[c].got /\ call[d].tab = call[c].tab
        BY <2>1, <2>3
    <2>6. \A d \in Calls :
              /\ Known(call'[d].carries)
              /\ Seeks(d)' => Seeks(d) /\ call'[d].carries = call[d].carries
        BY <2>1, NoCallFields DEF Seeks, Known, IInv, TokensInv, HeldKnown
    <2>7. \A d \in Calls : Brings(d)' => call'[d] = call[d]
        BY <2>1, <2>2
    <2>8. \A t \in Tabs : \/ session'[t] \in {session[t], None}
                          \/ t = call[c].tab /\ session'[t] = call[c].got
        BY <2>4
    <2> QED
        BY <1>1, <1>3, <2>2, <2>5, <2>6, <2>7, <2>8, TokenTaken DEF ReceiveLogin, server
<1> QED
    BY <1>3, <1>4, <1>5 DEF IInv

LEMMA ReceiveRestoredKeeps ==
    ASSUME IInv, NEW c \in Calls, ReceiveRestored(c)
    PROVE  IInv'
<1>1. Brings(c) /\ Runs(c) /\ Redeeming(c) /\ call[c].tab \in Tabs
    BY DEF ReceiveRestored, Brings, Runs, Redeeming, IInv, CallsInv, CallShape
<1>2. /\ call'[c].kind = "boot" /\ call'[c].tab = call[c].tab /\ call'[c].pc = "sent"
      /\ call'[c].captured = call[c].got /\ call'[c].carries = call[c].got
      /\ \A d \in Calls \ {c} : call'[d] = call[d]
    BY CallsTyped DEF ReceiveRestored, Is, Call
<1>3. TypeOK'
    <2>1. call[c].got \in 0 .. MaxTokens
        BY CallsTyped DEF Call
    <2>2. [call[c] EXCEPT !.kind = "boot", !.pc = "sent", !.carries = call[c].got,
                          !.captured = call[c].got] \in Call
        BY <2>1, CallsTyped DEF Call
    <2> QED
        BY <2>1, <2>2 DEF ReceiveRestored, Is, server, table, flushed, IInv, TypeOK
<1>4. CallsInv'
    <2>1. \A d \in Calls : Runs(d) /\ call[d].tab = call[c].tab => d = c
        BY <1>1 DEF ReceiveRestored, Boots, IInv, CallsInv, BootsAlone
    <2>2. CallShape'
        BY <1>1, <1>2 DEF IInv, CallsInv, CallShape, Runs, Redeeming, Begun
    <2>3. BootsAlone'
        BY <1>1, <1>2, <2>1 DEF ReceiveRestored, IInv, CallsInv, BootsAlone, Runs, Boots
    <2>4. OneRedeemer'
        BY <1>2 DEF IInv, CallsInv, OneRedeemer, Redeeming, Runs
    <2>5. WaitersHaveARefresh'
        BY <1>2, WaitersKept DEF ReceiveRestored, Retried, IInv, CallsInv
    <2> QED
        BY <2>2, <2>3, <2>4, <2>5 DEF CallsInv
<1>5. TokensInv'
    <2>1. ~Brings(c)' /\ ~Seeks(c)' /\ Known(call'[c].carries)
        BY <1>1, <1>2 DEF Brings, SignsIn, Seeks, Known, IInv, TokensInv, AnswersApart
    <2>2. \A d \in Calls : call'[d].captured # None => d = c \/ call[d].tab \in Tabs
        BY <1>2, NoCallFields DEF Runs, IInv, CallsInv, CallShape
    <2>3. \A t \in Tabs : session'[t] = IF t = call[c].tab THEN call[c].got ELSE session[t]
        BY <1>1 DEF ReceiveRestored, IInv, TypeOK
    <2>5. \A d \in Calls : call'[d].captured # None =>
              /\ call'[d].tab = call[d].tab /\ call[d].tab \in Tabs
              /\ \/ call'[d].captured = call[d].captured
                 \/ call'[d].captured = call[c].got /\ call[d].tab = call[c].tab
        BY <1>1, <1>2, <2>2
    <2>6. \A d \in Calls :
              /\ Known(call'[d].carries)
              /\ Seeks(d)' => Seeks(d) /\ call'[d].carries = call[d].carries
        BY <1>2, <2>1 DEF Seeks, IInv, TokensInv, HeldKnown
    <2>7. \A d \in Calls : Brings(d)' => call'[d] = call[d]
        BY <1>2, <2>1
    <2>8. \A t \in Tabs : \/ session'[t] \in {session[t], None}
                          \/ t = call[c].tab /\ session'[t] = call[c].got
        BY <2>3
    <2> QED
        BY <1>1, <1>3, <2>1, <2>5, <2>6, <2>7, <2>8, TokenTaken DEF ReceiveRestored, server
<1> QED
    BY <1>3, <1>4, <1>5 DEF IInv

LEMMA ReceiveOkKeeps ==
    ASSUME IInv, NEW c \in Calls, ReceiveOk(c)
    PROVE  IInv'
<1>1. Runs(c) /\ ~Redeeming(c) /\ call[c].tab \in Tabs
    BY DEF ReceiveOk, Runs, Redeeming, IInv, CallsInv, CallShape
<1>d. Dropped(c) = NoCall
    BY DroppedFields DEF ReceiveOk, Begun
<1>2. \A d \in Calls : call'[d] = IF d = c THEN NoCall ELSE call[d]
    BY <1>d DEF ReceiveOk, End, Is, IInv, TypeOK
<1>3. \A t \in Tabs : session'[t] \in {session[t], call[c].captured}
                      /\ (session'[t] # session[t] => t = call[c].tab)
    BY DEF ReceiveOk, IInv, TypeOK
<1>4. TypeOK'
    <2>1. booted' \in SUBSET Tabs
        BY <1>1 DEF ReceiveOk, End, Booting, IInv, TypeOK
    <2>2. call[c].captured \in 0 .. MaxTokens
        BY CallsTyped DEF Call
    <2> QED
        BY <1>d, <2>1, <2>2, NoCallIsACall DEF ReceiveOk, End, Is, server, table,
           flushed, IInv, TypeOK
<1>5. CallsInv'
    BY <1>1, CallEnds DEF ReceiveOk, End, Is
<1>6. TokensInv'
    <2>1. \A d \in Calls : /\ Brings(d)' => Brings(d) /\ call'[d] = call[d]
                           /\ SignsIn(d)' => SignsIn(d)
        BY <1>2, NoCallFields DEF Brings, SignsIn
    <2>2. \A t \in Tabs : session'[t] # None => Shows(t, session'[t])
        BY <1>3 DEF Shows
    <2>3. \A d \in Calls, t \in Tabs :
              call'[d].captured # None /\ call'[d].tab = t => Shows(t, call'[d].captured)
        BY <1>2, NoCallFields DEF Shows
    <2>4. \A d \in Calls : call'[d].captured # None => call'[d].tab \in Tabs
        BY <1>2, NoCallFields DEF IInv, CallsInv, CallShape, Runs
    <2>5. \A d \in Calls : Seeks(d)' => Seeks(d) /\ call'[d] = call[d]
        BY <1>2, NoCallFields DEF Seeks
    <2>6. \A d \in Calls : Known(call'[d].carries)
        BY <1>2, NoCallFields DEF Known, IInv, TokensInv, HeldKnown
    <2> QED
        BY <1>4, <2>1, <2>2, <2>3, <2>4, <2>5, <2>6, FewerShown DEF ReceiveOk, server
<1> QED
    BY <1>4, <1>5, <1>6 DEF IInv

LEMMA ReceiveLogoutKeeps ==
    ASSUME IInv, NEW c \in Calls, ReceiveLogout(c)
    PROVE  IInv'
<1>1. Runs(c) /\ ~Redeeming(c) /\ call[c].tab \in Tabs
    BY DEF ReceiveLogout, Runs, Redeeming, IInv, CallsInv, CallShape
<1>2. call' = [call EXCEPT ![c] = NoCall]
    BY DEF ReceiveLogout, Is
<1>3. TypeOK'
    BY <1>2, NoCallIsACall, NoneIsNoToken DEF ReceiveLogout, SignedOut, server,
       table, flushed, IInv, TypeOK
<1>4. CallsInv'
    <2>1. Booting({c}) = {} /\ ~Begun(c)
        BY DEF ReceiveLogout, Booting, Begun
    <2>2. Dropped(c) = NoCall
        BY <2>1, DroppedFields
    <2> QED
        BY <1>1, <1>2, <2>1, <2>2, CallEnds DEF ReceiveLogout
<1>5. TokensInv'
    <2>1. \A d \in Calls : call'[d] \in {call[d], NoCall}
        BY <1>2 DEF IInv, TypeOK
    <2>2. \A t \in Tabs : bearer'[t] \in {bearer[t], None} /\ session'[t] \in {session[t], None}
        BY DEF ReceiveLogout, SignedOut, IInv, TypeOK
    <2> QED
        BY <1>3, <2>1, <2>2, FewerCalls DEF ReceiveLogout, server
<1> QED
    BY <1>3, <1>4, <1>5 DEF IInv

LEMMA LoseKeeps ==
    ASSUME IInv, NEW c \in Calls, Lose(c)
    PROVE  IInv'
<1>1. Runs(c) /\ ~Redeeming(c) /\ call[c].tab \in Tabs
    BY DEF Lose, Runs, Redeeming, IInv, CallsInv, CallShape
<1>2. call' = [call EXCEPT ![c] = Dropped(c)] /\ booted' = booted \cup Booting({c})
    BY DEF Lose, End, Is
<1>3. \A t \in Tabs : bearer'[t] \in {bearer[t], None} /\ session'[t] \in {session[t], None}
    BY DEF Lose, SignedOut, IInv, TypeOK
<1>4. TypeOK'
    <2>1. booted' \in SUBSET Tabs
        BY <1>1, <1>2 DEF Booting, IInv, TypeOK
    <2>2. bearer' \in [Tabs -> 0 .. MaxTokens] /\ session' \in [Tabs -> 0 .. MaxTokens]
        BY NoneIsNoToken DEF Lose, SignedOut, IInv, TypeOK
    <2> QED
        BY <1>2, <2>1, <2>2, DroppedFields DEF Lose, server, table, flushed, IInv, TypeOK
<1>5. CallsInv'
    BY <1>1, <1>2, CallEnds
<1>6. TokensInv'
    <2>1. \A d \in Calls : call'[d] = call[d] \/ GivenUp(d)
        BY <1>2, CallsTyped, WhatIsGivenUp
    <2> QED
        BY <1>3, <1>4, <2>1, FewerCalls DEF Lose, server
<1> QED
    BY <1>4, <1>5, <1>6 DEF IInv

\* A 401: the call waits, begins a refresh, or ends.
LEMMA ReceiveRefusedKeeps ==
    ASSUME IInv, NEW c \in Calls, ReceiveRefused(c)
    PROVE  IInv'
<1>1. /\ Runs(c) /\ ~Redeeming(c) /\ call[c].pc # "waiting"
      /\ call[c].kind \in Retried /\ call[c].tab \in Tabs
    BY DEF ReceiveRefused, Runs, Redeeming, Retried, IInv, CallsInv, CallShape
<1>2. CASE End(c)
    <2>1. call' = [call EXCEPT ![c] = Dropped(c)] /\ booted' = booted \cup Booting({c})
        BY <1>2 DEF End, Is
    <2>2. TypeOK'
        <3>1. booted' \in SUBSET Tabs
            BY <1>1, <2>1 DEF Booting, IInv, TypeOK
        <3> QED
            BY <2>1, <3>1, DroppedFields DEF ReceiveRefused, server, table, flushed, IInv, TypeOK
    <2>3. CallsInv'
        BY <1>1, <2>1, CallEnds
    <2>4. \A d \in Calls : call'[d] = call[d] \/ GivenUp(d)
        BY <2>1, CallsTyped, WhatIsGivenUp
    <2>5. TokensInv'
        BY <2>2, <2>4, FewerCalls DEF ReceiveRefused, server
    <2> QED
        BY <2>2, <2>3, <2>5 DEF IInv
\* The tab has a refresh under way or not; the call joins it or is it.
<1>3. CASE /\ booted' = booted
           /\ \/ Shares(c) /\ Is(c, [call[c] EXCEPT !.pc = "waiting", !.carries = None])
              \/ ~Shares(c) /\ Is(c, [call[c] EXCEPT !.pc = "refresh", !.carries = cookie])
    <2>1. /\ call'[c].kind = call[c].kind /\ call'[c].tab = call[c].tab
          /\ call'[c].captured = call[c].captured
          /\ \A d \in Calls \ {c} : call'[d] = call[d]
          /\ \/ Shares(c) /\ call'[c].pc = "waiting" /\ call'[c].carries = None
             \/ ~Shares(c) /\ call'[c].pc = "refresh" /\ call'[c].carries = cookie
        <3>t. call[c] \in Call
            BY CallsTyped
        <3>1. CASE Shares(c)
            <4>1. /\ call'[c] = [call[c] EXCEPT !.pc = "waiting", !.carries = None]
                  /\ \A d \in Calls \ {c} : call'[d] = call[d]
                BY <1>3, <3>1, Replaced
            <4> QED
                BY <3>1, <3>t, <4>1 DEF Call
        <3>2. CASE ~Shares(c)
            <4>1. /\ call'[c] = [call[c] EXCEPT !.pc = "refresh", !.carries = cookie]
                  /\ \A d \in Calls \ {c} : call'[d] = call[d]
                BY <1>3, <3>2, Replaced
            <4> QED
                BY <3>2, <3>t, <4>1 DEF Call
        <3> QED
            BY <3>1, <3>2
    <2>2. TypeOK'
        <3>1. /\ [call[c] EXCEPT !.pc = "waiting", !.carries = None] \in Call
              /\ [call[c] EXCEPT !.pc = "refresh", !.carries = cookie] \in Call
            <4>1. call[c] \in Call /\ cookie \in 0 .. MaxTokens
                BY CallsTyped DEF IInv, TypeOK
            <4> QED
                BY <4>1, NoneIsNoToken DEF Call
        <3> QED
            BY <1>3, <3>1 DEF ReceiveRefused, Is, server, table, flushed, IInv, TypeOK
    <2>3. \A d \in Calls : Redeeming(d) /\ call[d].tab = call[c].tab => d \in Sharing(call[c].tab)
        BY <1>1, NoTabAssumption, NoCallFields
        DEF Sharing, Of, Retried, Boots, Runs, Redeeming, IInv, CallsInv, CallShape, BootsAlone
    <2>4. CallShape'
        BY <1>1, <2>1 DEF IInv, CallsInv, CallShape, Runs, Redeeming, Retried, Begun
    <2>5. BootsAlone'
        BY <1>1, <1>3, <2>1 DEF IInv, CallsInv, BootsAlone, Runs
    <2>6. OneRedeemer'
        BY <2>1, <2>3 DEF Shares, IInv, CallsInv, OneRedeemer, Redeeming, Runs
    <2>7. WaitersHaveARefresh'
        <3> SUFFICES ASSUME NEW w \in Calls, call'[w].kind # "none", call'[w].pc = "waiting"
                     PROVE  \E d \in Sharing(call[w].tab)' : Redeeming(d)'
            BY <2>1 DEF WaitersHaveARefresh
        <3>1. call'[w].tab = call[w].tab
            BY <2>1
        <3>2. ASSUME NEW d \in Sharing(call[w].tab), Redeeming(d)
              PROVE  d \in Sharing(call[w].tab)' /\ Redeeming(d)'
            <4>1. d \in Calls /\ call'[d] = call[d]
                BY <1>1, <2>1, <3>2 DEF Sharing, Of
            <4> QED
                BY <3>1, <3>2, <4>1 DEF Sharing, Of, Redeeming
        <3>3. \E d \in Sharing(call[w].tab) : Redeeming(d)
            <4>1. CASE w # c
                BY <2>1, <4>1 DEF IInv, CallsInv, WaitersHaveARefresh
            <4>2. CASE w = c
                <5>1. PICK e \in Sharing(call[c].tab) : TRUE
                    BY <2>1, <4>2 DEF Shares
                <5>2. CASE Redeeming(e)
                    BY <4>2, <5>1, <5>2
                <5>3. CASE call[e].pc = "waiting"
                    BY <4>2, <5>1, <5>3 DEF Sharing, Of, IInv, CallsInv, WaitersHaveARefresh
                <5> QED
                    BY <5>1, <5>2, <5>3 DEF Sharing
            <4> QED
                BY <4>1, <4>2
        <3> QED
            BY <3>2, <3>3
    <2>8. TokensInv'
        <3>1. ~Brings(c)' /\ Known(call'[c].carries) /\ (Seeks(c)' => call'[c].carries = cookie)
            BY <2>1 DEF Brings, SignsIn, Seeks, Known, IInv, TokensInv, HeldKnown
        <3> QED
            BY <1>1, <2>1, <2>2, <3>1, FewerCalls DEF ReceiveRefused, server
    <2> QED
        BY <2>2, <2>4, <2>5, <2>6, <2>7, <2>8 DEF IInv, CallsInv
<1> QED
    BY <1>2, <1>3 DEF ReceiveRefused

\* The calls that settle with a refresh are typed like any other.
LEMMA SettleKeepsTypes ==
    ASSUME IInv, NEW t \in Tabs, NEW ok \in BOOLEAN, NEW n \in 0 .. MaxTokens, Settle(t, ok, n)
    PROVE  call' \in [Calls -> Call] /\ booted' \in SUBSET Tabs
<1>1. \A c \in Calls : [call[c] EXCEPT !.pc = "sent", !.retried = TRUE, !.carries = n] \in Call
    <2>1. \A c \in Calls : call[c] \in Call
        BY DEF IInv, TypeOK
    <2> QED
        BY <2>1 DEF Call
<1>2. call' \in [Calls -> Call]
    BY <1>1, DroppedFields DEF Settle, IInv, TypeOK
<1>3. Booting(Sharing(t)) \subseteq {t}
    BY DEF Booting, Sharing, Of
<1> QED
    BY <1>2, <1>3 DEF Settle, IInv, TypeOK

LEMMA ReceiveRotatedKeeps ==
    ASSUME IInv, NEW c \in Calls, ReceiveRotated(c)
    PROVE  IInv'
<1>1. /\ Brings(c) /\ Runs(c) /\ Redeeming(c) /\ call[c].tab \in Tabs
      /\ c \in Sharing(call[c].tab) /\ call[c].got \in 0 .. MaxTokens
    BY NoCallFields DEF ReceiveRotated, Begun, Brings, Runs, Redeeming, Retried,
       Sharing, Of, IInv, CallsInv,
           CallShape, TypeOK, Call
<1>2. PICK t \in Tabs, n \in 0 .. MaxTokens, ok \in BOOLEAN :
          t = call[c].tab /\ n = call[c].got /\ ok = (session[t] # None)
    BY <1>1
<1>3. Settle(t, ok, n)
    BY <1>2 DEF ReceiveRotated
<1>4. TypeOK'
    <2>1. bearer' \in [Tabs -> 0 .. MaxTokens] /\ session' \in [Tabs -> 0 .. MaxTokens]
        BY <1>2, NoneIsNoToken DEF ReceiveRotated, Hydrate, IInv, TypeOK
    <2> QED
        BY <1>2, <1>3, <2>1, SettleKeepsTypes DEF ReceiveRotated, server, table,
           flushed, IInv, TypeOK
<1>5. CallsInv'
    BY <1>3, SettleKeepsCalls
<1>6. \A d \in Calls : IF d \notin Sharing(t) THEN call'[d] = call[d]
                       ELSE \/ GivenUp(d)
                            \/ /\ call'[d].pc = "sent" /\ call'[d].captured = call[d].captured
                               /\ call'[d].tab = call[d].tab /\ call'[d].carries = n
    <2>1. \A d \in Calls : call'[d] = Dropped(d) => GivenUp(d)
        BY WhatIsGivenUp
    <2> QED
        BY <1>3, <2>1, CallsTyped DEF Settle, Call
<1>7. TokensInv'
    <2>1. \A u \in Tabs : \/ session'[u] \in {session[u], None}
                          \/ u = call[c].tab /\ session'[u] = call[c].got
        BY <1>2 DEF ReceiveRotated, IInv, TypeOK
    <2>2. \A d \in Calls :
              /\ Known(call'[d].carries)
              /\ Seeks(d)' => Seeks(d) /\ call'[d].carries = call[d].carries
        BY <1>1, <1>2, <1>6
        DEF Seeks, GivenUp, Known, IInv, TokensInv, HeldKnown,
            AnswersApart
    <2>3. \A d \in Calls : Brings(d)' => d \notin Sharing(t) /\ call'[d] = call[d]
        BY <1>6 DEF GivenUp, Brings, SignsIn
    <2>4. ~Brings(c)'
        BY <1>1, <1>2, <2>3
    <2>5. \A d \in Calls : call'[d].captured # None =>
              /\ call'[d].tab = call[d].tab /\ call[d].tab \in Tabs
              /\ call'[d].captured = call[d].captured
        BY <1>6, NoCallFields
        DEF GivenUp, Sharing, Of, Runs, IInv, CallsInv, CallShape
    <2> QED
        BY <1>1, <1>4, <2>1, <2>2, <2>3, <2>4, <2>5, TokenTaken DEF ReceiveRotated, Hydrate, server
<1> QED
    BY <1>4, <1>5, <1>7 DEF IInv

LEMMA RefreshFailedKeeps ==
    ASSUME IInv, NEW c \in Calls, RefreshFailed(c)
    PROVE  IInv'
<1>1. Runs(c) /\ call[c].tab \in Tabs
    BY NoCallFields DEF RefreshFailed, Redeeming, Runs, IInv, CallsInv, CallShape
<1>2. CASE call[c].kind = "restore"
    <2>1. call' = [call EXCEPT ![c] = Dropped(c)] /\ booted' = booted \cup Booting({c})
        BY <1>2 DEF RefreshFailed, End, Is
    <2>2. TypeOK'
        <3>1. booted' \in SUBSET Tabs
            BY <1>1, <2>1 DEF Booting, IInv, TypeOK
        <3> QED
            BY <1>2, <2>1, <3>1, DroppedFields DEF RefreshFailed, server, table,
               flushed, IInv, TypeOK
    <2>3. CallsInv'
        BY <1>1, <1>2, <2>1, CallEnds
    <2>4. \A d \in Calls : call'[d] = call[d] \/ GivenUp(d)
        BY <2>1, CallsTyped, WhatIsGivenUp
    <2>5. TokensInv'
        BY <1>2, <2>2, <2>4, FewerCalls DEF RefreshFailed, server
    <2> QED
        BY <2>2, <2>3, <2>5 DEF IInv
<1>3. CASE call[c].kind # "restore"
    <2>1. PICK t \in Tabs : t = call[c].tab
        BY <1>1
    <2>2. SignedOut(t) /\ Settle(t, FALSE, None)
        BY <1>3, <2>1 DEF RefreshFailed
    <2>3. TypeOK'
        <3>1. call' \in [Calls -> Call] /\ booted' \in SUBSET Tabs
            BY <2>2, NoneIsNoToken, SettleKeepsTypes DEF IInv
        <3> QED
            BY <2>2, <3>1, NoneIsNoToken DEF RefreshFailed, SignedOut, server,
               table, flushed, IInv, TypeOK
    <2>4. CallsInv'
        BY <2>2, SettleKeepsCalls
    <2>5. \A d \in Calls : call'[d] = call[d] \/ GivenUp(d)
        BY <2>2, WhatIsGivenUp DEF Settle
    <2>6. \A u \in Tabs : bearer'[u] \in {bearer[u], None} /\ session'[u] \in {session[u], None}
        BY <2>2 DEF SignedOut, IInv, TypeOK
    <2>7. TokensInv'
        BY <2>3, <2>5, <2>6, FewerCalls DEF RefreshFailed, server
    <2> QED
        BY <2>3, <2>4, <2>7 DEF IInv
<1> QED
    BY <1>2, <1>3

-----------------------------------------------------------------------------
(* Sign-in: the surroundings *)

LEMMA ExpireKeeps ==
    ASSUME IInv, Expire
    PROVE  IInv'
<1>1. TypeOK'
    <2>1. expired' \in 0 .. MaxTokens /\ events' \in 0 .. MaxEvents
        BY BoundAssumption DEF Expire, Event, Issued, Tokens, IInv, TypeOK
    <2> QED
        BY <2>1 DEF Expire, table, flushed, IInv, TypeOK
<1>2. CallsInv'
    BY SameCalls DEF Expire, Redeeming
<1>3. TokensInv'
    BY <1>1, FewerCalls DEF Expire
<1> QED
    BY <1>1, <1>2, <1>3 DEF IInv

LEMMA RevokeElsewhereKeeps ==
    ASSUME IInv, NEW l \in Tokens, RevokeElsewhere(l)
    PROVE  IInv'
<1>1. TypeOK'
    BY BoundAssumption DEF RevokeElsewhere, Event, table, IInv, TypeOK
<1>2. CallsInv'
    BY SameCalls DEF RevokeElsewhere, Redeeming
<1>3. TokensInv'
    BY <1>1, FewerCalls DEF RevokeElsewhere
<1> QED
    BY <1>1, <1>2, <1>3 DEF IInv

LEMMA LoadPageKeeps ==
    ASSUME IInv, NEW t \in Tabs, LoadPage(t)
    PROVE  IInv'
<1>1. \A d \in Calls : IF call[d].tab = t THEN GivenUp(d) ELSE call'[d] = call[d]
    BY WhatIsGivenUp DEF LoadPage
<1>2. TypeOK'
    <2>1. call' \in [Calls -> Call]
        BY DroppedFields DEF LoadPage, IInv, TypeOK
    <2> QED
        BY <2>1, NoneIsNoToken, BoundAssumption DEF LoadPage, Event, SignedOut,
           server, table, flushed, IInv, TypeOK
<1>3. CallsInv'
    <2>1. CallShape'
        BY <1>1, NoCallFields DEF GivenUp, Begun, IInv, CallsInv, CallShape, Runs, Redeeming
    <2>2. BootsAlone'
        <3>1. \A d \in Calls : Runs(d)' => Runs(d) /\ call'[d] = call[d] /\ call[d].tab # t
            BY <1>1 DEF GivenUp, Runs
        <3> QED
            BY <3>1 DEF LoadPage, IInv, CallsInv, BootsAlone
    <2>3. OneRedeemer'
        <3>1. \A d \in Calls : Runs(d)' => Runs(d) /\ call'[d].tab = call[d].tab
                                           /\ call[d].tab \in Tabs
            BY <1>1 DEF GivenUp, Runs, IInv, CallsInv, CallShape
        <3>2. \A d \in Calls : Redeeming(d)' =>
                  Redeeming(d) /\ call'[d].tab \in {call[d].tab, NoTab}
            BY <1>1 DEF GivenUp, Redeeming
        <3> QED
            BY <3>1, <3>2, NoTabAssumption DEF IInv, CallsInv, OneRedeemer
    <2>4. WaitersHaveARefresh'
        BY <1>1, WaitersKept DEF GivenUp, IInv, CallsInv
    <2> QED
        BY <2>1, <2>2, <2>3, <2>4 DEF CallsInv
<1>4. TokensInv'
    <2>1. \A d \in Calls : call'[d] = call[d] \/ GivenUp(d)
        BY <1>1
    <2>2. \A u \in Tabs : bearer'[u] \in {bearer[u], None} /\ session'[u] \in {session[u], None}
        BY DEF LoadPage, SignedOut, IInv, TypeOK
    <2> QED
        BY <1>2, <2>1, <2>2, FewerCalls DEF LoadPage, server
<1> QED
    BY <1>2, <1>3, <1>4 DEF IInv

-----------------------------------------------------------------------------
(* Sign-in: the theorems *)

LEMMA SignInBegins ==
    ASSUME Init
    PROVE  IInv
<1>1. \A c \in Calls : call[c] = NoCall
    BY DEF Init
<1>2. TypeOK
    <2>1. cookie \in 0 .. MaxTokens /\ 0 \in 0 .. MaxTokens /\ 1 \in 0 .. MaxTokens
        BY BoundAssumption DEF Init, None
    <2>2. call \in [Calls -> Call]
        BY NoCallIsACall DEF Init
    <2> QED
        BY <2>1, <2>2, BoundAssumption DEF Init, TypeOK, None
<1>3. CallsInv
    BY <1>1, NoCallFields
    DEF CallsInv, CallShape, BootsAlone, OneRedeemer, WaitersHaveARefresh, Runs, Redeeming,
        Begun
<1>4. TokensInv
    <2>1. Issued = {1} \cap {cookie}
        <3>1. 1 \in Tokens /\ 0 \notin Tokens /\ cookie \in {0, 1}
            BY BoundAssumption DEF Init, Tokens, None
        <3>2. \A n \in Tokens : login[n] # 0 <=> n = cookie
            BY DEF Init
        <3> QED
            BY <3>1, <3>2 DEF Issued
    <2>2. TokensInOrder
        BY <2>1, BoundAssumption DEF Init, TokensInOrder, Tokens, None
    <2>3. HeldKnown
        BY <1>1, <2>1, NoCallFields DEF Init, HeldKnown, Known
    <2>4. AnswersApart
        BY <1>1, NoCallFields DEF AnswersApart, Brings, SignsIn
    <2>5. NotAhead
        BY <1>1, NoCallFields DEF Init, NotAhead, Shows
    <2> QED
        BY <2>2, <2>3, <2>4, <2>5 DEF TokensInv
<1> QED
    BY <1>2, <1>3, <1>4 DEF IInv

LEMMA SignInStep ==
    ASSUME IInv, [Next]_vars
    PROVE  IInv'
<1>1. ASSUME NEW c \in Calls, NEW t \in Tabs, PageCall(c, t)
      PROVE  IInv'
    BY <1>1, SendKeeps DEF PageCall
<1>2. ASSUME NEW c \in Calls, NEW t \in Tabs, Login(c, t)
      PROVE  IInv'
    BY <1>2, SendKeeps DEF Login
<1>3. CASE UNCHANGED vars
    <2>1. TypeOK'
        BY <1>3 DEF vars, server, table, flushed, IInv, TypeOK
    <2>2. CallsInv'
        BY <1>3, SameCalls DEF vars, Redeeming
    <2>3. TokensInv'
        BY <1>3, <2>1, FewerCalls DEF vars, server
    <2> QED
        BY <2>1, <2>2, <2>3 DEF IInv
<1> QED
    BY <1>1, <1>2, <1>3, RestoreKeeps, ServeLoginKeeps, ServeKeeps, ServeLogoutKeeps,
       ReadRefreshKeeps, ServeRefreshKeeps, AbandonKeeps, EndsKeeps,
       ReceiveLoginKeeps, ReceiveOkKeeps, ReceiveLogoutKeeps, ReceiveRefusedKeeps,
       ReceiveRotatedKeeps, ReceiveRestoredKeeps, RefreshFailedKeeps, LoseKeeps,
       LoadPageKeeps, ExpireKeeps, RevokeElsewhereKeeps
    DEF Next

\* The sign-in invariant: which calls share a refresh, who holds which token, and which
\* answers are still to come, in every tab.
THEOREM SignInInvariant == Spec => []IInv
    BY SignInBegins, SignInStep, PTL DEF Spec

\* The state of the browser and of the server stays within its types: no call waits, redeems
\* or carries a token in a way the code of authStore.ts and apiClient.ts does not know.
THEOREM SignInTyped == Spec => []TypeOK
<1>1. IInv => TypeOK
    BY DEF IInv
<1> QED
    BY <1>1, SignInInvariant, PTL

\* The single-use cookie is never redeemed twice at once by one tab: refreshInFlight and the
\* guard of restoreSession leave at most one redeemer, however the 401s fall.
THEOREM OneRedemptionAtATime == Spec => []OneRefreshPerTab
<1>1. IInv => OneRefreshPerTab
    <2> SUFFICES ASSUME IInv, NEW t \in Tabs
                 PROVE  Cardinality({c \in Calls : call[c].tab = t /\ Redeeming(c)}) <= 1
        BY DEF OneRefreshPerTab
    <2> DEFINE S == {c \in Calls : call[c].tab = t /\ Redeeming(c)}
    <2>1. \A c, d \in S : c = d
        BY NoTabAssumption, NoCallFields
        DEF IInv, CallsInv, CallShape, OneRedeemer, Runs, Redeeming
    <2> HIDE DEF S
    <2>2. S = {} \/ \E c \in S : S = {c}
        BY <2>1
    <2>3. Cardinality(S) <= 1
        BY <2>2, FS_EmptySet, FS_Singleton
    <2> QED
        BY <2>3 DEF S
<1> QED
    BY <1>1, SignInInvariant, PTL

\* A call that waits for a refresh has the refresh of another call to wait for: none is left
\* behind by a refresh that has settled or by a page that was loaded again.
THEOREM WaitersAreNotForgotten == Spec => []WaitersHaveARefresh
<1>1. IInv => WaitersHaveARefresh
    BY DEF IInv, CallsInv
<1> QED
    BY <1>1, SignInInvariant, PTL

\* Of one login, the session shown is never newer than the bearer requests are sent with,
\* though logins, refreshes, restores and profile answers of several tabs cross.
THEOREM ShownSessionIsNotAhead == Spec => []SessionNotAheadOfBearer
<1>1. IInv => SessionNotAheadOfBearer
    BY NoneIsNoToken
    DEF IInv, TypeOK, TokensInv, HeldKnown, Known, Issued, NotAhead, Shows, Bears,
        SessionNotAheadOfBearer
<1> QED
    BY <1>1, SignInInvariant, PTL

-----------------------------------------------------------------------------
(* Sign-in: the server's part implements SessionLife *)

\* Which rows are there, and which tokens: a row keeps to tokens of its own login, and what a
\* transaction has flushed to it was never its token before.
RowsNamed ==
    \A l \in Tokens :
        /\ life[l] = "none" <=> current[l] = None
        /\ current[l] # None => login[current[l]] = l /\ current[l] \notin spent
        /\ writing[l] # None => login[writing[l]] = l /\ writing[l] \notin spent \cup {current[l]}

\* Only a session that is there is revoked, or about to be.
RevokedAreThere ==
    /\ \A l \in closing : life[l] # "none"
    /\ \A c \in Calls : call[c].pc = "authed" => life[login[call[c].carries]] # "none"

TableInv == RowsNamed /\ spent \subseteq Issued /\ RevokedAreThere

\* A step that leaves the rows and their tokens alone.
LEMMA RowsKept ==
    ASSUME TableInv, login' = login, table' = table,
           \A l \in Tokens : writing'[l] \in {writing[l], None},
           \A l \in closing' : l \in closing \/ life[l] # "none",
           \A c \in Calls : /\ call'[c].pc = "authed"
                            /\ ~(call[c].pc = "authed" /\ call'[c].carries = call[c].carries)
                            => life[login[call'[c].carries]] # "none"
    PROVE  TableInv' /\ UNCHANGED Life!vars
<1>1. life' = life /\ current' = current /\ spent' = spent
    BY DEF table
<1>2. RowsNamed'
    BY <1>1 DEF TableInv, RowsNamed
<1>3. spent' \subseteq Issued'
    BY <1>1 DEF TableInv, Issued
<1>4. RevokedAreThere'
    BY <1>1 DEF TableInv, RevokedAreThere
<1> QED
    BY <1>1, <1>2, <1>3, <1>4 DEF TableInv, Life!vars

\* The tabs' own steps let nobody in.
LEMMA NobodyLetIn ==
    ASSUME IInv, NEW c \in Calls, call'[c] \in {call[c], NoCall} \/ GivenUp(c),
           call'[c].pc = "authed"
    PROVE  call[c].pc = "authed" /\ call'[c].carries = call[c].carries
BY NoCallFields DEF GivenUp, Begun

\* A token is issued: nobody had it before, so no row has it, and none had.
LEMMA RowsIssued ==
    ASSUME IInv, TableInv, Fresh # {}, NEW l \in Tokens, Issue(NextToken, l),
           table' = table, closing' = closing,
           \A c \in Calls : call'[c].pc = "authed" => call'[c] = call[c]
    PROVE  TableInv' /\ UNCHANGED Life!vars
<1>1. PICK n \in Tokens : n = NextToken /\ n \notin Issued
    BY NextTokenIsNew DEF IInv, TokensInv
<1>2. login' = [login EXCEPT ![n] = l] /\ writing' = [writing EXCEPT ![l] = n]
    BY <1>1 DEF Issue
<1>3. life' = life /\ current' = current /\ spent' = spent
    BY DEF table
<1>4. /\ login'[n] = l /\ \A m \in Issued : m \in Tokens /\ login'[m] = login[m]
      /\ Issued \subseteq Issued'
    BY <1>1, <1>2 DEF IInv, TypeOK, Issued
<1>5. \A k \in Tokens : /\ current[k] # None => current[k] \in Issued
                        /\ writing[k] # None => writing[k] \in Issued
    <2> TAKE k \in Tokens
    <2>1. current[k] \in 0 .. MaxTokens /\ writing[k] \in 0 .. MaxTokens /\ k # 0
        BY LoginsTyped DEF IInv, TypeOK
    <2>2. \A m \in 0 .. MaxTokens : m # None => m \in Tokens
        BY BoundAssumption DEF Tokens, None
    <2> QED
        BY <2>1, <2>2 DEF TableInv, RowsNamed, Issued
<1>6. RowsNamed'
    <2> SUFFICES ASSUME NEW k \in Tokens
                 PROVE  /\ life[k] = "none" <=> current[k] = None
                        /\ current[k] # None => login'[current[k]] = k /\ current[k] \notin spent
                        /\ writing'[k] # None => /\ login'[writing'[k]] = k
                                                 /\ writing'[k] \notin spent \cup {current[k]}
        BY <1>3 DEF RowsNamed
    <2>1. /\ life[k] = "none" <=> current[k] = None
          /\ current[k] # None => login'[current[k]] = k /\ current[k] \notin spent
        BY <1>4, <1>5 DEF TableInv, RowsNamed
    <2>2. ASSUME writing'[k] # None
          PROVE  login'[writing'[k]] = k /\ writing'[k] \notin spent \cup {current[k]}
        <3>1. CASE k = l
            <4>1. writing'[k] = n
                BY <1>2, <3>1 DEF IInv, TypeOK
            <4>2. n \notin spent /\ n # current[k]
                BY <1>1, <1>5, NoneIsNoToken DEF TableInv
            <4> QED
                BY <1>4, <3>1, <4>1, <4>2
        <3>2. CASE k # l
            <4>1. writing'[k] = writing[k]
                BY <1>2, <3>2 DEF IInv, TypeOK
            <4> QED
                BY <1>4, <1>5, <2>2, <4>1 DEF TableInv, RowsNamed
        <3> QED
            BY <3>1, <3>2
    <2> QED
        BY <2>1, <2>2
<1>7. RevokedAreThere'
    <2>1. \A c \in Calls : call[c].pc = "authed" => call[c].carries \in Issued
        BY DEF Begun, IInv, CallsInv, CallShape, TokensInv, HeldKnown, Known
    <2> QED
        BY <1>3, <1>4, <2>1 DEF TableInv, RevokedAreThere
<1> QED
    BY <1>3, <1>4, <1>6, <1>7 DEF TableInv, Life!vars

\* A commit opens a session, or replaces its token.
LEMMA TokenCommitted ==
    ASSUME IInv, TableInv, NEW l \in Tokens, CommitToken(l)
    PROVE  TableInv' /\ Life!Next
<1>1. PICK n \in Tokens : n = writing[l]
    BY BoundAssumption DEF CommitToken, IInv, TypeOK, Tokens, None
<1>2. /\ login[n] = l /\ n \notin spent \cup {current[l]} /\ n # None
      /\ login' = login /\ closing' = closing /\ call' = call
    BY <1>1 DEF CommitToken, TableInv, RowsNamed
<1>3. /\ life' = [life EXCEPT ![l] = IF life[l] = "none" THEN "live" ELSE life[l]]
      /\ current' = [current EXCEPT ![l] = n]
      /\ spent' = spent \cup ({current[l]} \ {None})
      /\ writing' = [writing EXCEPT ![l] = None]
    BY <1>1 DEF CommitToken
<1>4. \A k \in Tokens \ {l} : /\ life'[k] = life[k] /\ current'[k] = current[k]
                              /\ writing'[k] = writing[k]
    BY <1>3 DEF IInv, TypeOK
<1>5. current'[l] = n /\ writing'[l] = None /\ life'[l] # "none"
    BY <1>3 DEF IInv, TypeOK
<1>6. \A k \in Tokens : current[k] # None => login[current[k]] = k
    BY DEF TableInv, RowsNamed
<1>7. \A m : m \in spent' => m \in spent \/ (m = current[l] /\ m # None)
    BY <1>3
<1>8. RowsNamed'
    <2> SUFFICES ASSUME NEW k \in Tokens
                 PROVE  /\ life'[k] = "none" <=> current'[k] = None
                        /\ current'[k] # None =>
                              login[current'[k]] = k /\ current'[k] \notin spent'
                        /\ writing'[k] # None => /\ login[writing'[k]] = k
                                                 /\ writing'[k] \notin spent' \cup {current'[k]}
        BY <1>2 DEF RowsNamed
    <2>1. CASE k = l
        BY <1>2, <1>5, <1>7, <2>1
    <2>2. CASE k # l
        BY <1>4, <1>6, <1>7, <2>2 DEF TableInv, RowsNamed
    <2> QED
        BY <2>1, <2>2
<1>9. spent' \subseteq Issued'
    <2>1. Issued' = Issued
        BY <1>2 DEF Issued
    <2>2. current[l] # None => current[l] \in Issued
        BY <1>6, BoundAssumption, SMTT(30) DEF IInv, TypeOK, Issued, Tokens, None
    <2> QED
        BY <1>3, <2>1, <2>2 DEF TableInv
<1>10. RevokedAreThere'
    <2>1. \A k \in Tokens : life[k] # "none" => life'[k] # "none"
        BY <1>4, <1>5
    <2>2. \A c \in Calls : call[c].pc = "authed" => login[call[c].carries] \in Tokens
        BY LoginsTyped DEF Begun
    <2>3. closing \subseteq Tokens
        BY DEF IInv, TypeOK
    <2> QED
        BY <1>2, <2>1, <2>2, <2>3 DEF TableInv, RevokedAreThere
<1>11. Life!Fresh(n)
    <2>1. ASSUME NEW k \in Tokens PROVE current[k] # n
        BY <1>2, <1>6
    <2> QED
        BY <1>2, <2>1 DEF Life!Fresh
<1>12. Life!Open(l, n) \/ Life!Rotate(l, n)
    <2>1. CASE life[l] = "none"
        <3>1. current[l] = None
            BY <2>1 DEF TableInv, RowsNamed
        <3>2. spent' = spent
            BY <1>3, <3>1
        <3> QED
            BY <1>3, <1>11, <2>1, <3>2 DEF Life!Open
    <2>2. CASE life[l] # "none"
        <3>1. current[l] # None
            BY <2>2 DEF TableInv, RowsNamed
        <3>2. spent' = spent \cup {current[l]}
            BY <1>3, <3>1
        <3>3. life' = life
            BY <1>3, <2>2 DEF IInv, TypeOK
        <3> QED
            BY <1>3, <1>11, <2>2, <3>2, <3>3 DEF Life!Rotate
    <2> QED
        BY <2>1, <2>2
<1> QED
    BY <1>8, <1>9, <1>10, <1>12 DEF TableInv, Life!Next

\* A commit revokes a session; it does not matter how late it is.
LEMMA RevocationCommitted ==
    ASSUME IInv, TableInv, NEW l \in Tokens, CommitRevoke(l)
    PROVE  TableInv' /\ Life!Next
<1>1. life[l] # "none"
    BY DEF CommitRevoke, TableInv, RevokedAreThere
<1>2. \A k \in Tokens : life'[k] = "none" <=> life[k] = "none"
    BY <1>1 DEF CommitRevoke, IInv, TypeOK
<1>3. RowsNamed'
    BY <1>2 DEF CommitRevoke, TableInv, RowsNamed
<1>4. spent' \subseteq Issued'
    BY DEF CommitRevoke, TableInv, Issued
<1>5. RevokedAreThere'
    <2>1. \A c \in Calls : call[c].pc = "authed" => login[call[c].carries] \in Tokens
        BY LoginsTyped DEF Begun
    <2>2. closing \subseteq Tokens
        BY DEF IInv, TypeOK
    <2> QED
        BY <1>2, <2>1, <2>2 DEF CommitRevoke, TableInv, RevokedAreThere
<1>6. Life!Close(l)
    BY <1>1 DEF CommitRevoke, Life!Close
<1> QED
    BY <1>3, <1>4, <1>5, <1>6 DEF TableInv, Life!Next

\* Every step is one of SessionLife's, or one that the table does not see.
LEMMA TableStep ==
    ASSUME IInv, TableInv, [Next]_vars
    PROVE  TableInv' /\ [Life!Next]_(Life!vars)
<1>1. ASSUME NEW l \in Tokens, Ends(l)
      PROVE  TableInv' /\ [Life!Next]_(Life!vars)
    <2>1. CASE Rollback(l)
        <3>1. \A k \in Tokens : writing'[k] \in {writing[k], None}
            BY <2>1 DEF Rollback, IInv, TypeOK
        <3> QED
            BY <2>1, <3>1, RowsKept DEF Rollback
    <2>2. CASE Lag(l)
        BY <2>2, RowsKept DEF Lag
    <2> QED
        BY <1>1, <2>1, <2>2, TokenCommitted, RevocationCommitted DEF Ends
<1>2. ASSUME NEW c \in Calls, ServeLogin(c)
      PROVE  TableInv' /\ UNCHANGED Life!vars
    <2>1. NextToken \in Tokens
        BY <1>2, NextTokenIsNew DEF ServeLogin, IInv, TokensInv
    <2>2. call'[c].pc = "ok" /\ \A d \in Calls \ {c} : call'[d] = call[d]
        BY <1>2, Answered DEF ServeLogin
    <2> QED
        BY <1>2, <2>1, <2>2, RowsIssued DEF ServeLogin
<1>3. ASSUME NEW c \in Calls, ServeRefresh(c)
      PROVE  TableInv' /\ UNCHANGED Life!vars
    <2>1. login[call[c].carries] \in Tokens
        BY <1>3, LoginsTyped DEF ServeRefresh, Begun
    <2>2. \A d \in Calls : call'[d].pc = "authed" => call'[d] = call[d]
        <3>1. CASE call[c].kind = "gone"
            <4>1. call'[c] = NoCall /\ \A d \in Calls \ {c} : call'[d] = call[d]
                BY <1>3, <3>1, Replaced DEF ServeRefresh, Answer
            <4> QED
                BY <4>1, NoCallFields
        <3>2. CASE call[c].kind # "gone"
            BY <1>3, <3>2, Answered DEF ServeRefresh
        <3> QED
            BY <3>1, <3>2
    <2> QED
        BY <1>3, <2>1, <2>2, RowsIssued DEF ServeRefresh
<1>4. ASSUME NEW c \in Calls, Serve(c)
      PROVE  TableInv' /\ UNCHANGED Life!vars
    <2>1. CASE Accepted(call[c].carries) /\ call[c].kind = "logout"
        <3>1. /\ call'[c] = [call[c] EXCEPT !.pc = "authed"]
              /\ \A d \in Calls \ {c} : call'[d] = call[d]
            BY <1>4, <2>1, Replaced DEF Serve
        <3>2. call'[c].carries = call[c].carries
            <4>1. call[c] \in Call
                BY CallsTyped
            <4> QED
                BY <3>1, <4>1 DEF Call
        <3>3. life[login[call'[c].carries]] # "none"
            BY <2>1, <3>2 DEF Accepted
        <3> QED
            BY <1>4, <3>1, <3>3, RowsKept DEF Serve, server, flushed
    <2>2. CASE ~(Accepted(call[c].carries) /\ call[c].kind = "logout")
        <3>1. PICK pc \in {"ok", "refused"} : Answer(c, pc, None)
            BY <1>4, <2>2 DEF Serve
        <3>2. call'[c].pc # "authed" /\ \A d \in Calls \ {c} : call'[d] = call[d]
            BY <1>4, <3>1, Answered DEF Serve
        <3> QED
            BY <1>4, <3>2, RowsKept DEF Serve, server, flushed
    <2> QED
        BY <2>1, <2>2
<1>5. ASSUME NEW c \in Calls, ServeLogout(c)
      PROVE  TableInv' /\ UNCHANGED Life!vars
    <2>1. life[login[call[c].carries]] # "none"
        BY <1>5 DEF ServeLogout, TableInv, RevokedAreThere
    <2>2. call'[c].pc # "authed" /\ \A d \in Calls \ {c} : call'[d] = call[d]
        <3>1. CASE call[c].kind = "gone"
            <4>1. call'[c] = NoCall /\ \A d \in Calls \ {c} : call'[d] = call[d]
                BY <1>5, <3>1, Replaced DEF ServeLogout, Answer
            <4> QED
                BY <4>1, NoCallFields
        <3>2. CASE call[c].kind # "gone"
            BY <1>5, <3>2, Answered DEF ServeLogout
        <3> QED
            BY <3>1, <3>2
    <2> QED
        BY <1>5, <2>1, <2>2, RowsKept DEF ServeLogout
<1>6. ASSUME NEW c \in Calls, ReadRefresh(c) \/ Abandon(c)
      PROVE  TableInv' /\ UNCHANGED Life!vars
    <2>1. CASE ReadRefresh(c)
        <3>1. /\ call'[c] = [call[c] EXCEPT !.pc = "reading"]
              /\ \A d \in Calls \ {c} : call'[d] = call[d]
            BY <2>1, Replaced DEF ReadRefresh
        <3>2. call'[c].pc = "reading"
            <4>1. call[c] \in Call
                BY CallsTyped
            <4> QED
                BY <3>1, <4>1 DEF Call
        <3> QED
            BY <2>1, <3>1, <3>2, RowsKept DEF ReadRefresh, server, flushed
    <2>2. CASE Abandon(c)
        <3>1. call'[c] = NoCall /\ \A d \in Calls \ {c} : call'[d] = call[d]
            BY <2>2, Replaced DEF Abandon
        <3> QED
            BY <2>2, <3>1, NoCallFields, RowsKept DEF Abandon, server, flushed
    <2> QED
        BY <1>6, <2>1, <2>2
<1>7. ASSUME NEW c \in Calls, NEW t \in Tabs, PageCall(c, t) \/ Login(c, t) \/ Restore(c, t)
      PROVE  TableInv' /\ UNCHANGED Life!vars
    <2>1. server' = server
        BY <1>7 DEF PageCall, Login, Restore, Send
    <2>2. call'[c].pc # "authed" /\ \A d \in Calls \ {c} : call'[d] = call[d]
        <3>1. CASE Restore(c, t)
            <4>1. Is(c, [NoCall EXCEPT !.kind = "restore", !.tab = t, !.pc = "refresh",
                                       !.carries = cookie])
                BY <3>1 DEF Restore
            <4>2. [NoCall EXCEPT !.kind = "restore", !.tab = t, !.pc = "refresh",
                                 !.carries = cookie].pc = "refresh"
                BY DEF NoCall
            <4> QED
                BY <4>1, <4>2, Replaced
        <3>2. CASE ~Restore(c, t)
            <4>1. PICK kind : Send(c, t, kind)
                BY <1>7, <3>2 DEF PageCall, Login
            <4> DEFINE rec == [NoCall EXCEPT !.kind = kind, !.tab = t,
                                   !.carries = IF kind = "login" THEN None ELSE bearer[t],
                                   !.captured = IF kind = "api" THEN session[t] ELSE None]
            <4>2. Is(c, rec)
                BY <4>1 DEF Send
            <4>3. rec.pc = "sent"
                BY DEF NoCall
            <4> QED
                BY <4>2, <4>3, Replaced
        <3> QED
            BY <3>1, <3>2
    <2> QED
        BY <2>1, <2>2, RowsKept DEF server, flushed
<1>8. ASSUME NEW c \in Calls, ReceiveLogin(c) \/ ReceiveLogout(c)
      PROVE  TableInv' /\ UNCHANGED Life!vars
    <2>1. server' = server /\ call'[c] = NoCall /\ \A d \in Calls \ {c} : call'[d] = call[d]
        BY <1>8, Replaced DEF ReceiveLogin, ReceiveLogout
    <2> QED
        BY <2>1, NoCallFields, RowsKept DEF server, flushed
<1>9. ASSUME NEW c \in Calls, ReceiveOk(c) \/ Lose(c)
      PROVE  TableInv' /\ UNCHANGED Life!vars
    <2>1. server' = server /\ call'[c] = Dropped(c) /\ \A d \in Calls \ {c} : call'[d] = call[d]
        BY <1>9, Replaced DEF ReceiveOk, Lose, End
    <2>2. GivenUp(c)
        BY <2>1, WhatIsGivenUp
    <2> QED
        BY <2>1, <2>2, NobodyLetIn, RowsKept DEF server, flushed
<1>10. ASSUME NEW c \in Calls, ReceiveRefused(c)
      PROVE  TableInv' /\ UNCHANGED Life!vars
    <2>1. server' = server /\ \A d \in Calls \ {c} : call'[d] = call[d]
        BY <1>10, Replaced DEF ReceiveRefused, End
    <2>2. call'[c].pc = "authed" => call[c].pc = "authed" /\ call'[c].carries = call[c].carries
        <3>1. CASE call'[c] = Dropped(c)
            BY <3>1, WhatIsGivenUp, NobodyLetIn
        <3>2. CASE call'[c] # Dropped(c)
            <4>1. \/ call'[c] = [call[c] EXCEPT !.pc = "waiting", !.carries = None]
                  \/ call'[c] = [call[c] EXCEPT !.pc = "refresh", !.carries = cookie]
                BY <1>10, <3>2, Replaced DEF ReceiveRefused, End
            <4>2. call[c] \in Call
                BY CallsTyped
            <4> QED
                BY <4>1, <4>2 DEF Call
        <3> QED
            BY <3>1, <3>2
    <2> QED
        BY <2>1, <2>2, RowsKept DEF server, flushed
<1>11. ASSUME NEW c \in Calls, ReceiveRestored(c)
      PROVE  TableInv' /\ UNCHANGED Life!vars
    <2>1. server' = server /\ \A d \in Calls \ {c} : call'[d] = call[d]
        BY <1>11, Replaced DEF ReceiveRestored
    <2>2. call'[c].pc = "sent"
        BY <1>11, CallsTyped DEF ReceiveRestored, Is, Call
    <2> QED
        BY <2>1, <2>2, RowsKept DEF server, flushed
\* A refresh that settles sends calls again, or gives them up.
<1>12. ASSUME NEW t, NEW ok \in BOOLEAN, NEW n, Settle(t, ok, n), server' = server
      PROVE  TableInv' /\ UNCHANGED Life!vars
    <2> SUFFICES ASSUME NEW d \in Calls, call'[d].pc = "authed"
                 PROVE  call[d].pc = "authed" /\ call'[d].carries = call[d].carries
        BY <1>12, RowsKept DEF server, flushed
    <2>1. call[d] \in Call
        BY CallsTyped
    <2>2. CASE d \in Sharing(t) /\ ok
        BY <1>12, <2>1, <2>2 DEF Settle, Call
    <2>3. CASE d \in Sharing(t) /\ ~ok
        <3>1. call'[d] = Dropped(d)
            BY <1>12, <2>3 DEF Settle
        <3> QED
            BY <3>1, WhatIsGivenUp, NobodyLetIn
    <2>4. CASE d \notin Sharing(t)
        BY <1>12, <2>4 DEF Settle
    <2> QED
        BY <2>2, <2>3, <2>4
<1>13. ASSUME NEW c \in Calls, ReceiveRotated(c)
      PROVE  TableInv' /\ UNCHANGED Life!vars
    <2>1. PICK ok \in BOOLEAN : ok = (session[call[c].tab] # None)
        OBVIOUS
    <2> QED
        BY <1>12, <1>13, <2>1 DEF ReceiveRotated, server
<1>14. ASSUME NEW c \in Calls, RefreshFailed(c)
      PROVE  TableInv' /\ UNCHANGED Life!vars
    <2>1. CASE call[c].kind = "restore"
        <3>1. server' = server /\ call'[c] = Dropped(c)
              /\ \A d \in Calls \ {c} : call'[d] = call[d]
            BY <1>14, <2>1, Replaced DEF RefreshFailed, End
        <3>2. GivenUp(c)
            BY <3>1, WhatIsGivenUp
        <3> QED
            BY <3>1, <3>2, NobodyLetIn, RowsKept DEF server, flushed
    <2>2. CASE call[c].kind # "restore"
        BY <1>12, <1>14, <2>2 DEF RefreshFailed, server
    <2> QED
        BY <2>1, <2>2
<1>15. ASSUME NEW t \in Tabs, LoadPage(t)
      PROVE  TableInv' /\ UNCHANGED Life!vars
    <2>1. server' = server /\ \A d \in Calls : call'[d] \in {call[d], Dropped(d)}
        BY <1>15 DEF LoadPage
    <2>2. \A d \in Calls : call'[d] = call[d] \/ GivenUp(d)
        BY <2>1, WhatIsGivenUp
    <2> QED
        BY <2>1, <2>2, NobodyLetIn, RowsKept DEF server, flushed
<1>16. ASSUME Expire \/ (\E l \in Tokens : RevokeElsewhere(l)) \/ UNCHANGED vars
      PROVE  TableInv' /\ UNCHANGED Life!vars
    BY <1>16, RowsKept DEF Expire, RevokeElsewhere, vars, server, flushed
<1> QED
    BY <1>1, <1>2, <1>3, <1>4, <1>5, <1>6, <1>7, <1>8, <1>9, <1>10, <1>11, <1>13, <1>14, <1>15,
       <1>16 DEF Next

LEMMA TableBegins ==
    ASSUME Init
    PROVE  TableInv
<1>1. \A c \in Calls : call[c].pc = "sent"
    BY NoCallFields DEF Init
<1>2. \A l \in Tokens : /\ life[l] = "none" <=> current[l] = None
                        /\ current[l] # None => l = 1 /\ current[l] = 1 /\ login[1] = 1
                        /\ writing[l] = None
    BY NoneIsNoToken DEF Init, None
<1> QED
    BY <1>1, <1>2 DEF Init, TableInv, RowsNamed, RevokedAreThere

\* The table that the browser finds, or leaves, is one of SessionLife.
LEMMA TableIsASessionTable ==
    ASSUME IInv, TableInv
    PROVE  Life!Inv
<1>1. \A l \in Tokens : current[l] \in Tokens \cup {None}
    BY BoundAssumption DEF IInv, TypeOK, Tokens, None
<1>2. current \in [Tokens -> Tokens \cup {None}]
    BY <1>1 DEF IInv, TypeOK
<1>3. Life!RowHasToken
    BY DEF TableInv, RowsNamed, Life!RowHasToken
<1>4. Life!TokensApart
    BY <1>1 DEF TableInv, RowsNamed, Life!TokensApart
<1> QED
    BY <1>2, <1>3, <1>4 DEF IInv, TypeOK, Life!Inv

\* The sign-in of a browser, with its tabs and calls hidden, is a run of the session table that
\* Sessions implements, from a table already in use: whatever tabs that share a cookie redeem
\* twice, give up or lose, however late or in vain a request commits after its answer, a commit
\* opens a session or gives it a token that none had before, and a revoked one stays revoked.
THEOREM SignInKeepsSessionLife == Spec => ImplementsSessionLife
<1>1. Init => IInv /\ TableInv
    BY SignInBegins, TableBegins
<1>2. IInv /\ TableInv /\ [Next]_vars => IInv' /\ TableInv' /\ [Life!Next]_(Life!vars)
    BY SignInStep, TableStep
<1>3. IInv /\ TableInv => Life!Inv
    BY TableIsASessionTable
<1> QED
    BY <1>1, <1>2, <1>3, PTL DEF Spec, ImplementsSessionLife, Life!ResumedSpec

-----------------------------------------------------------------------------
(* Realtime: the inductive invariant *)

\* A socket's name is free, or the socket belongs to a page and an instance. One that waits
\* to be accepted has got nothing.
SocketsPlaced ==
    \A s \in Sockets :
        /\ \/ sock[s] = FreeSocket
           \/ sock[s].server # "none" /\ sock[s].page \in Pages /\ sock[s].instance \in Instances
        /\ sock[s].server = "pending" => sock[s].got = <<>>

\* The tasks that run; one that winds down, or has ended, delivers nothing any more.
Alive(k) == task[k].pc \notin {"free", "cancelled"}

\* A running task, and a registered socket, belong to the instance.
InstancesHold ==
    /\ \A k \in Tasks : Alive(k) => task[k].instance \in Instances
    /\ \A i \in Instances : \A s \in connections[i] : sock[s].server = "up" /\ sock[s].instance = i

Increases(q) == \A m, n \in DOMAIN q : m < n => q[m] < q[n]
Below(q, n) == \A m \in DOMAIN q : q[m] < n
UpTo(q, n) == \A m \in DOMAIN q : q[m] <= n

\* A task delivers the head of its queue, to sockets of its own instance.
Delivering ==
    \A k \in Tasks :
        /\ task[k].pc = "delivering" => task[k].queue # <<>>
        /\ task[k].pc \in {"starting", "dead", "free"} => task[k].queue = <<>>
        /\ task[k].pc # "delivering" => task[k].todo = {}
        /\ \A s \in task[k].todo :
              sock[s].link => sock[s].server = "up" /\ sock[s].instance = task[k].instance

\* What has reached a socket lies below what its task has still to bring: the head of the
\* queue, which a socket that was served already has.
Queues ==
    /\ \A k \in Tasks : Increases(task[k].queue) /\ UpTo(task[k].queue, published)
    /\ \A s \in Sockets : UpTo(sock[s].got, published)
    /\ \A k \in Tasks : Alive(k) /\ task[k].queue # <<>> =>
          \A s \in connections[task[k].instance] \cup task[k].todo :
             IF task[k].pc = "delivering" /\ s \notin task[k].todo
             THEN UpTo(sock[s].got, Head(task[k].queue))
             ELSE Below(sock[s].got, Head(task[k].queue))

\* A page has at most one socket whose close event is still to come, and no timer meanwhile.
PageSockets ==
    /\ \A s \in Sockets : sock[s].client = "live" =>
        /\ \A u \in Sockets : sock[u].client = "live" /\ sock[u].page = sock[s].page => u = s
        /\ page[sock[s].page].timer = "none"
        /\ IF page[sock[s].page].mounted THEN page[sock[s].page].socket = s ELSE ~sock[s].link
    /\ \A p \in Pages : ~page[p].mounted => page[p].timer = "none"

Registry == RegistryMatches /\ InstancesHold
Streams == Delivering /\ Queues /\ InOrderAndOnce

RealtimeIInv == RealtimeTypeOK /\ SocketsPlaced /\ Registry /\ Streams /\ PageSockets

-----------------------------------------------------------------------------
(* Realtime: helpers *)

LEMMA FreeNames ==
    /\ FreeSocket \in Socket /\ FreeTask \in Task
    /\ FreeSocket.client = "none" /\ FreeSocket.server = "none" /\ FreeSocket.link = FALSE
    /\ FreeSocket.got = <<>> /\ FreeSocket.page = NoPage /\ FreeSocket.instance = NoInstance
    /\ FreeTask.pc = "free" /\ FreeTask.queue = <<>> /\ FreeTask.todo = {}
BY DEF FreeSocket, Socket, FreeTask, Task, Timers

LEMMA EmptyQueue == Increases(<<>>) /\ \A n : UpTo(<<>>, n) /\ Below(<<>>, n)
BY DEF Increases, UpTo, Below

LEMMA AppendedQueue ==
    ASSUME NEW q \in Seq(Events), NEW n \in Events, Increases(q), Below(q, n)
    PROVE  /\ Append(q, n) \in Seq(Events) /\ Increases(Append(q, n)) /\ UpTo(Append(q, n), n)
           /\ Append(q, n) # <<>>
           /\ Head(Append(q, n)) = IF q = <<>> THEN n ELSE Head(q)
<1>1. Append(q, n) \in Seq(Events) /\ Len(Append(q, n)) = Len(q) + 1
    OBVIOUS
<1>2. \A m \in 1 .. Len(q) + 1 : Append(q, n)[m] = IF m <= Len(q) THEN q[m] ELSE n
    OBVIOUS
<1>3. Append(q, n) # <<>> /\ Head(Append(q, n)) = IF q = <<>> THEN n ELSE Head(q)
    BY <1>1, <1>2
<1>4. \A m \in 1 .. Len(q) : q[m] \in Nat
    <2>1. Events \subseteq Nat
        BY RealtimeAssumption DEF Events
    <2>2. \A m \in 1 .. Len(q) : q[m] \in Events
        OBVIOUS
    <2> QED
        BY <2>1, <2>2
<1>5. Increases(Append(q, n)) /\ UpTo(Append(q, n), n)
    BY <1>1, <1>2, <1>4, RealtimeAssumption DEF Increases, UpTo, Below, Events
<1> QED
    BY <1>1, <1>3, <1>5

LEMMA ShortenedQueue ==
    ASSUME NEW q \in Seq(Events), q # <<>>, Increases(q), NEW n, UpTo(q, n)
    PROVE  /\ Head(q) \in Events /\ Head(q) <= n
           /\ Tail(q) \in Seq(Events) /\ Increases(Tail(q)) /\ UpTo(Tail(q), n)
           /\ Tail(q) # <<>> => Head(q) < Head(Tail(q))
<1>1. Len(q) \in Nat \ {0} /\ Head(q) = q[1] /\ DOMAIN q = 1 .. Len(q)
    OBVIOUS
<1>2. Head(q) \in Events /\ Head(q) <= n
    BY <1>1 DEF UpTo
<1>3. Tail(q) \in Seq(Events) /\ Len(Tail(q)) = Len(q) - 1 /\ DOMAIN Tail(q) = 1 .. Len(q) - 1
    BY <1>1
<1>4. \A m \in 1 .. Len(q) - 1 : Tail(q)[m] = q[m + 1] /\ m + 1 \in DOMAIN q
    BY <1>1, <1>3
<1>5. Increases(Tail(q)) /\ UpTo(Tail(q), n)
    BY <1>3, <1>4 DEF Increases, UpTo
<1>6. ASSUME Tail(q) # <<>> PROVE Head(q) < Head(Tail(q))
    <2>1. 1 \in DOMAIN Tail(q) /\ Head(Tail(q)) = Tail(q)[1]
        BY <1>3, <1>6
    <2>2. Head(Tail(q)) = q[2] /\ 2 \in DOMAIN q /\ 1 \in DOMAIN q
        BY <1>1, <1>3, <1>4, <2>1
    <2> QED
        BY <1>1, <2>2 DEF Increases
<1> QED
    BY <1>2, <1>3, <1>5, <1>6

LEMMA BelowAndUpTo ==
    ASSUME NEW q \in Seq(Events), NEW n \in Nat, NEW m \in Nat
    PROVE  /\ Below(q, n) => UpTo(q, n)
           /\ UpTo(q, n) /\ n < m => Below(q, m)
           /\ UpTo(q, n) /\ n <= m => UpTo(q, m)
<1>1. Events \subseteq Nat
    BY RealtimeAssumption DEF Events
<1>2. \A i \in DOMAIN q : q[i] \in Events
    OBVIOUS
<1>3. \A i \in DOMAIN q : q[i] \in Nat
    BY <1>1, <1>2
<1>4. Below(q, n) => UpTo(q, n)
    BY <1>3 DEF Below, UpTo
<1>5. UpTo(q, n) /\ n < m => Below(q, m)
    BY <1>3 DEF Below, UpTo
<1>6. UpTo(q, n) /\ n <= m => UpTo(q, m)
    BY <1>3 DEF UpTo
<1> QED
    BY <1>4, <1>5, <1>6

\* The ends of a socket as they change.
LEMMA SocketUpdated ==
    ASSUME NEW rec \in Socket, NEW c \in {"live", "closed"}, NEW v \in {"up", "gone"}
    PROVE  /\ [rec EXCEPT !.link = FALSE] \in Socket
           /\ [rec EXCEPT !.client = c] \in Socket
           /\ [rec EXCEPT !.server = v] \in Socket
           /\ [rec EXCEPT !.server = v, !.link = FALSE] \in Socket
BY DEF Socket

\* Forget takes the name back once both ends are done.
LEMMA Forgotten ==
    ASSUME NEW rec \in Socket
    PROVE  Forget(rec) \in Socket /\ Forget(rec) \in {rec, FreeSocket}
BY FreeNames DEF Forget

\* A step in which no page changes and no socket becomes live or linked.
LEMMA PagesKept ==
    ASSUME PageSockets, page' = page,
           \A s \in Sockets : sock'[s].client = "live" =>
               /\ sock[s].client = "live" /\ sock'[s].page = sock[s].page
               /\ sock'[s].link => sock[s].link
    PROVE  PageSockets'
BY DEF PageSockets

\* A step in which one page changes, which has no live socket or is unmounted and cut off.
LEMMA PageChanged ==
    ASSUME PageSockets, NEW p \in Pages,
           \A q \in Pages \ {p} : page'[q] = page[q],
           ~page'[p].mounted => page'[p].timer = "none",
           \A s \in Sockets : sock'[s].client = "live" =>
               /\ sock[s].client = "live" /\ sock'[s].page = sock[s].page
               /\ sock'[s].link => sock[s].link
               /\ \/ sock[s].page \in Pages \ {p}
                  \/ sock[s].page = p /\ ~page'[p].mounted /\ ~sock'[s].link
    PROVE  PageSockets'
<1>1. ASSUME NEW s \in Sockets, sock'[s].client = "live"
      PROVE  /\ \A u \in Sockets :
                    sock'[u].client = "live" /\ sock'[u].page = sock'[s].page => u = s
             /\ page'[sock'[s].page].timer = "none"
             /\ IF page'[sock'[s].page].mounted THEN page'[sock'[s].page].socket = s
                ELSE ~sock'[s].link
    <2>1. \A u \in Sockets : sock'[u].client = "live" /\ sock'[u].page = sock'[s].page => u = s
        BY <1>1 DEF PageSockets
    <2>2. CASE sock[s].page \in Pages \ {p}
        BY <1>1, <2>1, <2>2 DEF PageSockets
    <2>3. CASE sock[s].page = p /\ ~page'[p].mounted /\ ~sock'[s].link
        BY <1>1, <2>1, <2>3 DEF PageSockets
    <2> QED
        BY <1>1, <2>2, <2>3
<1>2. \A q \in Pages : ~page'[q].mounted => page'[q].timer = "none"
    BY DEF PageSockets
<1> QED
    BY <1>1, <1>2 DEF PageSockets

\* A step in which no socket connects or disconnects, and no task begins or ends.
LEMMA RegistryKept ==
    ASSUME Registry, connections' = connections, registered' = registered,
           registered \in [Instances -> Tasks \cup {NoTask}],
           \A k \in Tasks : /\ Alive(k)' <=> Alive(k)
                            /\ Alive(k) => task'[k].instance = task[k].instance,
           \A i \in Instances : \A s \in connections[i] :
               sock'[s].server = "up" /\ sock'[s].instance = sock[s].instance
    PROVE  Registry'
<1>1. InstancesHold'
    BY DEF Registry, InstancesHold
<1>2. RegistryMatches'
    BY DEF Registry, RegistryMatches, Alive
<1> QED
    BY <1>1, <1>2 DEF Registry

LEMMA BelowIsUpTo ==
    ASSUME NEW q \in Seq(Events), NEW r \in Seq(Events), r # <<>>, Below(q, Head(r))
    PROVE  UpTo(q, Head(r))
<1>1. Head(r) \in Events
    OBVIOUS
<1>2. \A m \in DOMAIN q : q[m] \in Events
    OBVIOUS
<1> QED
    BY <1>1, <1>2, RealtimeAssumption DEF Events, Below, UpTo

\* A step in which no socket gets an event and no queue gets longer: tasks go on, drop a
\* socket, are cancelled, or have nothing to deliver; sockets go, or come with nothing got.
LEMMA StreamsKept ==
    ASSUME RealtimeIInv, RealtimeTypeOK', published' = published,
           \A i \in Instances : \A s \in connections'[i] :
               s \in connections[i] \/ sock'[s].got = <<>>,
           \A k \in Tasks :
               \/ task'[k] = task[k]
               \/ task'[k].queue = <<>> /\ task'[k].todo = {} /\ task'[k].pc # "delivering"
               \/ /\ task'[k].pc = "cancelled" /\ task'[k].todo = {}
                  /\ task'[k].queue = task[k].queue
               \/ /\ task[k].pc = "delivering" /\ task'[k].pc = "delivering"
                  /\ task'[k].instance = task[k].instance /\ task'[k].queue = task[k].queue
                  /\ task'[k].todo \subseteq task[k].todo,
           \A s \in Sockets : sock'[s].got = sock[s].got \/ sock'[s].got = <<>>,
           \A k \in Tasks : \A s \in task[k].todo : sock'[s].link =>
               /\ sock[s].link
               /\ sock'[s].server = sock[s].server /\ sock'[s].instance = sock[s].instance
    PROVE  Streams'
<1>1. \A k \in Tasks : task[k].todo \subseteq Sockets /\ task'[k].todo \subseteq Sockets
    BY DEF RealtimeIInv, RealtimeTypeOK, Task
<1>2. Delivering'
    BY <1>1 DEF RealtimeIInv, Streams, Delivering
<1>3. InOrderAndOnce'
    BY EmptyQueue DEF RealtimeIInv, Streams, InOrderAndOnce, Increases
<1>4. Queues'
    <2>1. \A k \in Tasks : task'[k].queue = task[k].queue \/ task'[k].queue = <<>>
        OBVIOUS
    <2>2. \A k \in Tasks : Increases(task'[k].queue) /\ UpTo(task'[k].queue, published')
        BY <2>1, EmptyQueue DEF RealtimeIInv, Streams, Queues
    <2>3. \A s \in Sockets : UpTo(sock'[s].got, published')
        BY EmptyQueue DEF RealtimeIInv, Streams, Queues
    <2>4. ASSUME NEW k \in Tasks, Alive(k)', task'[k].queue # <<>>,
                 NEW s \in connections'[task'[k].instance] \cup task'[k].todo
          PROVE  IF task'[k].pc = "delivering" /\ s \notin task'[k].todo
                 THEN UpTo(sock'[s].got, Head(task'[k].queue))
                 ELSE Below(sock'[s].got, Head(task'[k].queue))
        <3>1. CASE sock'[s].got = <<>>
            BY <3>1, EmptyQueue
        <3>2. CASE sock'[s].got # <<>>
            <4>1. /\ task'[k].pc = task[k].pc /\ task'[k].instance = task[k].instance
                  /\ task'[k].queue = task[k].queue /\ task'[k].todo \subseteq task[k].todo
                  /\ Alive(k)
                BY <2>4 DEF Alive
            <4>2. task[k].instance \in Instances
                BY <4>1 DEF RealtimeIInv, Registry, InstancesHold
            <4>3. s \in connections[task[k].instance] \cup task[k].todo
                BY <2>4, <3>2, <4>1, <4>2
            <4>4. s \in Sockets
                BY <1>1, <4>2, <4>3 DEF RealtimeIInv, RealtimeTypeOK
            <4>5. sock'[s].got = sock[s].got
                BY <3>2, <4>4
            <4>6. IF task[k].pc = "delivering" /\ s \notin task[k].todo
                  THEN UpTo(sock[s].got, Head(task[k].queue))
                  ELSE Below(sock[s].got, Head(task[k].queue))
                BY <2>4, <4>1, <4>3 DEF RealtimeIInv, Streams, Queues
            <4>7. Below(sock[s].got, Head(task[k].queue))
                    => UpTo(sock[s].got, Head(task[k].queue))
                <5>1. sock[s].got \in Seq(Events) /\ task[k].queue \in Seq(Events)
                    BY <4>4 DEF RealtimeIInv, RealtimeTypeOK, Socket, Task
                <5> QED
                    BY <2>4, <4>1, <5>1, BelowIsUpTo
            <4> QED
                BY <4>1, <4>5, <4>6, <4>7
        <3> QED
            BY <3>1, <3>2
    <2> QED
        BY <2>2, <2>3, <2>4 DEF Queues
<1> QED
    BY <1>2, <1>3, <1>4 DEF Streams

-----------------------------------------------------------------------------
(* Realtime: the browser *)

LEMMA MountKeeps ==
    ASSUME RealtimeIInv, NEW p \in Pages, Mount(p)
    PROVE  RealtimeIInv'
<1>1. /\ page'[p].mounted = TRUE /\ page'[p] \in Page
      /\ \A u \in Pages \ {p} : page'[u] = page[u]
    BY DEF Mount, Connecting, RealtimeIInv, RealtimeTypeOK, Page, Timers
<1>2. RealtimeTypeOK'
    BY <1>1 DEF Mount, manager, RealtimeIInv, RealtimeTypeOK
<1>3. SocketsPlaced'
    BY DEF Mount, RealtimeIInv, SocketsPlaced
<1>4. Registry'
    BY RegistryKept DEF Mount, manager, RealtimeIInv, RealtimeTypeOK, Alive, Registry, InstancesHold
<1>5. Streams'
    BY <1>2, StreamsKept DEF Mount, manager
<1>6. PageSockets'
    <2>1. \A s \in Sockets : sock[s].client = "live" => sock[s].page \in Pages \ {p}
        BY FreeNames DEF Mount, RealtimeIInv, SocketsPlaced
    <2> QED
        BY <1>1, <2>1, PageChanged DEF Mount, RealtimeIInv
<1> QED
    BY <1>2, <1>3, <1>4, <1>5, <1>6 DEF RealtimeIInv

LEMMA UnmountKeeps ==
    ASSUME RealtimeIInv, NEW p \in Pages, Unmount(p)
    PROVE  RealtimeIInv'
<1>1. /\ page'[p] \in Page /\ page'[p].mounted = FALSE /\ page'[p].timer = "none"
      /\ \A u \in Pages \ {p} : page'[u] = page[u]
    BY DEF Unmount, Disconnected, RealtimeIInv, RealtimeTypeOK, Page, Timers
<1>2. \A s \in Sockets : /\ sock'[s] \in Socket
                         /\ sock'[s].page = sock[s].page /\ sock'[s].instance = sock[s].instance
                         /\ sock'[s].client = sock[s].client /\ sock'[s].server = sock[s].server
                         /\ sock'[s].got = sock[s].got /\ (sock'[s].link => sock[s].link)
                         /\ sock'[s] = sock[s] \/ page[p].socket = s
                         /\ page[p].socket = s => sock'[s].link = FALSE
    <2>1. CASE page[p].socket = NoSocket
        BY <2>1, RealtimeAssumption DEF Unmount, RealtimeIInv, RealtimeTypeOK
    <2>2. CASE page[p].socket \in Sockets
        <3>1. PICK v \in Sockets : v = page[p].socket
            BY <2>2
        <3>2. /\ sock'[v] = [sock[v] EXCEPT !.link = FALSE]
              /\ \A s \in Sockets \ {v} : sock'[s] = sock[s]
            BY <3>1, RealtimeAssumption DEF Unmount, RealtimeIInv, RealtimeTypeOK
        <3>3. \A s \in Sockets : sock[s] \in Socket
            BY DEF RealtimeIInv, RealtimeTypeOK
        <3>4. sock'[v] \in Socket
            BY <3>2, <3>3, SocketUpdated
        <3> QED
            BY <3>1, <3>2, <3>3, <3>4 DEF Socket
    <2>3. page[p].socket \in Sockets \cup {NoSocket}
        BY DEF RealtimeIInv, RealtimeTypeOK, Page
    <2> QED
        BY <2>1, <2>2, <2>3
<1>3. sock' \in [Sockets -> Socket]
    BY <1>2 DEF Unmount, RealtimeIInv, RealtimeTypeOK
<1>4. RealtimeTypeOK'
    BY <1>1, <1>3 DEF Unmount, manager, RealtimeIInv, RealtimeTypeOK
<1>5. SocketsPlaced'
    <2>1. \A s \in Sockets : sock[s] = FreeSocket => sock'[s] = sock[s]
        BY FreeNames, RealtimeAssumption DEF Unmount, FreeSocket, RealtimeIInv, RealtimeTypeOK
    <2> QED
        BY <1>2, <2>1 DEF RealtimeIInv, SocketsPlaced
<1>6. Registry'
    BY <1>2, RegistryKept
    DEF Unmount, manager, RealtimeIInv, RealtimeTypeOK, Alive, Registry, InstancesHold
<1>7. Streams'
    <2>1. \A k \in Tasks : task[k].todo \subseteq Sockets
        BY DEF RealtimeIInv, RealtimeTypeOK, Task
    <2> QED
        BY <1>2, <1>4, <2>1, StreamsKept DEF Unmount, manager
<1>8. PageSockets'
    <2>1. ASSUME NEW s \in Sockets, sock'[s].client = "live", sock'[s].page = p
          PROVE  ~sock'[s].link
        BY <1>2, <2>1 DEF Unmount, RealtimeIInv, PageSockets
    <2>2. \A s \in Sockets : sock[s].client = "live" => sock[s].page \in Pages
        BY FreeNames DEF RealtimeIInv, SocketsPlaced
    <2> QED
        BY <1>1, <1>2, <2>1, <2>2, PageChanged DEF RealtimeIInv
<1> QED
    BY <1>4, <1>5, <1>6, <1>7, <1>8 DEF RealtimeIInv

LEMMA OpenKeeps ==
    ASSUME RealtimeIInv, NEW p \in Pages, NEW s \in Sockets, NEW i \in Instances, Open(p, s, i)
    PROVE  RealtimeIInv'
<1>1. /\ page'[p] \in Page /\ page'[p].mounted = page[p].mounted
      /\ page'[p].timer = "none" /\ page'[p].socket = s
      /\ \A u \in Pages \ {p} : page'[u] = page[u]
    BY DEF Open, RealtimeIInv, RealtimeTypeOK, Page, Timers
<1>2. /\ sock'[s] \in Socket /\ sock'[s].page = p /\ sock'[s].instance = i
      /\ sock'[s].client = "live" /\ sock'[s].server = "pending" /\ sock'[s].got = <<>>
      /\ \A u \in Sockets \ {s} : sock'[u] = sock[u]
    BY DEF Open, RealtimeIInv, RealtimeTypeOK, FreeSocket, Socket
<1>3. RealtimeTypeOK'
    BY <1>1, <1>2 DEF Open, manager, RealtimeIInv, RealtimeTypeOK
<1>4. SocketsPlaced'
    BY <1>2 DEF RealtimeIInv, SocketsPlaced
<1>5. \A j \in Instances : s \notin connections[j]
    BY FreeNames DEF Open, RealtimeIInv, Registry, InstancesHold
<1>6. Registry'
    <2>1. \A j \in Instances : \A u \in connections[j] : sock'[u] = sock[u] /\ sock[u].server = "up"
        BY <1>2, <1>5 DEF RealtimeIInv, RealtimeTypeOK, Registry, InstancesHold
    <2> QED
        BY <2>1, RegistryKept DEF Open, manager, RealtimeIInv, RealtimeTypeOK, Alive
<1>7. Streams'
    <2>1. \A k \in Tasks : \A u \in task[k].todo : sock'[u] = sock[u]
        BY <1>2 DEF Open, RealtimeIInv, RealtimeTypeOK, Task
    <2>2. \A u \in Sockets : sock'[u].got = sock[u].got \/ sock'[u].got = <<>>
        BY <1>2
    <2> QED
        BY <1>3, <2>1, <2>2, StreamsKept DEF Open, manager
\* The timer was armed: no socket of the page is live, and the page is mounted.
<1>8. PageSockets'
    <2>1. page[p].mounted /\ \A u \in Sockets : sock[u].client = "live" => sock[u].page # p
        BY DEF Open, RealtimeIInv, PageSockets
    <2>2. \A u \in Sockets : sock[u].client = "live" => sock[u].page \in Pages
        BY FreeNames DEF RealtimeIInv, SocketsPlaced
    <2>3. \A u \in Sockets \ {s} : sock'[u].client = "live" =>
              /\ sock'[u] = sock[u] /\ sock[u].client = "live" /\ sock[u].page \in Pages \ {p}
              /\ page'[sock[u].page] = page[sock[u].page]
        BY <1>1, <1>2, <2>1, <2>2
    <2>4. ASSUME NEW u \in Sockets, sock'[u].client = "live"
          PROVE  \A v \in Sockets :
                     sock'[v].client = "live" /\ sock'[v].page = sock'[u].page => v = u
        BY <1>2, <2>3, <2>4 DEF RealtimeIInv, PageSockets
    <2>5. ASSUME NEW u \in Sockets, sock'[u].client = "live"
          PROVE  /\ page'[sock'[u].page].timer = "none"
                 /\ IF page'[sock'[u].page].mounted THEN page'[sock'[u].page].socket = u
                    ELSE ~sock'[u].link
        <3>1. CASE u = s
            BY <1>1, <1>2, <2>1, <3>1
        <3>2. CASE u # s
            BY <2>3, <2>5, <3>2 DEF RealtimeIInv, PageSockets
        <3> QED
            BY <3>1, <3>2
    <2>6. \A q \in Pages : ~page'[q].mounted => page'[q].timer = "none"
        BY <1>1 DEF RealtimeIInv, PageSockets
    <2> QED
        BY <2>4, <2>5, <2>6 DEF PageSockets
<1> QED
    BY <1>3, <1>4, <1>6, <1>7, <1>8 DEF RealtimeIInv

LEMMA ReconnectTimerKeeps ==
    ASSUME RealtimeIInv, NEW p \in Pages, ReconnectTimer(p)
    PROVE  RealtimeIInv'
<1>1. /\ page'[p] \in Page /\ page'[p].mounted = page[p].mounted
      /\ \A u \in Pages \ {p} : page'[u] = page[u]
    BY DEF ReconnectTimer, Connecting, RealtimeIInv, RealtimeTypeOK, Page, Timers
<1>2. RealtimeTypeOK'
    BY <1>1 DEF ReconnectTimer, manager, RealtimeIInv, RealtimeTypeOK
<1>3. SocketsPlaced'
    BY DEF ReconnectTimer, RealtimeIInv, SocketsPlaced
<1>4. Registry'
    BY RegistryKept
    DEF ReconnectTimer, manager, RealtimeIInv, RealtimeTypeOK, Alive, Registry, InstancesHold
<1>5. Streams'
    BY <1>2, StreamsKept DEF ReconnectTimer, manager
<1>6. PageSockets'
    <2>1. page[p].mounted /\ \A u \in Sockets : sock[u].client = "live" => sock[u].page # p
        BY DEF ReconnectTimer, RealtimeIInv, PageSockets
    <2>2. \A u \in Sockets : sock[u].client = "live" => sock[u].page \in Pages
        BY FreeNames DEF RealtimeIInv, SocketsPlaced
    <2> QED
        BY <1>1, <2>1, <2>2, PageChanged DEF ReconnectTimer, RealtimeIInv
<1> QED
    BY <1>2, <1>3, <1>4, <1>5, <1>6 DEF RealtimeIInv

LEMMA CloseEventKeeps ==
    ASSUME RealtimeIInv, NEW s \in Sockets, CloseEvent(s)
    PROVE  RealtimeIInv'
<1>1. PICK p \in Pages : p = sock[s].page
    BY FreeNames DEF CloseEvent, RealtimeIInv, SocketsPlaced
<1>2. /\ page'[p] \in Page /\ page'[p].mounted = page[p].mounted
      /\ ~page[p].mounted => page'[p].timer = page[p].timer
      /\ \A u \in Pages \ {p} : page'[u] = page[u]
    <2>1. PICK t \in Timers : /\ t = IF Reconnects(page[p]) THEN "reconnect" ELSE page[p].timer
                              /\ ~page[p].mounted => t = page[p].timer
        BY DEF Reconnects, RealtimeIInv, RealtimeTypeOK, Page, Timers
    <2>2. /\ page'[p] = [page[p] EXCEPT !.socket = NoSocket, !.timer = t]
          /\ \A u \in Pages \ {p} : page'[u] = page[u]
        <3>1. CASE Reconnects(page[p])
            BY <1>1, <2>1, <3>1 DEF CloseEvent, RealtimeIInv, RealtimeTypeOK
        <3>2. CASE ~Reconnects(page[p])
            BY <1>1, <2>1, <3>2 DEF CloseEvent, RealtimeIInv, RealtimeTypeOK, Page
        <3> QED
            BY <3>1, <3>2
    <2>3. page[p] \in Page
        BY DEF RealtimeIInv, RealtimeTypeOK
    <2> QED
        BY <2>1, <2>2, <2>3 DEF Page
<1>3. PICK rec \in Socket : /\ rec = [sock[s] EXCEPT !.client = "closed"]
                            /\ rec.page = sock[s].page /\ rec.instance = sock[s].instance
                            /\ rec.client = "closed" /\ rec.server = sock[s].server
                            /\ rec.link = sock[s].link /\ rec.got = sock[s].got
    <2>1. sock[s] \in Socket
        BY DEF RealtimeIInv, RealtimeTypeOK
    <2> DEFINE r == [sock[s] EXCEPT !.client = "closed"]
    <2>2. r \in Socket
        BY <2>1, SocketUpdated
    <2>3. /\ r.page = sock[s].page /\ r.instance = sock[s].instance
          /\ r.client = "closed" /\ r.server = sock[s].server
          /\ r.link = sock[s].link /\ r.got = sock[s].got
        BY <2>1 DEF Socket
    <2> QED
        BY <2>2, <2>3
<1>4. /\ sock'[s] = Forget(rec) /\ sock'[s] \in Socket /\ sock'[s] \in {rec, FreeSocket}
      /\ \A u \in Sockets \ {s} : sock'[u] = sock[u]
    BY <1>3, Forgotten DEF CloseEvent, RealtimeIInv, RealtimeTypeOK
<1>5. RealtimeTypeOK'
    BY <1>1, <1>2, <1>4 DEF CloseEvent, manager, RealtimeIInv, RealtimeTypeOK
<1>6. SocketsPlaced'
    <2>1. sock[s] # FreeSocket
        BY FreeNames DEF CloseEvent
    <2>2. FreeSocket.server # "pending"
        BY FreeNames
    <2>3. ASSUME NEW u \in Sockets
          PROVE  /\ \/ sock'[u] = FreeSocket
                    \/ /\ sock'[u].server # "none"
                       /\ sock'[u].page \in Pages /\ sock'[u].instance \in Instances
                 /\ sock'[u].server = "pending" => sock'[u].got = <<>>
        <3>1. CASE u # s \/ sock'[u] = FreeSocket
            BY <1>4, <2>2, <3>1 DEF RealtimeIInv, SocketsPlaced
        <3>2. CASE u = s /\ sock'[u] = rec
            BY <1>3, <2>1, <3>2 DEF RealtimeIInv, SocketsPlaced
        <3> QED
            BY <1>4, <3>1, <3>2
    <2> QED
        BY <2>3 DEF SocketsPlaced
<1>7. Registry'
    <2>1. \A i \in Instances : \A u \in connections[i] :
              sock'[u].server = "up" /\ sock'[u].instance = sock[u].instance
        <3>1. sock[s].server = "up" => sock'[s] = rec
            BY <1>3, <1>4 DEF Forget
        <3>2. \A i \in Instances : connections[i] \subseteq Sockets
            BY DEF RealtimeIInv, RealtimeTypeOK
        <3>3. \A i \in Instances : \A u \in connections[i] : sock[u].server = "up"
            BY DEF RealtimeIInv, Registry, InstancesHold
        <3>4. ASSUME NEW i \in Instances, NEW u \in connections[i]
              PROVE  sock'[u].server = "up" /\ sock'[u].instance = sock[u].instance
            <4>1. u \in Sockets /\ sock[u].server = "up"
                BY <3>2, <3>3
            <4>2. CASE u = s
                BY <1>3, <3>1, <4>1, <4>2
            <4>3. CASE u # s
                BY <1>4, <4>1, <4>3
            <4> QED
                BY <4>2, <4>3
        <3> QED
            BY <3>4
    <2> QED
        BY <2>1, RegistryKept DEF CloseEvent, manager, RealtimeIInv, RealtimeTypeOK, Alive
<1>8. Streams'
    <2>1. \A u \in Sockets : sock'[u].got = sock[u].got \/ sock'[u].got = <<>>
        BY <1>3, <1>4, FreeNames
    <2>2. \A k \in Tasks : \A u \in task[k].todo : sock'[u].link =>
              /\ sock[u].link
              /\ sock'[u].server = sock[u].server /\ sock'[u].instance = sock[u].instance
        <3>1. \A k \in Tasks : task[k].todo \subseteq Sockets
            BY DEF RealtimeIInv, RealtimeTypeOK, Task
        <3>2. ASSUME NEW u \in Sockets, sock'[u].link
              PROVE  /\ sock[u].link /\ sock'[u].server = sock[u].server
                     /\ sock'[u].instance = sock[u].instance
            <4>1. CASE u = s
                <5>1. sock'[s] = rec
                    BY <1>4, <3>2, <4>1, FreeNames
                <5> QED
                    BY <1>3, <3>2, <4>1, <5>1
            <4>2. CASE u # s
                BY <1>4, <3>2, <4>2
            <4> QED
                BY <4>1, <4>2
        <3> QED
            BY <3>1, <3>2
    <2> QED
        BY <1>5, <2>1, <2>2, StreamsKept DEF CloseEvent, manager
<1>9. PageSockets'
    <2>1. sock'[s].client # "live"
        BY <1>3, <1>4, FreeNames
    <2>2. \A u \in Sockets \ {s} : sock[u].client = "live" => sock[u].page \in Pages \ {p}
        BY <1>1, FreeNames DEF CloseEvent, RealtimeIInv, SocketsPlaced, PageSockets
    <2> QED
        BY <1>2, <1>4, <2>1, <2>2, PageChanged DEF RealtimeIInv, PageSockets
<1> QED
    BY <1>5, <1>6, <1>7, <1>8, <1>9 DEF RealtimeIInv

LEMMA TokenChangesKeeps ==
    ASSUME RealtimeIInv, TokenChanges
    PROVE  RealtimeIInv'
<1>1. RealtimeTypeOK'
    BY RealtimeAssumption DEF TokenChanges, Fault, manager, RealtimeIInv, RealtimeTypeOK
<1>2. SocketsPlaced'
    BY DEF TokenChanges, RealtimeIInv, SocketsPlaced
<1>3. Registry'
    BY RegistryKept
    DEF TokenChanges, manager, RealtimeIInv, RealtimeTypeOK, Alive, Registry, InstancesHold
<1>4. Streams'
    BY <1>1, StreamsKept DEF TokenChanges, manager
<1>5. PageSockets'
    BY PagesKept DEF TokenChanges, RealtimeIInv
<1> QED
    BY <1>1, <1>2, <1>3, <1>4, <1>5 DEF RealtimeIInv

LEMMA BreakKeeps ==
    ASSUME RealtimeIInv, NEW s \in Sockets, Break(s)
    PROVE  RealtimeIInv'
<1>1. \A u \in Sockets : /\ sock'[u] \in Socket
                         /\ sock'[u].page = sock[u].page /\ sock'[u].instance = sock[u].instance
                         /\ sock'[u].client = sock[u].client /\ sock'[u].server = sock[u].server
                         /\ sock'[u].got = sock[u].got /\ (sock'[u].link => sock[u].link)
                         /\ u # s => sock'[u] = sock[u]
    <2>1. \A u \in Sockets : sock[u] \in Socket
        BY DEF RealtimeIInv, RealtimeTypeOK
    <2>2. /\ sock'[s] = [sock[s] EXCEPT !.link = FALSE]
          /\ \A u \in Sockets \ {s} : sock'[u] = sock[u]
        BY SMTT(30) DEF Break, RealtimeIInv, RealtimeTypeOK
    <2>3. sock'[s] \in Socket
        BY <2>1, <2>2, SocketUpdated
    <2> QED
        BY <2>1, <2>2, <2>3 DEF Socket
<1>2. RealtimeTypeOK'
    <2>1. sock' \in [Sockets -> Socket]
        BY <1>1 DEF Break, RealtimeIInv, RealtimeTypeOK
    <2>2. faults' \in 0 .. MaxFaults
        BY RealtimeAssumption DEF Break, Fault, RealtimeIInv, RealtimeTypeOK
    <2> QED
        BY <2>1, <2>2 DEF Break, manager, RealtimeIInv, RealtimeTypeOK
<1>3. SocketsPlaced'
    BY <1>1, FreeNames DEF Break, RealtimeIInv, SocketsPlaced
<1>4. Registry'
    BY <1>1, RegistryKept
    DEF Break, manager, RealtimeIInv, RealtimeTypeOK, Alive, Registry, InstancesHold
<1>5. Streams'
    <2>1. \A k \in Tasks : task[k].todo \subseteq Sockets
        BY DEF RealtimeIInv, RealtimeTypeOK, Task
    <2> QED
        BY <1>1, <1>2, <2>1, StreamsKept DEF Break, manager
<1>6. PageSockets'
    BY <1>1, PagesKept DEF Break, RealtimeIInv
<1> QED
    BY <1>2, <1>3, <1>4, <1>5, <1>6 DEF RealtimeIInv

-----------------------------------------------------------------------------
(* Realtime: the server *)

\* The end of a socket at the server: it is rejected, or its endpoint ends.
LEMMA ServerEnds ==
    ASSUME RealtimeIInv, NEW s \in Sockets, sock[s].server \in {"pending", "up"},
           sock' = [sock EXCEPT ![s] = Forget([sock[s] EXCEPT !.server = "gone", !.link = FALSE])]
    PROVE  /\ sock' \in [Sockets -> Socket] /\ SocketsPlaced'
           /\ \A u \in Sockets \ {s} : sock'[u] = sock[u]
           /\ sock'[s].link = FALSE /\ sock'[s].got \in {sock[s].got, <<>>}
           /\ sock'[s].client = "live" => sock[s].client = "live" /\ sock'[s].page = sock[s].page
<1>1. sock[s] \in Socket
    BY SMTT(30) DEF RealtimeIInv, RealtimeTypeOK
<1> DEFINE r == [sock[s] EXCEPT !.server = "gone", !.link = FALSE]
<1>2. r \in Socket
    BY <1>1, SocketUpdated
<1>3. /\ r.page = sock[s].page /\ r.instance = sock[s].instance
      /\ r.client = sock[s].client /\ r.server = "gone"
      /\ r.link = FALSE /\ r.got = sock[s].got
    BY <1>1 DEF Socket
<1>4. /\ sock' = [sock EXCEPT ![s] = Forget(r)]
      /\ Forget(r) \in Socket /\ Forget(r) \in {r, FreeSocket}
    BY <1>2, Forgotten
<1> HIDE DEF r
<1>5. /\ sock' \in [Sockets -> Socket]
      /\ sock'[s] \in {r, FreeSocket} /\ \A u \in Sockets \ {s} : sock'[u] = sock[u]
    BY <1>4 DEF RealtimeIInv, RealtimeTypeOK
<1>6. SocketsPlaced'
    <2>1. sock[s] # FreeSocket /\ FreeSocket.server # "pending"
        BY FreeNames
    <2>2. ASSUME NEW u \in Sockets
          PROVE  /\ \/ sock'[u] = FreeSocket
                    \/ /\ sock'[u].server # "none"
                       /\ sock'[u].page \in Pages /\ sock'[u].instance \in Instances
                 /\ sock'[u].server = "pending" => sock'[u].got = <<>>
        <3>1. CASE u # s \/ sock'[u] = FreeSocket
            BY <1>5, <2>1, <3>1 DEF RealtimeIInv, SocketsPlaced
        <3>2. CASE u = s /\ sock'[u] = r
            BY <1>3, <2>1, <3>2 DEF RealtimeIInv, SocketsPlaced
        <3> QED
            BY <1>5, <3>1, <3>2
    <2> QED
        BY <2>2 DEF SocketsPlaced
<1> QED
    BY <1>3, <1>5, <1>6, FreeNames

LEMMA RejectKeeps ==
    ASSUME RealtimeIInv, NEW s \in Sockets, Reject(s)
    PROVE  RealtimeIInv'
<1>1. /\ sock' \in [Sockets -> Socket] /\ SocketsPlaced'
      /\ \A u \in Sockets \ {s} : sock'[u] = sock[u]
      /\ sock'[s].link = FALSE /\ sock'[s].got \in {sock[s].got, <<>>}
      /\ sock'[s].client = "live" => sock[s].client = "live" /\ sock'[s].page = sock[s].page
    BY ServerEnds DEF Reject
<1>2. RealtimeTypeOK'
    BY <1>1 DEF Reject, manager, RealtimeIInv, RealtimeTypeOK
<1>3. Registry'
    <2>1. \A i \in Instances : \A u \in connections[i] :
              u \in Sockets \ {s} /\ sock[u].server = "up"
        BY DEF Reject, RealtimeIInv, RealtimeTypeOK, Registry, InstancesHold
    <2> QED
        BY <1>1, <2>1, RegistryKept DEF Reject, manager, RealtimeIInv, RealtimeTypeOK, Alive
<1>4. Streams'
    <2>1. \A k \in Tasks : task[k].todo \subseteq Sockets
        BY DEF RealtimeIInv, RealtimeTypeOK, Task
    <2>2. \A k \in Tasks : \A u \in task[k].todo : sock'[u].link =>
              /\ sock[u].link
              /\ sock'[u].server = sock[u].server /\ sock'[u].instance = sock[u].instance
        BY <1>1, <2>1
    <2>3. \A u \in Sockets : sock'[u].got = sock[u].got \/ sock'[u].got = <<>>
        BY <1>1
    <2> QED
        BY <1>2, <2>2, <2>3, StreamsKept DEF Reject, manager
<1>5. PageSockets'
    BY <1>1, PagesKept DEF Reject, RealtimeIInv
<1> QED
    BY <1>1, <1>2, <1>3, <1>4, <1>5 DEF RealtimeIInv

\* What disconnect leaves: the registry still matches, for whatever tasks it finds.
LEMMA ReleaseKeepsRegistry ==
    ASSUME RealtimeIInv, NEW s \in Sockets, NEW tasks \in [Tasks -> Task],
           sock[s].instance \in Instances,
           \A k \in Tasks : tasks[k].pc = task[k].pc /\ tasks[k].instance = task[k].instance,
           Release(s, tasks),
           \A u \in Sockets \ {s} :
               sock'[u].server = sock[u].server /\ sock'[u].instance = sock[u].instance
    PROVE  /\ Registry'
           /\ connections' \in [Instances -> SUBSET Sockets]
           /\ registered' \in [Instances -> Tasks \cup {NoTask}]
           /\ task' \in [Tasks -> Task]
           /\ \A k \in Tasks : \/ task'[k] = tasks[k] \/ task'[k] = FreeTask
                               \/ /\ task'[k].pc = "cancelled" /\ task'[k].todo = {}
                                  /\ task'[k].queue = tasks[k].queue
           /\ \A i \in Instances : connections'[i] \subseteq connections[i]
           /\ s \notin connections'[sock[s].instance]
<1>1. PICK i \in Instances : i = sock[s].instance
    OBVIOUS
<1>2. /\ connections' \in [Instances -> SUBSET Sockets]
      /\ connections'[i] = connections[i] \ {s}
      /\ \A j \in Instances \ {i} : connections'[j] = connections[j]
    BY <1>1 DEF Release, RealtimeIInv, RealtimeTypeOK
<1>3. \A j \in Instances \ {i} : s \notin connections[j]
    BY <1>1 DEF RealtimeIInv, Registry, InstancesHold
<1>4. \A k \in Tasks : Alive(k) =>
          task[k].instance \in Instances /\ registered[task[k].instance] = k
    BY DEF RealtimeIInv, Registry, InstancesHold, RegistryMatches, Alive
<1>5. \A j \in Instances : \A u \in connections'[j] :
          sock'[u].server = "up" /\ sock'[u].instance = j
    <2>1. \A j \in Instances : \A u \in connections'[j] :
              u \in connections[j] /\ u \in Sockets \ {s}
        BY <1>2, <1>3 DEF RealtimeIInv, RealtimeTypeOK
    <2> QED
        BY <2>1 DEF RealtimeIInv, Registry, InstancesHold
<1>6. CASE connections[i] = {s}
    <2>1. registered[i] # NoTask /\ registered[i] \in Tasks
        <3>1. (registered[i] = NoTask) = (connections[i] = {})
            BY DEF RealtimeIInv, Registry, RegistryMatches
        <3>2. connections[i] # {}
            BY <1>6
        <3> QED
            BY <3>1, <3>2 DEF RealtimeIInv, RealtimeTypeOK
    <2>2. PICK q \in Tasks : q = registered[i]
        BY <2>1
    <2>3. /\ registered' \in [Instances -> Tasks \cup {NoTask}]
          /\ registered'[i] = NoTask /\ \A j \in Instances \ {i} : registered'[j] = registered[j]
        BY <1>1, <1>6 DEF Release, RealtimeIInv, RealtimeTypeOK
    <2>4. tasks[q] \in Task
        OBVIOUS
    <2>5. /\ task' \in [Tasks -> Task]
          /\ \A k \in Tasks \ {q} : task'[k] = tasks[k]
          /\ \/ task'[q] = FreeTask
             \/ /\ task'[q].pc = "cancelled" /\ task'[q].todo = {}
                /\ task'[q].queue = tasks[q].queue
        <3>1. task' = Cancelled(q, tasks)
            BY <1>1, <1>6, <2>2 DEF Release
        <3>2. q # NoTask
            BY <2>1, <2>2
        <3>3. CASE tasks[q].pc = "dead"
            BY <3>1, <3>2, <3>3, FreeNames DEF Cancelled
        <3>4. CASE tasks[q].pc # "dead"
            <4>1. task' = [tasks EXCEPT ![q] = [tasks[q] EXCEPT !.pc = "cancelled", !.todo = {}]]
                BY <3>1, <3>2, <3>4 DEF Cancelled
            <4>2. [tasks[q] EXCEPT !.pc = "cancelled", !.todo = {}] \in Task
                BY <2>4 DEF Task
            <4> QED
                BY <2>4, <4>1, <4>2 DEF Task
        <3> QED
            BY <3>3, <3>4
    <2>6. ~Alive(q)'
        BY <2>5, FreeNames DEF Alive
    <2>7. \A k \in Tasks \ {q} : /\ Alive(k)' <=> Alive(k)
                                 /\ task'[k].pc = task[k].pc /\ task'[k].instance = task[k].instance
        BY <2>5 DEF Alive
    <2>8. \A k \in Tasks : Alive(k)' => k # q /\ Alive(k) /\ task[k].instance # i
        BY <1>4, <2>2, <2>6, <2>7
    <2>9. InstancesHold'
        BY <1>4, <1>5, <2>7, <2>8 DEF InstancesHold
    <2>10. RegistryMatches'
        <3>1. \A k \in Tasks : Alive(k)' => registered'[task'[k].instance] = k
            BY <1>4, <2>3, <2>7, <2>8
        <3>2. ASSUME NEW j \in Instances
              PROVE  /\ (registered'[j] = NoTask) = (connections'[j] = {})
                     /\ registered'[j] # NoTask =>
                           /\ task'[registered'[j]].pc \notin {"free", "cancelled"}
                           /\ task'[registered'[j]].instance = j
            <4>1. CASE j = i
                BY <1>2, <1>6, <2>3, <4>1
            <4>2. CASE j # i
                <5>1. registered'[j] = registered[j] /\ connections'[j] = connections[j]
                    BY <1>2, <2>3, <4>2
                <5>2. registered[j] # NoTask =>
                          /\ registered[j] \in Tasks \ {q}
                          /\ task[registered[j]].pc \notin {"free", "cancelled"}
                          /\ task[registered[j]].instance = j
                    <6>1. registered[i] # NoTask => task[q].instance = i
                        BY <2>2 DEF RealtimeIInv, Registry, RegistryMatches
                    <6> QED
                        BY <2>1, <4>2, <6>1
                        DEF RealtimeIInv, RealtimeTypeOK, Registry, RegistryMatches
                <5>3. (registered[j] = NoTask) = (connections[j] = {})
                    BY DEF RealtimeIInv, Registry, RegistryMatches
                <5> QED
                    BY <2>7, <5>1, <5>2, <5>3
            <4> QED
                BY <4>1, <4>2
        <3> QED
            BY <3>1, <3>2 DEF RegistryMatches, Alive
    <2> QED
        BY <1>1, <1>2, <2>3, <2>5, <2>9, <2>10 DEF Registry
<1>7. CASE connections[i] # {s}
    <2>1. task' = tasks /\ registered' = registered
        BY <1>1, <1>7 DEF Release, RealtimeIInv, RealtimeTypeOK
    <2>2. \A k \in Tasks : (Alive(k)' <=> Alive(k)) /\ task'[k].instance = task[k].instance
        BY <2>1 DEF Alive
    <2>3. InstancesHold'
        BY <1>4, <1>5, <2>2 DEF InstancesHold
    <2>4. \A j \in Instances : (connections'[j] = {}) = (connections[j] = {})
        BY <1>2, <1>7
    <2>5. RegistryMatches'
        <3>1. \A j \in Instances : registered[j] # NoTask => registered[j] \in Tasks
            BY DEF RealtimeIInv, RealtimeTypeOK
        <3> QED
            BY <2>1, <2>4, <3>1 DEF RealtimeIInv, Registry, RegistryMatches
    <2> QED
        BY <1>1, <1>2, <2>1, <2>3, <2>5 DEF Registry, RealtimeIInv, RealtimeTypeOK
<1> QED
    BY <1>6, <1>7

LEMMA EndpointEndsKeeps ==
    ASSUME RealtimeIInv, NEW s \in Sockets, EndpointEnds(s)
    PROVE  RealtimeIInv'
<1>1. /\ sock' \in [Sockets -> Socket] /\ SocketsPlaced'
      /\ \A u \in Sockets \ {s} : sock'[u] = sock[u]
      /\ sock'[s].link = FALSE /\ sock'[s].got \in {sock[s].got, <<>>}
      /\ sock'[s].client = "live" => sock[s].client = "live" /\ sock'[s].page = sock[s].page
    BY ServerEnds DEF EndpointEnds
<1>2. sock[s].instance \in Instances /\ task \in [Tasks -> Task]
    BY FreeNames DEF EndpointEnds, RealtimeIInv, RealtimeTypeOK, SocketsPlaced
<1>3. /\ Registry'
      /\ connections' \in [Instances -> SUBSET Sockets]
      /\ registered' \in [Instances -> Tasks \cup {NoTask}]
      /\ task' \in [Tasks -> Task]
      /\ \A k \in Tasks : \/ task'[k] = task[k] \/ task'[k] = FreeTask
                          \/ /\ task'[k].pc = "cancelled" /\ task'[k].todo = {}
                             /\ task'[k].queue = task[k].queue
      /\ \A i \in Instances : connections'[i] \subseteq connections[i]
    BY <1>1, <1>2, ReleaseKeepsRegistry DEF EndpointEnds
<1>4. RealtimeTypeOK'
    <2>1. faults' \in 0 .. MaxFaults
        BY RealtimeAssumption DEF EndpointEnds, Fault, RealtimeIInv, RealtimeTypeOK
    <2> QED
        BY <1>1, <1>3, <2>1 DEF EndpointEnds, RealtimeIInv, RealtimeTypeOK
<1>5. Streams'
    <2>1. \A k \in Tasks : task[k].todo \subseteq Sockets
        BY DEF RealtimeIInv, RealtimeTypeOK, Task
    <2>2. \A k \in Tasks : \A u \in task[k].todo : sock'[u].link =>
              /\ sock[u].link
              /\ sock'[u].server = sock[u].server /\ sock'[u].instance = sock[u].instance
        BY <1>1, <2>1
    <2>3. \A u \in Sockets : sock'[u].got = sock[u].got \/ sock'[u].got = <<>>
        BY <1>1
    <2>4. \A k \in Tasks : task'[k] = FreeTask =>
              task'[k].queue = <<>> /\ task'[k].todo = {} /\ task'[k].pc # "delivering"
        BY FreeNames
    <2> QED
        BY <1>3, <1>4, <2>2, <2>3, <2>4, StreamsKept DEF EndpointEnds
<1>6. PageSockets'
    BY <1>1, PagesKept DEF EndpointEnds, RealtimeIInv
<1> QED
    BY <1>1, <1>3, <1>4, <1>5, <1>6 DEF RealtimeIInv

LEMMA AcceptKeeps ==
    ASSUME RealtimeIInv, NEW s \in Sockets, Accept(s)
    PROVE  RealtimeIInv'
<1>1. PICK i \in Instances : i = sock[s].instance
    BY FreeNames DEF Accept, RealtimeIInv, SocketsPlaced
<1>2. /\ sock'[s] \in Socket /\ sock'[s].page = sock[s].page /\ sock'[s].instance = i
      /\ sock'[s].client = sock[s].client /\ sock'[s].server = "up"
      /\ sock'[s].link = sock[s].link /\ sock'[s].got = <<>>
      /\ \A u \in Sockets \ {s} : sock'[u] = sock[u]
    <2>1. sock'[s] = [sock[s] EXCEPT !.server = "up"] /\ sock[s] \in Socket
        BY SMTT(30) DEF Accept, RealtimeIInv, RealtimeTypeOK
    <2>2. sock'[s] \in Socket
        BY <2>1, SocketUpdated
    <2>3. sock[s].got = <<>>
        BY DEF Accept, RealtimeIInv, SocketsPlaced
    <2> QED
        BY <1>1, <2>1, <2>2, <2>3 DEF Accept, Socket
<1>3. /\ connections'[i] = connections[i] \cup {s}
      /\ connections' \in [Instances -> SUBSET Sockets]
      /\ \A j \in Instances \ {i} : connections'[j] = connections[j]
    BY <1>1 DEF Accept, RealtimeIInv, RealtimeTypeOK
<1>4. \A k \in Tasks : Alive(k) =>
          task[k].instance \in Instances /\ registered[task[k].instance] = k
    BY DEF RealtimeIInv, Registry, InstancesHold, RegistryMatches, Alive
\* Either the subscriber is there, or a free task becomes it.
<1>5. \/ registered[i] # NoTask /\ task' = task /\ registered' = registered
      \/ /\ registered[i] = NoTask
         /\ \E k \in Tasks :
               /\ task[k].pc = "free" /\ registered' = [registered EXCEPT ![i] = k]
               /\ task' = [task EXCEPT ![k] = [FreeTask EXCEPT !.pc = "starting", !.instance = i]]
    BY <1>1 DEF Accept, Subscribe
<1>6. /\ registered' \in [Instances -> Tasks \cup {NoTask}] /\ task' \in [Tasks -> Task]
      /\ \A j \in Instances \ {i} : registered'[j] = registered[j]
      /\ \E q \in Tasks :
            /\ registered'[i] = q
            /\ task'[q].pc \notin {"free", "cancelled"} /\ task'[q].instance = i
            /\ \A k \in Tasks : \/ task'[k] = task[k]
                                \/ /\ ~Alive(k) /\ k = q
                                   /\ task'[k].queue = <<>> /\ task'[k].todo = {}
                                   /\ task'[k].pc = "starting"
    <2>1. CASE registered[i] # NoTask /\ task' = task /\ registered' = registered
        <3>1. registered[i] \in Tasks
            BY <2>1 DEF RealtimeIInv, RealtimeTypeOK
        <3>2. PICK q \in Tasks : q = registered[i]
            BY <3>1
        <3>3. task[q].pc \notin {"free", "cancelled"} /\ task[q].instance = i
            BY <2>1, <3>2 DEF RealtimeIInv, Registry, RegistryMatches
        <3> QED
            BY <2>1, <3>2, <3>3 DEF RealtimeIInv, RealtimeTypeOK
    <2>2. CASE registered[i] = NoTask
        <3>1. PICK k \in Tasks :
                  /\ task[k].pc = "free" /\ registered' = [registered EXCEPT ![i] = k]
                  /\ task' = [task EXCEPT ![k] = [FreeTask EXCEPT !.pc = "starting",
                                                                  !.instance = i]]
            BY <1>5, <2>2
        <3> DEFINE new == [FreeTask EXCEPT !.pc = "starting", !.instance = i]
        <3>2. /\ new \in Task /\ new.pc = "starting" /\ new.instance = i
              /\ new.queue = <<>> /\ new.todo = {}
            BY FreeNames DEF Task
        <3>3. task' = [task EXCEPT ![k] = new]
            BY <3>1
        <3> HIDE DEF new
        <3>4. /\ task' \in [Tasks -> Task] /\ task'[k] = new
              /\ \A q \in Tasks \ {k} : task'[q] = task[q]
            BY <3>2, <3>3 DEF RealtimeIInv, RealtimeTypeOK
        <3>5. /\ registered' \in [Instances -> Tasks \cup {NoTask}] /\ registered'[i] = k
              /\ \A j \in Instances \ {i} : registered'[j] = registered[j]
            BY <3>1 DEF RealtimeIInv, RealtimeTypeOK
        <3>6. ~Alive(k)
            BY <3>1 DEF Alive
        <3> QED
            BY <3>2, <3>4, <3>5, <3>6
    <2> QED
        BY <1>5, <2>1, <2>2
<1>7. RealtimeTypeOK'
    <2>1. sock' \in [Sockets -> Socket]
        BY <1>2 DEF Accept, RealtimeIInv, RealtimeTypeOK
    <2> QED
        BY <1>3, <1>6, <2>1 DEF Accept, RealtimeIInv, RealtimeTypeOK
<1>8. SocketsPlaced'
    BY <1>1, <1>2, FreeNames DEF Accept, RealtimeIInv, SocketsPlaced
<1>9. Registry'
    <2>0. PICK q \in Tasks :
              /\ registered'[i] = q
              /\ task'[q].pc \notin {"free", "cancelled"} /\ task'[q].instance = i
              /\ \A k \in Tasks : task'[k] = task[k] \/ (~Alive(k) /\ k = q)
        BY <1>6
    <2>1. \A k \in Tasks : Alive(k)' => \/ k = q /\ task'[k].instance = i
                                        \/ Alive(k) /\ task'[k] = task[k]
        BY <2>0 DEF Alive
    <2>2. InstancesHold'
        <3>1. \A k \in Tasks : Alive(k)' => task'[k].instance \in Instances
            BY <1>4, <2>1
        <3>2. \A j \in Instances : \A u \in connections'[j] :
                  sock'[u].server = "up" /\ sock'[u].instance = j
            <4>1. \A j \in Instances : \A u \in connections[j] :
                      u \in Sockets \ {s} /\ sock[u].server = "up" /\ sock[u].instance = j
                BY DEF Accept, RealtimeIInv, RealtimeTypeOK, Registry, InstancesHold
            <4> QED
                BY <1>2, <1>3, <4>1
        <3> QED
            BY <3>1, <3>2 DEF InstancesHold
    <2>3. RegistryMatches'
        <3>1. ASSUME NEW k \in Tasks, Alive(k)' PROVE registered'[task'[k].instance] = k
            <4>1. CASE k = q /\ task'[k].instance = i
                BY <2>0, <4>1
            <4>2. CASE Alive(k) /\ task'[k] = task[k] /\ task[k].instance # i
                BY <1>4, <1>6, <4>2
            <4>3. CASE Alive(k) /\ task'[k] = task[k] /\ task[k].instance = i
                <5>1. registered[i] = k /\ registered[i] # NoTask
                    BY <1>4, <4>3, RealtimeAssumption
                <5> QED
                    BY <1>5, <4>3, <5>1
            <4> QED
                BY <2>1, <3>1, <4>1, <4>2, <4>3
        <3>2. ASSUME NEW j \in Instances
              PROVE  /\ (registered'[j] = NoTask) = (connections'[j] = {})
                     /\ registered'[j] # NoTask =>
                           /\ task'[registered'[j]].pc \notin {"free", "cancelled"}
                           /\ task'[registered'[j]].instance = j
            <4>1. CASE j = i
                BY <1>3, <2>0, <4>1, RealtimeAssumption
            <4>2. CASE j # i
                <5>1. registered'[j] = registered[j] /\ connections'[j] = connections[j]
                    BY <1>3, <1>6, <4>2
                <5>2. registered[j] # NoTask =>
                          /\ registered[j] \in Tasks
                          /\ task[registered[j]].pc \notin {"free", "cancelled"}
                          /\ task[registered[j]].instance = j
                    BY DEF RealtimeIInv, RealtimeTypeOK, Registry, RegistryMatches
                <5>3. registered[j] # NoTask => task'[registered[j]] = task[registered[j]]
                    BY <2>0, <5>2 DEF Alive
                <5>4. (registered[j] = NoTask) = (connections[j] = {})
                    BY DEF RealtimeIInv, Registry, RegistryMatches
                <5> QED
                    BY <5>1, <5>2, <5>3, <5>4
            <4> QED
                BY <4>1, <4>2
        <3> QED
            BY <3>1, <3>2 DEF RegistryMatches, Alive
    <2> QED
        BY <2>2, <2>3 DEF Registry
<1>10. Streams'
    <2>1. \A k \in Tasks : \A u \in task[k].todo : sock'[u].link =>
              /\ sock[u].link
              /\ sock'[u].server = sock[u].server /\ sock'[u].instance = sock[u].instance
        <3>1. \A k \in Tasks : \A u \in task[k].todo :
                  u \in Sockets /\ (sock[u].link => sock[u].server = "up")
            BY DEF RealtimeIInv, RealtimeTypeOK, Task, Streams, Delivering
        <3> QED
            BY <1>2, <3>1 DEF Accept
    <2>2. \A u \in Sockets : sock'[u].got = sock[u].got \/ sock'[u].got = <<>>
        BY <1>2
    <2>3. \A j \in Instances : \A u \in connections'[j] :
              u \in connections[j] \/ sock'[u].got = <<>>
        BY <1>2, <1>3
    <2> QED
        BY <1>6, <1>7, <2>1, <2>2, <2>3, StreamsKept DEF Accept
<1>11. PageSockets'
    BY <1>2, PagesKept DEF Accept, RealtimeIInv
<1> QED
    BY <1>7, <1>8, <1>9, <1>10, <1>11 DEF RealtimeIInv

-----------------------------------------------------------------------------
(* Realtime: the subscriber tasks *)

\* A step of one task that goes on, or winds down, without a word to a socket.
LEMMA TaskMoves ==
    ASSUME RealtimeIInv, NEW k \in Tasks, NEW rec \in Task, task' = [task EXCEPT ![k] = rec],
           Alive(k) => rec.pc \notin {"free", "cancelled"} /\ rec.instance = task[k].instance,
           ~Alive(k) => rec.pc \in {"free", "cancelled"},
           faults' \in 0 .. MaxFaults,
           UNCHANGED <<token, page, sock, connections, registered, published>>
    PROVE  /\ RealtimeTypeOK' /\ SocketsPlaced' /\ Registry' /\ PageSockets'
           /\ task'[k] = rec /\ \A q \in Tasks \ {k} : task'[q] = task[q]
<1>1. task'[k] = rec /\ \A q \in Tasks \ {k} : task'[q] = task[q]
    BY DEF RealtimeIInv, RealtimeTypeOK
<1>2. RealtimeTypeOK'
    BY DEF RealtimeIInv, RealtimeTypeOK
<1>3. SocketsPlaced'
    BY DEF RealtimeIInv, SocketsPlaced
<1>4. Registry'
    BY <1>1, RegistryKept DEF RealtimeIInv, RealtimeTypeOK, Alive, Registry, InstancesHold
<1>5. PageSockets'
    BY PagesKept DEF RealtimeIInv
<1> QED
    BY <1>1, <1>2, <1>3, <1>4, <1>5

LEMMA TaskIdles ==
    ASSUME RealtimeIInv, NEW k \in Tasks, NEW rec \in Task, task' = [task EXCEPT ![k] = rec],
           rec.queue = <<>>, rec.todo = {}, rec.pc # "delivering",
           Alive(k) => rec.pc \notin {"free", "cancelled"} /\ rec.instance = task[k].instance,
           ~Alive(k) => rec.pc \in {"free", "cancelled"},
           faults' \in 0 .. MaxFaults,
           UNCHANGED <<token, page, sock, connections, registered, published>>
    PROVE  RealtimeIInv'
<1>1. /\ RealtimeTypeOK' /\ SocketsPlaced' /\ Registry' /\ PageSockets'
      /\ task'[k] = rec /\ \A q \in Tasks \ {k} : task'[q] = task[q]
    BY TaskMoves
<1>2. Streams'
    BY <1>1, StreamsKept
<1> QED
    BY <1>1, <1>2 DEF RealtimeIInv

LEMMA SubscribedKeeps ==
    ASSUME RealtimeIInv, NEW k \in Tasks, Subscribed(k)
    PROVE  RealtimeIInv'
<1> DEFINE rec == [task[k] EXCEPT !.pc = "listening"]
<1>1. task[k] \in Task /\ task[k].queue = <<>> /\ task[k].todo = {}
    BY DEF Subscribed, RealtimeIInv, RealtimeTypeOK, Streams, Delivering
<1>2. /\ rec \in Task /\ rec.queue = <<>> /\ rec.todo = {}
      /\ rec.pc = "listening" /\ rec.instance = task[k].instance
    BY <1>1 DEF Task
<1>3. Alive(k) /\ task' = [task EXCEPT ![k] = rec] /\ faults' \in 0 .. MaxFaults
    BY DEF Subscribed, Alive, RealtimeIInv, RealtimeTypeOK
<1> HIDE DEF rec
<1> QED
    BY <1>2, <1>3, TaskIdles DEF Subscribed

LEMMA WindDownKeeps ==
    ASSUME RealtimeIInv, NEW k \in Tasks, WindDown(k)
    PROVE  RealtimeIInv'
<1>1. ~Alive(k) /\ faults' \in 0 .. MaxFaults
    BY DEF WindDown, Alive, RealtimeIInv, RealtimeTypeOK
<1> QED
    BY <1>1, FreeNames, TaskIdles DEF WindDown

LEMMA RedisFailsKeeps ==
    ASSUME RealtimeIInv, NEW k \in Tasks, RedisFails(k)
    PROVE  RealtimeIInv'
<1> DEFINE rec == [FreeTask EXCEPT !.pc = "dead", !.instance = task[k].instance]
<1>1. task[k].instance \in Instances \cup {NoInstance}
    BY DEF RealtimeIInv, RealtimeTypeOK, Task
<1>2. /\ rec \in Task /\ rec.queue = <<>> /\ rec.todo = {}
      /\ rec.pc = "dead" /\ rec.instance = task[k].instance
    BY <1>1, FreeNames DEF Task
<1>3. Alive(k) /\ task' = [task EXCEPT ![k] = rec] /\ faults' \in 0 .. MaxFaults
    BY RealtimeAssumption DEF RedisFails, Fault, Alive, RealtimeIInv, RealtimeTypeOK
<1> HIDE DEF rec
<1> QED
    BY <1>2, <1>3, TaskIdles DEF RedisFails

LEMMA TakeKeeps ==
    ASSUME RealtimeIInv, NEW k \in Tasks, Take(k)
    PROVE  RealtimeIInv'
<1> DEFINE rec == [task[k] EXCEPT !.pc = "delivering", !.todo = connections[task[k].instance]]
<1>1. Alive(k) /\ task[k] \in Task /\ task[k].instance \in Instances /\ faults' \in 0 .. MaxFaults
    BY DEF Take, Alive, RealtimeIInv, RealtimeTypeOK, Registry, InstancesHold
<1>2. connections[task[k].instance] \subseteq Sockets
    BY <1>1 DEF RealtimeIInv, RealtimeTypeOK
<1>3. /\ rec \in Task /\ rec.pc = "delivering" /\ rec.instance = task[k].instance
      /\ rec.queue = task[k].queue /\ rec.todo = connections[task[k].instance]
    BY <1>1, <1>2 DEF Task
<1>4. task' = [task EXCEPT ![k] = rec]
    BY DEF Take
<1> HIDE DEF rec
<1>5. /\ RealtimeTypeOK' /\ SocketsPlaced' /\ Registry' /\ PageSockets'
      /\ task'[k] = rec /\ \A q \in Tasks \ {k} : task'[q] = task[q]
    BY <1>1, <1>3, <1>4, TaskMoves DEF Take
<1>6. Delivering'
    <2>1. \A s \in rec.todo : sock[s].server = "up" /\ sock[s].instance = rec.instance
        BY <1>1, <1>3 DEF RealtimeIInv, Registry, InstancesHold
    <2> QED
        BY <1>3, <1>5, <2>1 DEF Take, RealtimeIInv, Streams, Delivering
<1>7. Queues'
    <2>1. \A s \in rec.todo : Below(sock[s].got, Head(rec.queue))
        BY <1>1, <1>3 DEF Take, RealtimeIInv, Streams, Queues
    <2> QED
        BY <1>3, <1>5, <2>1 DEF Take, RealtimeIInv, Streams, Queues, Alive
<1>8. InOrderAndOnce'
    BY DEF Take, RealtimeIInv, Streams, InOrderAndOnce
<1> QED
    BY <1>5, <1>6, <1>7, <1>8 DEF RealtimeIInv, Streams

\* Every socket of the instance has the event that is done; the next one is a later one.
LEMMA DeliveredKeeps ==
    ASSUME RealtimeIInv, NEW k \in Tasks, Delivered(k)
    PROVE  RealtimeIInv'
<1> DEFINE q == task[k].queue
           rec == [task[k] EXCEPT !.pc = "listening", !.queue = Tail(q)]
<1>1. /\ Alive(k) /\ task[k] \in Task /\ task[k].instance \in Instances
      /\ faults' \in 0 .. MaxFaults
      /\ q \in Seq(Events) /\ q # <<>> /\ Increases(q) /\ UpTo(q, published) /\ task[k].todo = {}
    BY DEF Delivered, Alive, RealtimeIInv, RealtimeTypeOK, Task, Registry, InstancesHold, Streams,
           Delivering, Queues
<1>2. /\ Head(q) \in Events
      /\ Tail(q) \in Seq(Events) /\ Increases(Tail(q)) /\ UpTo(Tail(q), published)
      /\ Tail(q) # <<>> => Head(q) < Head(Tail(q)) /\ Head(Tail(q)) \in Events
    BY <1>1, ShortenedQueue
<1>3. /\ rec \in Task /\ rec.pc = "listening" /\ rec.instance = task[k].instance
      /\ rec.queue = Tail(q) /\ rec.todo = {}
    BY <1>1, <1>2 DEF Task
<1>4. task' = [task EXCEPT ![k] = rec]
    BY DEF Delivered, RealtimeIInv, RealtimeTypeOK, Task
<1>5. \A s \in connections[task[k].instance] : s \in Sockets /\ UpTo(sock[s].got, Head(q))
    BY <1>1 DEF Delivered, RealtimeIInv, RealtimeTypeOK, Streams, Queues
<1>6. \A s \in Sockets : sock[s].got \in Seq(Events)
    BY DEF RealtimeIInv, RealtimeTypeOK, Socket
<1> HIDE DEF rec
<1>7. /\ RealtimeTypeOK' /\ SocketsPlaced' /\ Registry' /\ PageSockets'
      /\ task'[k] = rec /\ \A l \in Tasks \ {k} : task'[l] = task[l]
    BY <1>1, <1>3, <1>4, TaskMoves DEF Delivered
<1>8. Delivering'
    <2>1. sock' = sock /\ rec.pc = "listening" /\ rec.todo = {}
        BY <1>3 DEF Delivered
    <2> HIDE DEF q
    <2> QED
        BY <1>7, <2>1 DEF RealtimeIInv, Streams, Delivering
<1>9. Queues'
    <2>1. \A s \in connections[task[k].instance] :
              Tail(q) # <<>> => Below(sock[s].got, Head(Tail(q)))
        <3>1. Events \subseteq Nat
            BY RealtimeAssumption DEF Events
        <3>2. Tail(q) # <<>> => Head(q) \in Nat /\ Head(Tail(q)) \in Nat
            BY <1>2, <3>1
        <3> HIDE DEF q
        <3> QED
            BY <1>2, <1>5, <1>6, <3>2, BelowAndUpTo
    <2> HIDE DEF q
    <2>2. UNCHANGED <<sock, connections, published>> /\ Queues
        BY DEF Delivered, RealtimeIInv, Streams
    <2>3. \A l \in Tasks : Increases(task'[l].queue) /\ UpTo(task'[l].queue, published)
        BY <1>2, <1>3, <1>7, <2>2 DEF Queues
    <2>4. ASSUME NEW l \in Tasks, Alive(l)', task'[l].queue # <<>>,
                 NEW s \in connections[task'[l].instance] \cup task'[l].todo
          PROVE  IF task'[l].pc = "delivering" /\ s \notin task'[l].todo
                 THEN UpTo(sock[s].got, Head(task'[l].queue))
                 ELSE Below(sock[s].got, Head(task'[l].queue))
        <3>1. CASE l = k
            <4>1. /\ task'[l].pc # "delivering" /\ task'[l].queue = Tail(q)
                  /\ s \in connections[task[k].instance]
                BY <1>3, <1>7, <2>4, <3>1
            <4> QED
                BY <2>1, <2>4, <4>1
        <3>2. CASE l # k
            <4>1. task'[l] = task[l]
                BY <1>7, <3>2
            <4>2. Alive(l)
                BY <2>4, <4>1 DEF Alive
            <4> QED
                BY <2>2, <2>4, <4>1, <4>2 DEF Queues
        <3> QED
            BY <3>1, <3>2
    <2> QED
        BY <2>2, <2>3, <2>4 DEF Queues, UpTo
<1>10. InOrderAndOnce'
    BY DEF Delivered, RealtimeIInv, Streams, InOrderAndOnce
<1> QED
    BY <1>7, <1>8, <1>9, <1>10 DEF RealtimeIInv, Streams

LEMMA PublishKeeps ==
    ASSUME RealtimeIInv, Publish
    PROVE  RealtimeIInv'
<1> DEFINE n == published + 1
<1>1. /\ n \in Events /\ n \in 0 .. MaxPublished /\ published \in Nat
      /\ published < n /\ published' = n
    BY RealtimeAssumption DEF Publish, RealtimeIInv, RealtimeTypeOK, Events
<1> HIDE DEF n
<1>2. \A k \in Tasks : task[k] \in Task /\ task[k].queue \in Seq(Events)
    BY DEF RealtimeIInv, RealtimeTypeOK, Task
<1>3. \A s \in Sockets : sock[s].got \in Seq(Events)
    BY DEF RealtimeIInv, RealtimeTypeOK, Socket
\* The tasks that are subscribed get the event, at the end of their queue.
<1>4. ASSUME NEW k \in Tasks, task[k].pc \in {"listening", "delivering"}
      PROVE  /\ task'[k] \in Task /\ task'[k].pc = task[k].pc
             /\ task'[k].instance = task[k].instance /\ task'[k].todo = task[k].todo
             /\ task'[k].queue # <<>>
             /\ Increases(task'[k].queue) /\ UpTo(task'[k].queue, n)
             /\ Head(task'[k].queue) = IF task[k].queue = <<>> THEN n ELSE Head(task[k].queue)
    <2> DEFINE q == task[k].queue
               r == [task[k] EXCEPT !.queue = Append(q, n)]
    <2>1. task'[k] = r
        BY <1>4 DEF Publish, n
    <2>2. Increases(q) /\ Below(q, n)
        BY <1>1, <1>2, BelowAndUpTo DEF RealtimeIInv, Streams, Queues
    <2>3. /\ Append(q, n) \in Seq(Events) /\ Append(q, n) # <<>>
          /\ Increases(Append(q, n)) /\ UpTo(Append(q, n), n)
          /\ Head(Append(q, n)) = IF q = <<>> THEN n ELSE Head(q)
        BY <1>1, <1>2, <2>2, AppendedQueue
    <2>4. /\ r \in Task /\ r.pc = task[k].pc /\ r.instance = task[k].instance
          /\ r.todo = task[k].todo /\ r.queue = Append(q, n)
        BY <1>2, <2>3 DEF Task
    <2> HIDE DEF r
    <2> QED
        BY <2>1, <2>3, <2>4
<1>5. \A k \in Tasks : task[k].pc \notin {"listening", "delivering"} => task'[k] = task[k]
    BY DEF Publish
<1>6. RealtimeTypeOK'
    <2>1. task' \in [Tasks -> Task]
        <3>1. \A k \in Tasks : task'[k] \in Task
            BY <1>2, <1>4, <1>5
        <3>2. task' = [k \in Tasks |-> task'[k]]
            BY DEF Publish
        <3> QED
            BY <3>1, <3>2
    <2> QED
        BY <1>1, <2>1 DEF Publish, RealtimeIInv, RealtimeTypeOK
<1>7. SocketsPlaced'
    BY DEF Publish, RealtimeIInv, SocketsPlaced
<1>8. Registry'
    <2>1. \A k \in Tasks : task'[k].pc = task[k].pc /\ task'[k].instance = task[k].instance
        BY <1>4, <1>5
    <2> QED
        BY <2>1, RegistryKept
        DEF Publish, RealtimeIInv, RealtimeTypeOK, Alive, Registry, InstancesHold
<1>9. PageSockets'
    BY PagesKept DEF Publish, RealtimeIInv
<1>10. Delivering'
    BY <1>4, <1>5 DEF Publish, RealtimeIInv, Streams, Delivering
<1>11. InOrderAndOnce'
    BY DEF Publish, RealtimeIInv, Streams, InOrderAndOnce
<1>12. Queues'
    <2>1. ASSUME NEW k \in Tasks PROVE Increases(task'[k].queue) /\ UpTo(task'[k].queue, published')
        BY <1>1, <1>2, <1>4, <1>5, BelowAndUpTo DEF RealtimeIInv, Streams, Queues
    <2>2. \A s \in Sockets : UpTo(sock'[s].got, published') /\ Below(sock[s].got, n)
        BY <1>1, <1>3, BelowAndUpTo DEF Publish, RealtimeIInv, Streams, Queues
    <2>3. ASSUME NEW k \in Tasks, Alive(k)', task'[k].queue # <<>>,
                 NEW s \in connections'[task'[k].instance] \cup task'[k].todo
          PROVE  IF task'[k].pc = "delivering" /\ s \notin task'[k].todo
                 THEN UpTo(sock'[s].got, Head(task'[k].queue))
                 ELSE Below(sock'[s].got, Head(task'[k].queue))
        <3>1. Alive(k) /\ task[k].pc \in {"listening", "delivering"}
            <4>1. Alive(k)
                BY <1>4, <1>5, <2>3 DEF Alive
            <4>2. task[k].pc \in {"starting", "dead", "free"} => task[k].queue = <<>>
                BY DEF RealtimeIInv, Streams, Delivering
            <4> QED
                BY <1>2, <1>5, <2>3, <4>1, <4>2 DEF Alive, Task
        <3>2. task[k].instance \in Instances
            BY <3>1 DEF RealtimeIInv, Registry, InstancesHold
        <3>3. s \in connections[task[k].instance] \cup task[k].todo /\ s \in Sockets /\ sock' = sock
            BY <1>2, <1>4, <2>3, <3>1, <3>2 DEF Publish, RealtimeIInv, RealtimeTypeOK, Task
        <3>4. CASE task[k].queue = <<>>
            BY <1>4, <2>2, <3>1, <3>3, <3>4 DEF RealtimeIInv, Streams, Delivering
        <3>5. CASE task[k].queue # <<>>
            BY <1>4, <3>1, <3>3, <3>5 DEF RealtimeIInv, Streams, Queues
        <3> QED
            BY <3>4, <3>5
    <2> QED
        BY <2>1, <2>2, <2>3 DEF Queues
<1> QED
    BY <1>6, <1>7, <1>8, <1>9, <1>10, <1>11, <1>12 DEF RealtimeIInv, Streams

\* The task as it goes on after a socket, and whose socket that can be.
LEMMA DeliverStarts ==
    ASSUME RealtimeIInv, NEW k \in Tasks, NEW s \in Sockets,
           task[k].pc = "delivering", s \in task[k].todo
    PROVE  LET rec == [task[k] EXCEPT !.todo = @ \ {s}] IN
           /\ Alive(k) /\ task[k].instance \in Instances /\ registered[task[k].instance] = k
           /\ task[k].queue # <<>>
           /\ [task EXCEPT ![k].todo = @ \ {s}] = [task EXCEPT ![k] = rec]
           /\ rec \in Task /\ rec.pc = "delivering" /\ rec.instance = task[k].instance
           /\ rec.queue = task[k].queue /\ rec.todo = task[k].todo \ {s}
<1>1. task[k] \in Task
    BY DEF RealtimeIInv, RealtimeTypeOK
<1>2. Alive(k) /\ task[k].instance \in Instances /\ task[k].queue # <<>>
    BY DEF Alive, RealtimeIInv, Registry, InstancesHold, Streams, Delivering
<1>3. registered[task[k].instance] = k
    BY DEF RealtimeIInv, Registry, RegistryMatches
<1> QED
    BY <1>1, <1>2, <1>3 DEF Task, RealtimeIInv, RealtimeTypeOK

LEMMA DeliverSends ==
    ASSUME RealtimeIInv, NEW k \in Tasks, NEW s \in Sockets,
           task[k].pc = "delivering", s \in task[k].todo, sock[s].link,
           sock' = [sock EXCEPT ![s].got = Append(@, Head(task[k].queue))],
           task' = [task EXCEPT ![k].todo = @ \ {s}],
           UNCHANGED <<token, page, connections, registered, published, faults>>
    PROVE  RealtimeIInv'
<1> DEFINE rec == [task[k] EXCEPT !.todo = @ \ {s}]
           n == Head(task[k].queue)
           sent == [sock[s] EXCEPT !.got = Append(@, n)]
<1>1. /\ Alive(k) /\ task[k].instance \in Instances /\ registered[task[k].instance] = k
      /\ task[k].queue # <<>> /\ task' = [task EXCEPT ![k] = rec]
      /\ rec \in Task /\ rec.pc = "delivering" /\ rec.instance = task[k].instance
      /\ rec.queue = task[k].queue /\ rec.todo = task[k].todo \ {s}
    BY DeliverStarts
<1>2. n \in Events /\ n <= published /\ n \in Nat /\ published \in Nat
    <2>1. /\ task[k].queue \in Seq(Events)
          /\ Increases(task[k].queue) /\ UpTo(task[k].queue, published)
        BY DEF RealtimeIInv, RealtimeTypeOK, Task, Streams, Queues
    <2>2. n \in Events /\ n <= published
        BY <1>1, <2>1, ShortenedQueue
    <2> QED
        BY <2>2, RealtimeAssumption DEF Events, RealtimeIInv, RealtimeTypeOK
\* The socket has got less than that, and gets it from no other task.
<1>3. /\ sock[s] \in Socket /\ sock[s].got \in Seq(Events)
      /\ Increases(sock[s].got) /\ Below(sock[s].got, n)
      /\ sock[s].server = "up" /\ sock[s].instance = task[k].instance
    BY <1>1
    DEF RealtimeIInv, RealtimeTypeOK, Socket, Streams, Delivering, Queues, InOrderAndOnce, Increases
<1>4. ASSUME NEW l \in Tasks, Alive(l), s \in connections[task[l].instance] \cup task[l].todo
      PROVE  l = k
    <2>1. task[l].instance \in Instances /\ registered[task[l].instance] = l
        BY <1>4 DEF RealtimeIInv, Registry, InstancesHold, RegistryMatches, Alive
    <2>2. sock[s].instance = task[l].instance
        BY <1>4, <2>1 DEF RealtimeIInv, Registry, InstancesHold, Streams, Delivering
    <2> QED
        BY <1>1, <1>3, <2>1, <2>2
<1>5. /\ Append(sock[s].got, n) \in Seq(Events) /\ Increases(Append(sock[s].got, n))
      /\ UpTo(Append(sock[s].got, n), n) /\ UpTo(Append(sock[s].got, n), published)
    <2> HIDE DEF n
    <2>1. /\ Append(sock[s].got, n) \in Seq(Events) /\ Increases(Append(sock[s].got, n))
          /\ UpTo(Append(sock[s].got, n), n)
        BY <1>2, <1>3, AppendedQueue
    <2> QED
        BY <1>2, <2>1, BelowAndUpTo
<1>6. /\ sent \in Socket /\ sent.page = sock[s].page /\ sent.instance = sock[s].instance
      /\ sent.client = sock[s].client /\ sent.server = sock[s].server
      /\ sent.link = sock[s].link /\ sent.got = Append(sock[s].got, n)
    BY <1>3, <1>5 DEF Socket
<1>7. sock' = [sock EXCEPT ![s] = sent]
    BY <1>3 DEF RealtimeIInv, RealtimeTypeOK, Socket
<1> HIDE DEF rec, n, sent
<1>8. /\ sock' \in [Sockets -> Socket] /\ sock'[s] = sent
      /\ \A u \in Sockets \ {s} : sock'[u] = sock[u]
      /\ task' \in [Tasks -> Task] /\ task'[k] = rec
      /\ \A l \in Tasks \ {k} : task'[l] = task[l]
    <2>1. /\ sock' \in [Sockets -> Socket] /\ sock'[s] = sent
          /\ \A u \in Sockets \ {s} : sock'[u] = sock[u]
        <3>1. sock \in [Sockets -> Socket]
            BY DEF RealtimeIInv, RealtimeTypeOK
        <3> QED
            BY <1>6, <1>7, <3>1
    <2>2. /\ task' \in [Tasks -> Task] /\ task'[k] = rec
          /\ \A l \in Tasks \ {k} : task'[l] = task[l]
        BY <1>1 DEF RealtimeIInv, RealtimeTypeOK
    <2> QED
        BY <2>1, <2>2
<1>9. RealtimeTypeOK'
    BY <1>8 DEF RealtimeIInv, RealtimeTypeOK
<1>10. SocketsPlaced'
    <2>1. sock[s] # FreeSocket
        BY <1>3, FreeNames
    <2>2. \A u \in Sockets \ {s} : sock'[u] = sock[u]
        BY <1>8
    <2> QED
        BY <1>3, <1>6, <1>8, <2>1, <2>2 DEF RealtimeIInv, SocketsPlaced
<1>11. Registry'
    <2>1. \A l \in Tasks : task'[l].pc = task[l].pc /\ task'[l].instance = task[l].instance
        BY <1>1, <1>8
    <2>2. \A i \in Instances : \A u \in connections[i] :
              sock'[u].server = "up" /\ sock'[u].instance = sock[u].instance
        BY <1>6, <1>8 DEF RealtimeIInv, RealtimeTypeOK, Registry, InstancesHold
    <2> QED
        BY <2>1, <2>2, RegistryKept DEF RealtimeIInv, RealtimeTypeOK, Alive
<1>12. PageSockets'
    BY <1>6, <1>8, PagesKept DEF RealtimeIInv
<1>13. Delivering'
    <2>1. \A l \in Tasks : task'[l].todo \subseteq task[l].todo /\ task[l].todo \subseteq Sockets
        BY <1>1, <1>8 DEF RealtimeIInv, RealtimeTypeOK, Task
    <2>2. \A l \in Tasks : /\ task'[l].pc = task[l].pc /\ task'[l].instance = task[l].instance
                           /\ task'[l].queue = task[l].queue
        BY <1>1, <1>8
    <2>3. \A u \in Sockets : /\ sock'[u].link = sock[u].link /\ sock'[u].server = sock[u].server
                             /\ sock'[u].instance = sock[u].instance
        BY <1>6, <1>8
    <2> QED
        BY <2>1, <2>2, <2>3 DEF RealtimeIInv, Streams, Delivering
<1>14. InOrderAndOnce'
    <2>1. \A u \in Sockets : Increases(sock[u].got)
        BY DEF RealtimeIInv, Streams, InOrderAndOnce, Increases
    <2>2. \A u \in Sockets : Increases(sock'[u].got)
        BY <1>5, <1>6, <1>8, <2>1
    <2> QED
        BY <2>2 DEF InOrderAndOnce, Increases
<1>15. Queues'
    <2>1. \A l \in Tasks : task'[l].queue = task[l].queue
        BY <1>1, <1>8
    <2>2. \A u \in Sockets : UpTo(sock'[u].got, published')
        BY <1>5, <1>6, <1>8 DEF RealtimeIInv, Streams, Queues
    <2>3. ASSUME NEW l \in Tasks, Alive(l)', task'[l].queue # <<>>,
                 NEW u \in connections'[task'[l].instance] \cup task'[l].todo
          PROVE  IF task'[l].pc = "delivering" /\ u \notin task'[l].todo
                 THEN UpTo(sock'[u].got, Head(task'[l].queue))
                 ELSE Below(sock'[u].got, Head(task'[l].queue))
        <3>1. /\ Alive(l) /\ task'[l].pc = task[l].pc /\ task'[l].instance = task[l].instance
              /\ task'[l].queue = task[l].queue
              /\ task'[l].todo = IF l = k THEN task[k].todo \ {s} ELSE task[l].todo
            BY <1>1, <1>8, <2>3 DEF Alive
        <3>2. task[l].instance \in Instances
            BY <3>1 DEF RealtimeIInv, Registry, InstancesHold
        <3>3. u \in connections[task[l].instance] \cup task[l].todo /\ u \in Sockets
            BY <2>3, <3>1, <3>2 DEF RealtimeIInv, RealtimeTypeOK, Task
        <3>4. CASE u # s
            BY <1>8, <2>3, <3>1, <3>3, <3>4 DEF RealtimeIInv, Streams, Queues
        <3>5. CASE u = s
            <4>1. l = k
                BY <1>4, <3>1, <3>3, <3>5
            <4> QED
                BY <1>5, <1>6, <1>8, <3>1, <3>5, <4>1 DEF n
        <3> QED
            BY <3>4, <3>5
    <2> QED
        BY <2>1, <2>2, <2>3 DEF RealtimeIInv, Streams, Queues
<1> QED
    BY <1>9, <1>10, <1>11, <1>12, <1>13, <1>14, <1>15 DEF RealtimeIInv, Streams

\* send_json raises: the socket is disconnected; or it is lost on the way.
LEMMA DeliverDrops ==
    ASSUME RealtimeIInv, NEW k \in Tasks, NEW s \in Sockets,
           task[k].pc = "delivering", s \in task[k].todo,
           \/ s \in connections[task[k].instance] /\ Release(s, [task EXCEPT ![k].todo = @ \ {s}])
           \/ /\ task' = [task EXCEPT ![k].todo = @ \ {s}]
              /\ UNCHANGED <<connections, registered>>,
           UNCHANGED <<token, page, sock, published, faults>>
    PROVE  RealtimeIInv'
<1> DEFINE rec == [task[k] EXCEPT !.todo = @ \ {s}]
           rest == [task EXCEPT ![k].todo = @ \ {s}]
<1>1. /\ Alive(k) /\ task[k].instance \in Instances /\ rest = [task EXCEPT ![k] = rec]
      /\ rec \in Task /\ rec.pc = "delivering" /\ rec.instance = task[k].instance
      /\ rec.queue = task[k].queue /\ rec.todo = task[k].todo \ {s}
    BY DeliverStarts
<1>2. \/ s \in connections[task[k].instance] /\ Release(s, rest)
      \/ task' = rest /\ UNCHANGED <<connections, registered>>
    OBVIOUS
<1> HIDE DEF rec, rest
<1>3. rest \in [Tasks -> Task] /\ rest[k] = rec /\ \A l \in Tasks \ {k} : rest[l] = task[l]
    BY <1>1 DEF RealtimeIInv, RealtimeTypeOK
<1>4. /\ RealtimeTypeOK' /\ Registry'
      /\ \A l \in Tasks : \/ task'[l] = rest[l] \/ task'[l] = FreeTask
                          \/ /\ task'[l].pc = "cancelled" /\ task'[l].todo = {}
                             /\ task'[l].queue = rest[l].queue
      /\ \A i \in Instances : connections'[i] \subseteq connections[i]
    <2>1. CASE s \in connections[task[k].instance] /\ Release(s, rest)
        <3>1. sock[s].instance = task[k].instance
            BY <1>1, <2>1 DEF RealtimeIInv, Registry, InstancesHold
        <3>2. \A l \in Tasks : rest[l].pc = task[l].pc /\ rest[l].instance = task[l].instance
            BY <1>1, <1>3
        <3>3. \A u \in Sockets \ {s} :
                  sock'[u].server = sock[u].server /\ sock'[u].instance = sock[u].instance
            OBVIOUS
        <3>4. /\ Registry'
              /\ connections' \in [Instances -> SUBSET Sockets]
              /\ registered' \in [Instances -> Tasks \cup {NoTask}]
              /\ task' \in [Tasks -> Task]
              /\ \A l \in Tasks : \/ task'[l] = rest[l] \/ task'[l] = FreeTask
                                  \/ /\ task'[l].pc = "cancelled" /\ task'[l].todo = {}
                                     /\ task'[l].queue = rest[l].queue
              /\ \A i \in Instances : connections'[i] \subseteq connections[i]
            <4>1. sock[s].instance \in Instances
                BY <1>1, <3>1
            <4> QED
                BY <1>3, <2>1, <3>2, <3>3, <4>1, ReleaseKeepsRegistry
        <3>5. RealtimeTypeOK'
            BY <3>4 DEF RealtimeIInv, RealtimeTypeOK
        <3> QED
            BY <3>1, <3>4, <3>5
    <2>2. CASE task' = rest /\ UNCHANGED <<connections, registered>>
        <3>1. task' = [task EXCEPT ![k] = rec] /\ faults' \in 0 .. MaxFaults
            BY <1>1, <2>2 DEF RealtimeIInv, RealtimeTypeOK
        <3>2. RealtimeTypeOK' /\ Registry'
            BY <1>1, <2>2, <3>1, TaskMoves
        <3> QED
            BY <2>2, <3>2
    <2> QED
        BY <1>2, <2>1, <2>2
<1>5. Streams'
    <2>1. \A l \in Tasks : task'[l] = FreeTask =>
              task'[l].queue = <<>> /\ task'[l].todo = {} /\ task'[l].pc # "delivering"
        BY FreeNames
    <2>2. \A l \in Tasks : rest[l].queue = task[l].queue
        BY <1>1, <1>3
    <2>3. task'[k] = rest[k] =>
              /\ task'[k].pc = "delivering" /\ task'[k].instance = task[k].instance
              /\ task'[k].queue = task[k].queue /\ task'[k].todo \subseteq task[k].todo
        BY <1>1, <1>3, <1>4
    <2>4. ASSUME NEW l \in Tasks
          PROVE  \/ task'[l] = task[l]
                 \/ task'[l].queue = <<>> /\ task'[l].todo = {} /\ task'[l].pc # "delivering"
                 \/ /\ task'[l].pc = "cancelled" /\ task'[l].todo = {}
                    /\ task'[l].queue = task[l].queue
                 \/ /\ task[l].pc = "delivering" /\ task'[l].pc = "delivering"
                    /\ task'[l].instance = task[l].instance /\ task'[l].queue = task[l].queue
                    /\ task'[l].todo \subseteq task[l].todo
        BY <1>3, <1>4, <2>1, <2>2, <2>3
    <2> QED
        BY <1>4, <2>4, StreamsKept
<1>6. SocketsPlaced' /\ PageSockets'
    BY PagesKept DEF RealtimeIInv, SocketsPlaced
<1> QED
    BY <1>4, <1>5, <1>6 DEF RealtimeIInv

LEMMA DeliverKeeps ==
    ASSUME RealtimeIInv, NEW k \in Tasks, NEW s \in Sockets, Deliver(k, s)
    PROVE  RealtimeIInv'
BY DeliverSends, DeliverDrops DEF Deliver

-----------------------------------------------------------------------------
(* Realtime: the theorems *)

LEMMA RealtimeBegins ==
    ASSUME RealtimeInit
    PROVE  RealtimeIInv
<1>1. RealtimeTypeOK
    BY FreeNames, RealtimeAssumption DEF RealtimeInit, RealtimeTypeOK, Page, Timers
<1>2. SocketsPlaced
    BY FreeNames DEF RealtimeInit, SocketsPlaced
<1>3. Registry
    BY FreeNames DEF RealtimeInit, Registry, RegistryMatches, InstancesHold, Alive
<1>4. Streams
    BY FreeNames, EmptyQueue
    DEF RealtimeInit, Streams, Delivering, Queues, InOrderAndOnce, Increases, Alive
<1>5. PageSockets
    BY FreeNames DEF RealtimeInit, PageSockets
<1> QED
    BY <1>1, <1>2, <1>3, <1>4, <1>5 DEF RealtimeIInv

LEMMA RealtimeStep ==
    ASSUME RealtimeIInv, [RealtimeNext]_realtimeVars
    PROVE  RealtimeIInv'
<1>1. CASE UNCHANGED realtimeVars
    <2>1. RealtimeTypeOK'
        BY <1>1 DEF realtimeVars, manager, RealtimeIInv, RealtimeTypeOK
    <2>2. SocketsPlaced'
        BY <1>1 DEF realtimeVars, manager, RealtimeIInv, SocketsPlaced
    <2>3. Registry'
        BY <1>1, RegistryKept
        DEF realtimeVars, manager, RealtimeIInv, RealtimeTypeOK, Alive, Registry, InstancesHold
    <2>4. Streams'
        BY <1>1, <2>1, StreamsKept DEF realtimeVars, manager
    <2>5. PageSockets'
        BY <1>1, PagesKept DEF realtimeVars, manager, RealtimeIInv
    <2> QED
        BY <2>1, <2>2, <2>3, <2>4, <2>5 DEF RealtimeIInv
<1> QED
    BY <1>1, MountKeeps, UnmountKeeps, OpenKeeps, ReconnectTimerKeeps, CloseEventKeeps,
       BreakKeeps, AcceptKeeps, RejectKeeps, EndpointEndsKeeps, SubscribedKeeps, TakeKeeps,
       DeliveredKeeps, WindDownKeeps, RedisFailsKeeps, DeliverKeeps, TokenChangesKeeps, PublishKeeps
    DEF RealtimeNext

\* The realtime invariant: whose sockets an instance serves, what each task has still to
\* bring, and which socket of a page is live.
THEOREM RealtimeInvariant == RealtimeSpec => []RealtimeIInv
    BY RealtimeBegins, RealtimeStep, PTL DEF RealtimeSpec

\* Pages, sockets, registries and subscriber tasks stay within their types.
THEOREM RealtimeTyped == RealtimeSpec => []RealtimeTypeOK
<1>1. RealtimeIInv => RealtimeTypeOK
    BY DEF RealtimeIInv
<1> QED
    BY <1>1, RealtimeInvariant, PTL

\* connection_manager.py: an instance has a subscriber registered exactly when it has sockets
\* of the user, and no subscriber runs unregistered, whatever connects, disconnects and
\* failed sends overlap.
THEOREM SubscribersAreRegistered == RealtimeSpec => []RegistryMatches
<1>1. RealtimeIInv => RegistryMatches
    BY DEF RealtimeIInv, Registry
<1> QED
    BY <1>1, RealtimeInvariant, PTL

\* A socket gets the events in the order in which they were published, and none twice, though
\* tasks are cancelled, replaced and fail while they deliver.
THEOREM EventsComeInOrderAndOnce == RealtimeSpec => []InOrderAndOnce
<1>1. RealtimeIInv => InOrderAndOnce
    BY DEF RealtimeIInv, Streams
<1> QED
    BY <1>1, RealtimeInvariant, PTL

\* realtimeClient.ts: a page has one connection or one attempt at it, and neither once it is
\* unmounted, however late the close events come.
THEOREM OneConnectionPerPage == RealtimeSpec => []OneAttemptPerPage
<1>1. RealtimeIInv => OneAttemptPerPage
    <2> DEFINE openOf(q) == {s \in Sockets : /\ sock[s].page = q
                                             /\ sock[s].client = "live" /\ sock[s].link}
    <2> SUFFICES ASSUME RealtimeIInv, NEW p \in Pages
                 PROVE  /\ Cardinality(openOf(p)) + (IF page[p].timer = "none" THEN 0 ELSE 1) <= 1
                        /\ ~page[p].mounted => openOf(p) = {} /\ page[p].timer = "none"
        BY DEF OneAttemptPerPage
    <2> DEFINE open == openOf(p)
    <2>1. \A s, u \in open : s = u
        BY DEF RealtimeIInv, PageSockets
    <2>2. open # {} => page[p].timer = "none" /\ page[p].mounted
        BY DEF RealtimeIInv, PageSockets
    <2>3. ~page[p].mounted => page[p].timer = "none"
        BY DEF RealtimeIInv, PageSockets
    <2> HIDE DEF open, openOf
    <2>4. open = {} \/ \E s \in open : open = {s}
        BY <2>1
    <2>5. Cardinality(open) \in {0, 1} /\ (open = {} => Cardinality(open) = 0)
        BY <2>4, FS_EmptySet, FS_Singleton
    <2>6. Cardinality(open) + (IF page[p].timer = "none" THEN 0 ELSE 1) <= 1
        BY <2>2, <2>5
    <2>7. ~page[p].mounted => open = {} /\ page[p].timer = "none"
        BY <2>2, <2>3
    <2> QED
        BY <2>6, <2>7 DEF open
<1> QED
    BY <1>1, RealtimeInvariant, PTL

\* Only a failure of Redis makes a dead task.
LEMMA DeadTasks ==
    ASSUME RealtimeIInv, [RealtimeNext]_realtimeVars
    PROVE  \/ faults' = faults + 1 /\ UNCHANGED <<sock, connections, registered>>
           \/ \A k \in Tasks : task'[k].pc = "dead" =>
                  task[k].pc = "dead" /\ task'[k].instance = task[k].instance
<1> DEFINE Stays == \A k \in Tasks : task'[k].pc = "dead" =>
                        task[k].pc = "dead" /\ task'[k].instance = task[k].instance
<1>1. task \in [Tasks -> Task] /\ registered \in [Instances -> Tasks \cup {NoTask}]
    BY DEF RealtimeIInv, RealtimeTypeOK
<1>2. ASSUME UNCHANGED manager PROVE Stays
    BY <1>2 DEF manager
<1>3. ASSUME NEW s \in Sockets, NEW ts \in [Tasks -> Task], Release(s, ts),
             sock[s].instance \in Instances,
             \A k \in Tasks : ts[k].pc = task[k].pc /\ ts[k].instance = task[k].instance
      PROVE  Stays
    <2> DEFINE q == registered[sock[s].instance]
    <2>1. q \in Tasks \cup {NoTask}
        BY <1>1, <1>3
    <2>2. task' = ts \/ task' = Cancelled(q, ts)
        BY <1>3 DEF Release
    <2> HIDE DEF q
    <2>3. CASE task' = ts
        BY <1>3, <2>3
    <2>4. CASE task' = Cancelled(q, ts) /\ q = NoTask
        <3>1. task' = ts
            BY <2>4 DEF Cancelled
        <3> QED
            BY <2>3, <3>1
    <2>5. CASE task' = Cancelled(q, ts) /\ q # NoTask
        <3>1. q \in Tasks /\ ts[q] \in Task
            BY <1>3, <2>1, <2>5
        <3>2. CASE ts[q].pc = "dead"
            <4>1. task' = [ts EXCEPT ![q] = FreeTask]
                BY <2>5, <3>2 DEF Cancelled
            <4>2. FreeTask.pc # "dead"
                BY DEF FreeTask
            <4> QED
                BY <1>3, <3>1, <4>1, <4>2
        <3>3. CASE ts[q].pc # "dead"
            <4>1. task' = [ts EXCEPT ![q] = [ts[q] EXCEPT !.pc = "cancelled", !.todo = {}]]
                BY <2>5, <3>3 DEF Cancelled
            <4>2. task'[q].pc = "cancelled" /\ \A k \in Tasks \ {q} : task'[k] = ts[k]
                BY <3>1, <4>1, SMTT(30) DEF Task
            <4> QED
                BY <1>3, <3>1, <4>2
        <3> QED
            BY <3>2, <3>3
    <2> QED
        BY <2>2, <2>3, <2>4, <2>5
<1>4. ASSUME NEW p \in Pages,
             \/ Mount(p) \/ Unmount(p) \/ ReconnectTimer(p)
             \/ \E s \in Sockets, i \in Instances : Open(p, s, i)
      PROVE  Stays
    BY <1>2, <1>4, Zenon DEF Mount, Unmount, ReconnectTimer, Open
<1>5. ASSUME NEW s \in Sockets, CloseEvent(s) \/ Break(s) \/ Reject(s)
      PROVE  Stays
    BY <1>2, <1>5 DEF CloseEvent, Break, Reject
<1>6. ASSUME NEW s \in Sockets, Accept(s)
      PROVE  Stays
    <2>1. \/ task' = task
          \/ \E k \in Tasks :
                task' = [task EXCEPT ![k] = [FreeTask EXCEPT !.pc = "starting",
                                                             !.instance = sock[s].instance]]
        BY <1>6 DEF Accept, Subscribe
    <2> QED
        BY <1>1, <2>1 DEF FreeTask
<1>7. ASSUME NEW s \in Sockets, EndpointEnds(s)
      PROVE  Stays
    <2>1. sock[s].instance \in Instances
        BY <1>7, FreeNames DEF EndpointEnds, RealtimeIInv, SocketsPlaced
    <2>2. Release(s, task)
        BY <1>7 DEF EndpointEnds
    <2> QED
        BY <1>1, <1>3, <2>1, <2>2
<1>8. ASSUME NEW k \in Tasks, Subscribed(k) \/ Take(k) \/ Delivered(k) \/ WindDown(k)
      PROVE  Stays
    <2>1. \A j \in Tasks : task[j] \in Task
        BY <1>1
    <2>2. CASE Subscribed(k)
        BY <1>1, <2>1, <2>2 DEF Subscribed, Task
    <2>5. CASE WindDown(k)
        <3>1. task'[k].pc = "free" /\ \A j \in Tasks \ {k} : task'[j] = task[j]
            BY <1>1, <2>5 DEF WindDown, FreeTask
        <3> QED
            BY <3>1
    <2>3. CASE Take(k)
        BY <1>1, <2>1, <2>3 DEF Take, Task
    <2>4. CASE Delivered(k)
        <3>1. task'[k].pc = "listening" /\ \A j \in Tasks \ {k} : task'[j] = task[j]
            BY <1>1, <2>1, <2>4 DEF Delivered, Task
        <3> QED
            BY <3>1
    <2> QED
        BY <1>8, <2>2, <2>3, <2>4, <2>5
<1>9. ASSUME NEW k \in Tasks, NEW s \in Sockets, Deliver(k, s)
      PROVE  Stays
    <2> DEFINE rest == [task EXCEPT ![k].todo = @ \ {s}]
    <2>1. /\ rest \in [Tasks -> Task]
          /\ \A j \in Tasks : rest[j].pc = task[j].pc /\ rest[j].instance = task[j].instance
        BY <1>1 DEF Task
    <2>2. task' = rest \/ (s \in connections[task[k].instance] /\ Release(s, rest))
        BY <1>9 DEF Deliver
    <2> HIDE DEF rest
    <2>3. CASE task' = rest
        BY <2>1, <2>3
    <2>4. CASE s \in connections[task[k].instance] /\ Release(s, rest)
        <3>1. sock[s].instance \in Instances
            BY <1>9, <2>4 DEF Deliver, RealtimeIInv, SocketsPlaced, Registry, InstancesHold, Alive
        <3> QED
            BY <1>3, <2>1, <2>4, <3>1
    <2> QED
        BY <2>2, <2>3, <2>4
<1>10. ASSUME NEW k \in Tasks, RedisFails(k)
       PROVE  faults' = faults + 1 /\ UNCHANGED <<sock, connections, registered>>
    BY <1>10 DEF RedisFails, Fault
<1>11. CASE TokenChanges
    BY <1>2, <1>11 DEF TokenChanges
<1>12. CASE Publish
    BY <1>1, <1>12 DEF Publish, Task
<1>13. CASE UNCHANGED realtimeVars
    BY <1>2, <1>13 DEF realtimeVars
<1> QED
    BY <1>4, <1>5, <1>6, <1>7, <1>8, <1>9, <1>10, <1>11, <1>12, <1>13 DEF RealtimeNext

\* An instance that has sockets of the user falls silent only when Redis fails under it: its
\* registered task is dead then, and a task does not die otherwise, nor outlive the sockets.
THEOREM SilentOnlyByRedis == RealtimeSpec => SilencedByRedisOnly
<1>1. ASSUME RealtimeIInv, RealtimeIInv', [RealtimeNext]_realtimeVars,
             NEW i \in Instances, connections'[i] # {}, ~Hears(i)'
      PROVE  \/ connections[i] # {} /\ ~Hears(i)
             \/ faults' = faults + 1 /\ UNCHANGED <<sock, connections, registered>>
    <2>1. RegistryMatches /\ RegistryMatches'
        BY <1>1 DEF RealtimeIInv, Registry
    <2>2. PICK k \in Tasks : registered'[i] = k /\ task'[k].pc = "dead" /\ task'[k].instance = i
        <3>1. registered'[i] \in Tasks /\ task'[registered'[i]] \in Task
            BY <1>1, <2>1 DEF RegistryMatches, RealtimeIInv, RealtimeTypeOK
        <3> QED
            BY <1>1, <2>1, <3>1 DEF RegistryMatches, Hears, Task
    <2>3. CASE task[k].pc = "dead" /\ task[k].instance = i
        <3>1. registered[i] = k /\ k # NoTask
            BY <2>1, <2>3, RealtimeAssumption DEF RegistryMatches
        <3> QED
            BY <2>1, <2>3, <3>1 DEF RegistryMatches, Hears
    <2> QED
        BY <1>1, <2>2, <2>3, DeadTasks
<1>2. RealtimeIInv /\ RealtimeIInv' /\ [RealtimeNext]_realtimeVars =>
         \A i \in Instances : connections'[i] # {} /\ ~Hears(i)' =>
            \/ connections[i] # {} /\ ~Hears(i)
            \/ faults' = faults + 1 /\ UNCHANGED <<sock, connections, registered>>
    BY <1>1
<1> QED
    BY <1>2, RealtimeInvariant, PTL DEF RealtimeSpec, SilencedByRedisOnly
=============================================================================
