--------------------------- MODULE AccountsProofs ---------------------------
(***************************************************************************)
(* Proofs about Accounts, for any numbers of names, addresses, words,      *)
(* requests and workers, and whichever statements fail.                    *)
(***************************************************************************)
EXTENDS Accounts, FiniteSetTheorems, SequenceTheorems, TLAPS

-----------------------------------------------------------------------------
(***************************************************************************)
(* Types, and what the step of a request says of it.                       *)
(***************************************************************************)
AllSteps == {"arrive"} \cup Steps \cup Ended

\* the steps after a request has inserted its user, or of one that inserts none
PastSteps == AllSteps \ {"arrive", "create", "address", "insert"}
Past == {r \in Requests : pc[r] \in PastSteps}

\* the steps at which a request has a uid, and the row it has read of it
Knowing == {"md5", "upgrade", "social", "session", "issue", "token", "password", "spend",
            "load", "store", "reputation"}
Copied == {"token", "password", "store", "reputation"}

\* a token that has been issued
Token == [uid : Uids, used : BOOLEAN]

Local(r) ==
    /\ pc[r] \in {"md5", "upgrade"} => Op(r) = "login"
    /\ pc[r] \in {"create", "recall", "social"} => Op(r) = "social"
    /\ pc[r] \in {"address", "insert"} => Op(r) = "register"
    /\ pc[r] = "session" => Op(r) \in {"login", "social", "register"}
    /\ pc[r] = "clear" => Op(r) = "logout"
    /\ pc[r] = "issue" => Op(r) = "forgot"
    /\ pc[r] \in {"token", "password", "spend"} => Op(r) = "reset"
    /\ pc[r] = "load" => Op(r) = "edit"
    /\ pc[r] = "store" => Op(r) \in {"edit", "admin"}
    /\ pc[r] = "reputation" => Op(r) = "pay"
    /\ pc[r] \in Knowing => who[r] \in DOMAIN users
    /\ pc[r] \in Copied => copy[r] \in Row
    /\ pc[r] \in {"password", "spend"} => call[r].word # None /\ tokens[call[r].token] \in Token

\* a user for the first account and one for each request that has inserted one
TypeInv ==
    /\ TypeOK
    /\ Len(users) <= 1 + Cardinality(Past)
    /\ sessions \in [Ids -> DOMAIN users \cup {0, None}]
    /\ \A r \in Requests : Local(r)

\* The fields of a call, by what it asks for.
LEMMA CallFields ==
    ASSUME NEW c \in Calls \cup {NoCall}
    PROVE  /\ c.op = "login" => c.word \in Words
           /\ c.op = "social" => c.name \in Names /\ c.email \in Addresses
           /\ c.op = "register" => c.name \in Names /\ c.email \in Addresses /\ c.word \in Words
           /\ c.op = "logout" => c.session \in Ids
           /\ c.op = "reset" => c.token \in Ids /\ c.word \in Words \cup {None}
           /\ c.op \in {"edit", "admin"} => c.form \in Form
  <1>1. CASE c \in [op : {"login"}, key : Names \cup Addresses, word : Words]
    BY <1>1
  <1>2. CASE c \in [op : {"social"}, name : Names, email : Addresses]
    BY <1>2
  <1>3. CASE c \in [op : {"register"}, name : Names, email : Addresses, word : Words]
    BY <1>3
  <1>4. CASE c \in [op : {"logout"}, session : Ids]
    BY <1>4
  <1>5. CASE c \in [op : {"forgot"}, email : Addresses]
    BY <1>5
  <1>6. CASE c \in [op : {"reset"}, token : Ids, email : Addresses, word : Words \cup {None}]
    BY <1>6
  <1>7. CASE c \in [op : {"edit"}, session : Ids, form : OwnForms]
    BY <1>7 DEF OwnForms
  <1>8. CASE c \in [op : {"admin"}, uid : Uids, form : Form]
    BY <1>8
  <1>9. CASE c \in [op : {"pay"}, uid : Uids]
    BY <1>9
  <1>10. CASE c = NoCall
    BY <1>10 DEF NoCall
  <1> QED BY <1>1, <1>2, <1>3, <1>4, <1>5, <1>6, <1>7, <1>8, <1>9, <1>10 DEF Calls

\* A row stays a row when a form or a word is written into it.
LEMMA RowsStayRows ==
    ASSUME NEW row \in Row
    PROVE  /\ \A f \in Form : Edited(row, f) \in Row
           /\ \A w \in Words : WithWord(row, w) \in Row
           /\ [row EXCEPT !.md5 = FALSE] \in Row
           /\ \A k \in Int : [row EXCEPT !.points = k] \in Row
  <1>1. ASSUME NEW f \in Form PROVE Edited(row, f) \in Row
    <2>1. /\ Fallback(f.name, row.name) \in Names
          /\ Fallback(f.email, row.email) \in Addresses
          /\ Fallback(f.word, row.word) \in Words \cup {Unguessed}
      BY DEF Fallback, Form, Row
    <2>2. row.points + f.points \in Int
      BY BoundsAreTyped DEF Form, Row
    <2> QED BY <2>1, <2>2 DEF Edited, Row
  <1> QED BY <1>1 DEF WithWord, Row

-----------------------------------------------------------------------------
(***************************************************************************)
(* The steps of all handlers, by their effect.                             *)
(***************************************************************************)

\* what a step of request r leaves alone of the others, and its types
Alone(r) ==
    /\ pc' \in [Requests -> AllSteps]
    /\ call' \in [Requests -> Calls \cup {NoCall}]
    /\ who' \in [Requests -> Uids \cup {0}]
    /\ copy' \in [Requests -> Row \cup {NoCall}]
    /\ answer' \in [Requests -> Uids \cup {0}]
    /\ \A q \in Requests \ {r} :
          /\ pc'[q] = pc[q] /\ call'[q] = call[q]
          /\ who'[q] = who[q] /\ copy'[q] = copy[q] /\ answer'[q] = answer[q]

\* A step that stores nothing: a look-up, a comparison, a refusal, a failure.
Moves(r) ==
    /\ pc[r] \notin Ended /\ UNCHANGED <<stores, history>> /\ Alone(r) /\ Local(r)'
    /\ pc[r] \in PastSteps => pc'[r] \in PastSteps
    /\ pc'[r] \in {"create", "insert"} => At(call'[r].email) = {}
    /\ pc'[r] \in Copied =>
          \/ copy'[r] = users[who'[r]]
          \/ pc[r] \in Copied /\ copy'[r] = copy[r] /\ who'[r] = who[r]
    /\ pc'[r] = "upgrade" => users[who'[r]].md5 /\ users[who'[r]].word = call'[r].word
    /\ pc'[r] \in {"password", "spend"} => ~tokens[call'[r].token].used
    /\ pc'[r] = "done" => Op(r)' = "reset" /\ call'[r].word = None
    /\ pc'[r] # "recall"
    /\ Op(r)' = "social" /\ pc'[r] = "session" => answer'[r] = who'[r]
    /\ pc'[r] = "social" => /\ pc[r] = "recall" /\ answer'[r] = answer[r] /\ call'[r] = call[r]
                            /\ who'[r] \in At(call[r].email)

\* what becomes of a request that has written its row
AfterWrite == [upgrade |-> "session", password |-> "spend", store |-> "done", reputation |-> "done"]

\* A step that writes a row: as it should, if the request's copy is current.
Writes(r) ==
    /\ pc[r] \in {"upgrade", "password", "store", "reputation"}
    /\ pc' = [pc EXCEPT ![r] = AfterWrite[pc[r]]]
    /\ UNCHANGED <<tokens, socials, sessions, contested, call, locals>>
    /\ \E row, meant \in Row :
          /\ Write(r, who[r], row, meant)
          /\ /\ users[who[r]] = book[who[r]]
             /\ pc[r] \in Copied => copy[r] = users[who[r]]
             /\ pc[r] = "upgrade" => users[who[r]].md5 /\ users[who[r]].word = call[r].word
             => row = meant

\* A step that inserts a user.
Inserts(r) ==
    /\ \E row \in Row : row.email = call[r].email /\ Insert(r, row)
    /\ \/ /\ pc[r] = "create" /\ pc' = [pc EXCEPT ![r] = "recall"]
          /\ answer' = [answer EXCEPT ![r] = Len(users')]
       \/ /\ pc[r] = "insert" /\ pc' = [pc EXCEPT ![r] = "session"]
          /\ UNCHANGED answer

Effect(r) ==
    \/ Moves(r) \/ Writes(r) \/ Inserts(r)
    \/ SaveSocial(r) /\ pc'[r] = "session"
    \/ SetSession(r) /\ pc'[r] = "done"
    \/ ClearSession(r) /\ pc'[r] = "done"
    \/ IssueToken(r) /\ pc'[r] = "done"
    \/ SpendToken(r) /\ pc'[r] = "done"

\* the parts of TypeInv that a request's step reads
LEMMA TypesOf ==
    ASSUME TypeInv, NEW r \in Requests
    PROVE  /\ users \in Seq(Row) /\ DOMAIN users = 1..Len(users) /\ Len(users) \in Nat
           /\ DOMAIN users \subseteq Uids
           /\ tokens \in [Ids -> Token \cup {None}]
           /\ sessions \in [Ids -> DOMAIN users \cup {0, None}]
           /\ call \in [Requests -> Calls \cup {NoCall}]
           /\ pc \in [Requests -> AllSteps]
           /\ who \in [Requests -> Uids \cup {0}]
           /\ copy \in [Requests -> Row \cup {NoCall}]
           /\ answer \in [Requests -> Uids \cup {0}]
           /\ book \in Seq(Row) /\ Len(book) = Len(users)
           /\ Local(r) /\ r \in Ids /\ Uids \subseteq Nat
           /\ \A u \in DOMAIN users : users[u] \in Row /\ book[u] \in Row
  <1>1. Uids \subseteq Nat
    BY FS_CardinalityType, BoundsAreTyped DEF Uids
  <1>2. /\ users \in Seq(Row) /\ DOMAIN users = 1..Len(users) /\ Len(users) \in Nat
        /\ book \in Seq(Row) /\ Len(book) = Len(users)
    BY LenProperties DEF TypeInv, TypeOK
  <1>3. \A u \in DOMAIN users : users[u] \in Row /\ book[u] \in Row
    BY <1>2
  <1> QED BY <1>1, <1>2, <1>3 DEF TypeInv, TypeOK, AllSteps, Ids, Token

\* A failing statement only ends its request.
LEMMA FailsMove ==
    ASSUME TypeInv, NEW r \in Requests, Fails(r), pc[r] \notin Ended
    PROVE  Moves(r)
  <1>1. /\ pc' = [pc EXCEPT ![r] = "refused"] /\ UNCHANGED <<stores, call, locals, history>>
        /\ UNCHANGED <<call, who, copy, answer, users, tokens>>
    BY DEF Fails, Skip, Goto, locals, stores
  <1>2. pc'[r] = "refused" /\ \A q \in Requests \ {r} : pc'[q] = pc[q]
    BY <1>1, TypesOf
  <1>3. Alone(r)
    BY <1>1, <1>2, TypesOf DEF Alone, AllSteps, Ended
  <1>4. Local(r)'
    BY <1>1, <1>2, TypesOf DEF Local, Knowing, Copied
  <1> QED BY <1>1, <1>2, <1>3, <1>4 DEF Moves, PastSteps, AllSteps, Ended, Copied

\* What a step changes of its own request has the types that it should have.
LEMMA AloneIf ==
    ASSUME TypeInv, NEW r \in Requests, NEW step \in AllSteps, pc' = [pc EXCEPT ![r] = step],
           call' = call \/ \E c \in Calls : call' = [call EXCEPT ![r] = c],
           who' = who \/ \E u \in Uids : who' = [who EXCEPT ![r] = u],
           copy' = copy \/ \E row \in Row : copy' = [copy EXCEPT ![r] = row],
           answer' = answer \/ \E u \in Uids : answer' = [answer EXCEPT ![r] = u]
    PROVE  Alone(r) /\ pc'[r] = step
  <1>1. pc' \in [Requests -> AllSteps] /\ pc'[r] = step
        /\ \A q \in Requests \ {r} : pc'[q] = pc[q]
    BY TypesOf
  <1>2. call' \in [Requests -> Calls \cup {NoCall}]
        /\ \A q \in Requests \ {r} : call'[q] = call[q]
    BY TypesOf
  <1>3. who' \in [Requests -> Uids \cup {0}] /\ \A q \in Requests \ {r} : who'[q] = who[q]
    BY TypesOf
  <1>4. copy' \in [Requests -> Row \cup {NoCall}]
        /\ \A q \in Requests \ {r} : copy'[q] = copy[q]
    BY TypesOf
  <1>5. answer' \in [Requests -> Uids \cup {0}]
        /\ \A q \in Requests \ {r} : answer'[q] = answer[q]
    BY TypesOf
  <1> QED BY <1>1, <1>2, <1>3, <1>4, <1>5 DEF Alone

\* A first statement that finds nothing ends its request.
LEMMA RefusedMove ==
    ASSUME TypeInv, NEW r \in Requests, NEW c \in Calls, Arrives(r, c), Refused(r)
    PROVE  Moves(r)
  <1>1. /\ pc' = [pc EXCEPT ![r] = "refused"] /\ call' = [call EXCEPT ![r] = c]
        /\ UNCHANGED <<stores, history>> /\ UNCHANGED <<who, copy, answer, users, tokens>>
        /\ pc[r] = "arrive"
    BY DEF Refused, Arrives, Goto, stores, locals
  <1>2. Alone(r) /\ pc'[r] = "refused"
    <2>1. "refused" \in AllSteps
      BY DEF AllSteps, Ended
    <2> QED BY <1>1, <2>1, AloneIf
  <1>3. Local(r)'
    BY <1>2 DEF Local, Knowing, Copied
  <1> QED BY <1>1, <1>2, <1>3 DEF Moves, PastSteps, AllSteps, Ended, Copied

\* A first statement that finds its row goes on with it.
LEMMA FoundMove ==
    ASSUME TypeInv, NEW r \in Requests, NEW c \in Calls, Arrives(r, c),
           NEW u \in DOMAIN users, NEW step, Found(r, u, step),
           \/ step \in {"session", "md5"} /\ c.op = "login"
           \/ step = "issue" /\ c.op = "forgot"
           \/ step = "token" /\ c.op = "reset"
           \/ step = "store" /\ c.op = "admin"
           \/ step = "reputation" /\ c.op = "pay"
    PROVE  Moves(r)
  <1>1. /\ pc' = [pc EXCEPT ![r] = step] /\ call' = [call EXCEPT ![r] = c] /\ pc[r] = "arrive"
        /\ who' = [who EXCEPT ![r] = u] /\ copy' = [copy EXCEPT ![r] = users[u]]
        /\ UNCHANGED <<stores, history>> /\ UNCHANGED <<answer, users, tokens>>
    BY DEF Found, Load, Arrives, Goto, stores
  <1>2. u \in Uids /\ users[u] \in Row
    BY TypesOf
  <1>3. Alone(r) /\ pc'[r] = step
    <2>1. step \in AllSteps
      BY DEF AllSteps, Steps
    <2> QED BY <1>1, <1>2, <2>1, AloneIf
  <1>4. call'[r] = c /\ who'[r] = u /\ copy'[r] = users[u]
    BY <1>1, TypesOf
  <1>5. Local(r)'
    BY <1>1, <1>2, <1>3, <1>4 DEF Local, Op
  <1>6. /\ step \notin {"create", "insert", "upgrade", "password", "spend", "done", "recall", "social"}
        /\ Op(r)' # "social" /\ pc[r] \notin PastSteps \cup Ended
    BY <1>1, <1>4 DEF Op, PastSteps, Ended
  <1> QED BY <1>1, <1>3, <1>4, <1>5, <1>6 DEF Moves

\* Sessions: each statement of a login, a social login, a registration and a
\* logout moves its request, or has one of the effects.
LEMMA SessionEffects ==
    ASSUME TypeInv, NEW r \in Requests,
           \/ BeginLogin(r) \/ CountMD5(r) \/ UpgradePassword(r)
           \/ BeginSocial(r) \/ CreateSocialUser(r) \/ RecallUser(r) \/ SaveSocial(r)
           \/ BeginRegister(r) \/ CheckAddress(r) \/ InsertUser(r) \/ SetSession(r)
           \/ BeginLogout(r) \/ ClearSession(r)
    PROVE  Effect(r)
  <1>0. Local(r) /\ r \in Ids /\ pc \in [Requests -> AllSteps]
    BY TypesOf
  <1>1. CASE BeginLogin(r)
    <2>1. PICK k \in Names \cup Addresses, w \in Words :
            /\ Arrives(r, [op |-> "login", key |-> k, word |-> w])
            /\ \/ Refused(r)
               \/ \E u \in Named(k) \cup At(k) :
                    Found(r, u, IF users[u].word = w /\ ~users[u].md5 THEN "session" ELSE "md5")
      BY <1>1 DEF BeginLogin
    <2>2. [op |-> "login", key |-> k, word |-> w] \in Calls
      BY DEF Calls
    <2>3. Named(k) \cup At(k) \subseteq DOMAIN users
      BY DEF Named, At
    <2> QED BY <2>1, <2>2, <2>3, RefusedMove, FoundMove DEF Effect
  <1>2. CASE CountMD5(r)
    <2>1. CASE Fails(r)
      BY <1>2, <2>1, FailsMove DEF Effect, Ended, CountMD5
    <2>2. CASE ~Fails(r)
      <3> DEFINE ok == users[who[r]].md5 /\ users[who[r]].word = call[r].word
      <3>1. /\ pc[r] = "md5" /\ pc' = [pc EXCEPT ![r] = IF ok THEN "upgrade" ELSE "refused"]
            /\ UNCHANGED <<stores, history>> /\ UNCHANGED <<call, who, copy, answer, users, tokens>>
        BY <1>2, <2>2 DEF CountMD5, Skip, Goto, stores, locals
      <3>2. Alone(r) /\ pc'[r] = IF ok THEN "upgrade" ELSE "refused"
        <4>1. (IF ok THEN "upgrade" ELSE "refused") \in AllSteps
          BY DEF AllSteps, Steps, Ended
        <4> QED BY <3>1, <4>1, AloneIf
      <3>3. Local(r)'
        BY <1>0, <3>1, <3>2 DEF Local, Knowing, Copied, Op
      <3>4. Moves(r)
        BY <3>1, <3>2, <3>3 DEF Moves, Copied, PastSteps, AllSteps, Steps, Ended
      <3> QED BY <3>4 DEF Effect
    <2> QED BY <2>1, <2>2
  <1>3. CASE UpgradePassword(r)
    <2>1. CASE Fails(r)
      BY <1>3, <2>1, FailsMove DEF Effect, Ended, UpgradePassword
    <2>2. CASE ~Fails(r)
      <3> DEFINE u == who[r]
      <3>1. /\ pc[r] = "upgrade" /\ pc' = [pc EXCEPT ![r] = "session"]
            /\ Write(r, u, WithWord(users[u], call[r].word), [book[u] EXCEPT !.md5 = FALSE])
            /\ UNCHANGED <<tokens, socials, sessions, call, locals, contested>>
        BY <1>3, <2>2 DEF UpgradePassword, Goto
      <3>2. u \in DOMAIN users /\ users[u] \in Row /\ book[u] \in Row /\ call[r].word \in Words
        BY <1>0, <3>1, TypesOf, CallFields DEF Local, Knowing, Op
      <3>3. WithWord(users[u], call[r].word) \in Row /\ [book[u] EXCEPT !.md5 = FALSE] \in Row
        BY <3>2, RowsStayRows
      <3>4. users[u] = book[u] /\ users[u].word = call[r].word
              => WithWord(users[u], call[r].word) = [book[u] EXCEPT !.md5 = FALSE]
        BY <3>2 DEF WithWord, Row
      <3>5. Writes(r)
        BY <3>1, <3>3, <3>4 DEF Writes, AfterWrite
      <3> QED BY <3>5 DEF Effect
    <2> QED BY <2>1, <2>2
  <1>4. CASE BeginSocial(r)
    <2>1. PICK n \in Names, e \in Addresses :
            /\ Arrives(r, [op |-> "social", name |-> n, email |-> e])
            /\ \/ Refused(r)
               \/ At(e) = {} /\ Goto(r, "create") /\ UNCHANGED <<stores, locals, history>>
               \/ \E u \in At(e) :
                    /\ Load(r, u) /\ answer' = [answer EXCEPT ![r] = u]
                    /\ Goto(r, "session") /\ UNCHANGED <<stores, history>>
      BY <1>4 DEF BeginSocial
    <2> DEFINE c == [op |-> "social", name |-> n, email |-> e]
    <2>2. c \in Calls /\ c.op = "social" /\ c.email = e
      BY DEF Calls
    <2> HIDE DEF c
    <2>3. CASE Refused(r)
      BY <2>1, <2>2, <2>3, RefusedMove DEF c, Effect
    <2>4. CASE At(e) = {} /\ Goto(r, "create") /\ UNCHANGED <<stores, locals, history>>
      <3>1. /\ pc[r] = "arrive" /\ pc' = [pc EXCEPT ![r] = "create"]
            /\ call' = [call EXCEPT ![r] = c]
            /\ UNCHANGED <<stores, history>> /\ UNCHANGED <<who, copy, answer, users, tokens>>
        BY <2>1, <2>4 DEF Arrives, Goto, stores, locals, c
      <3>2. Alone(r) /\ pc'[r] = "create" /\ call'[r] = c
        <4>1. "create" \in AllSteps
          BY DEF AllSteps, Steps
        <4> QED BY <2>2, <3>1, <4>1, AloneIf, TypesOf
      <3>3. Local(r)'
        BY <2>2, <3>2 DEF Local, Knowing, Copied, Op
      <3>4. (At(e))' = {}
        BY <2>4, <3>1 DEF At
      <3>5. Moves(r)
        BY <2>2, <2>4, <3>1, <3>2, <3>3 DEF Moves, Copied, PastSteps, AllSteps, Steps, Ended
      <3> QED BY <3>5 DEF Effect
    <2>5. ASSUME NEW u \in At(e), Load(r, u), answer' = [answer EXCEPT ![r] = u],
                 Goto(r, "session"), UNCHANGED <<stores, history>>
          PROVE  Effect(r)
      <3>1. /\ pc[r] = "arrive" /\ pc' = [pc EXCEPT ![r] = "session"]
            /\ call' = [call EXCEPT ![r] = c] /\ who' = [who EXCEPT ![r] = u]
            /\ copy' = [copy EXCEPT ![r] = users[u]] /\ answer' = [answer EXCEPT ![r] = u]
            /\ UNCHANGED <<stores, history>> /\ UNCHANGED <<users, tokens>>
        BY <2>1, <2>5 DEF Arrives, Goto, stores, Load, c
      <3>2. u \in DOMAIN users /\ u \in Uids /\ users[u] \in Row
        BY TypesOf DEF At
      <3>3. Alone(r) /\ pc'[r] = "session" /\ call'[r] = c /\ who'[r] = u /\ answer'[r] = u
        <4>1. "session" \in AllSteps
          BY DEF AllSteps, Steps
        <4> QED BY <2>2, <3>1, <3>2, <4>1, AloneIf, TypesOf
      <3>4. Local(r)'
        BY <2>2, <3>1, <3>2, <3>3 DEF Local, Knowing, Copied, Op
      <3>5. Moves(r)
        BY <2>2, <3>1, <3>3, <3>4 DEF Moves, Copied, PastSteps, AllSteps, Steps, Ended
      <3> QED BY <3>5 DEF Effect
    <2> QED BY <2>1, <2>3, <2>4, <2>5
  <1>5. CASE CreateSocialUser(r)
    <2>1. CASE Fails(r)
      BY <1>5, <2>1, FailsMove DEF Effect, Ended, CreateSocialUser
    <2>2. CASE ~Fails(r)
      <3> DEFINE row == [name |-> call[r].name, email |-> call[r].email,
                         word |-> Unguessed, md5 |-> TRUE, points |-> 0]
      <3>1. /\ pc[r] = "create" /\ pc' = [pc EXCEPT ![r] = "recall"] /\ Insert(r, row)
            /\ answer' = [answer EXCEPT ![r] = Len(users')]
        BY <1>5, <2>2 DEF CreateSocialUser, Goto
      <3>2. call[r].name \in Names /\ call[r].email \in Addresses
        BY <1>0, <3>1, TypesOf, CallFields DEF Local, Op
      <3>3. row \in Row /\ row.email = call[r].email
        BY <3>2 DEF Row
      <3> QED BY <3>1, <3>3 DEF Effect, Inserts
    <2> QED BY <2>1, <2>2
  <1>6. CASE RecallUser(r)
    <2>1. CASE pc' = [pc EXCEPT ![r] = "refused"] /\ UNCHANGED <<stores, call, locals, history>>
      <3>1. Alone(r) /\ pc'[r] = "refused"
        <4>1. "refused" \in AllSteps /\ UNCHANGED <<who, copy, answer>>
          BY <2>1 DEF AllSteps, Ended, locals
        <4> QED BY <2>1, <4>1, AloneIf
      <3>2. Local(r)'
        BY <3>1 DEF Local, Knowing, Copied
      <3>3. Moves(r)
        BY <1>6, <2>1, <3>1, <3>2 DEF Moves, RecallUser, PastSteps, AllSteps, Ended, Copied
      <3> QED BY <3>3 DEF Effect
    <2>2. ASSUME NEW u \in At(call[r].email), Found(r, u, "social"), UNCHANGED call, pc[r] = "recall"
          PROVE  Effect(r)
      <3>1. /\ pc' = [pc EXCEPT ![r] = "social"] /\ UNCHANGED <<stores, history>>
            /\ who' = [who EXCEPT ![r] = u] /\ copy' = [copy EXCEPT ![r] = users[u]]
            /\ UNCHANGED <<call, answer, users, tokens>>
        BY <2>2 DEF Found, Load, Goto, stores
      <3>2. u \in DOMAIN users /\ u \in Uids /\ users[u] \in Row
        BY TypesOf DEF At
      <3>3. Alone(r) /\ pc'[r] = "social" /\ who'[r] = u
        <4>1. "social" \in AllSteps
          BY DEF AllSteps, Steps
        <4> QED BY <3>1, <3>2, <4>1, AloneIf, TypesOf
      <3>4. Local(r)'
        BY <1>0, <2>2, <3>1, <3>2, <3>3 DEF Local, Knowing, Copied, Op
      <3>5. Moves(r)
        BY <2>2, <3>1, <3>3, <3>4 DEF Moves, Copied, PastSteps, AllSteps, Steps, Ended
      <3> QED BY <3>5 DEF Effect
    <2> QED BY <1>6, <2>1, <2>2 DEF RecallUser, Recalled, Skip, Goto
  <1>7. CASE SaveSocial(r)
    <2>1. CASE Fails(r)
      BY <1>7, <2>1, FailsMove DEF Effect, Ended, SaveSocial
    <2>2. CASE ~Fails(r)
      BY <1>0, <1>7, <2>2 DEF SaveSocial, Goto, Effect
    <2> QED BY <2>1, <2>2
  <1>8. CASE BeginRegister(r)
    <2>1. PICK n \in Names, e \in Addresses, w \in Words :
            /\ Arrives(r, [op |-> "register", name |-> n, email |-> e, word |-> w])
            /\ \/ Refused(r)
               \/ Goto(r, "address") /\ UNCHANGED <<stores, locals, history>>
      BY <1>8 DEF BeginRegister
    <2> DEFINE c == [op |-> "register", name |-> n, email |-> e, word |-> w]
    <2>2. c \in Calls /\ c.op = "register"
      BY DEF Calls
    <2> HIDE DEF c
    <2>3. CASE Refused(r)
      BY <2>1, <2>2, <2>3, RefusedMove DEF c, Effect
    <2>4. CASE Goto(r, "address") /\ UNCHANGED <<stores, locals, history>>
      <3>1. /\ pc[r] = "arrive" /\ pc' = [pc EXCEPT ![r] = "address"]
            /\ call' = [call EXCEPT ![r] = c]
            /\ UNCHANGED <<stores, history>> /\ UNCHANGED <<who, copy, answer, users, tokens>>
        BY <2>1, <2>4 DEF Arrives, Goto, stores, locals, c
      <3>2. Alone(r) /\ pc'[r] = "address" /\ call'[r] = c
        <4>1. "address" \in AllSteps
          BY DEF AllSteps, Steps
        <4> QED BY <2>2, <3>1, <4>1, AloneIf, TypesOf
      <3>3. Local(r)'
        BY <2>2, <3>2 DEF Local, Knowing, Copied, Op
      <3>4. Moves(r)
        BY <2>2, <3>1, <3>2, <3>3 DEF Moves, Copied, PastSteps, AllSteps, Steps, Ended
      <3> QED BY <3>4 DEF Effect
    <2> QED BY <2>1, <2>3, <2>4
  <1>9. CASE CheckAddress(r)
    <2>1. PICK step \in {"refused", "insert"} :
            /\ pc[r] = "address" /\ pc' = [pc EXCEPT ![r] = step]
            /\ step = "insert" => At(call[r].email) = {}
            /\ UNCHANGED <<stores, history>> /\ UNCHANGED <<call, who, copy, answer, users, tokens>>
      BY <1>9 DEF CheckAddress, Skip, Goto, Unused, stores, locals
    <2>2. Alone(r) /\ pc'[r] = step
      <3>1. step \in AllSteps
        BY DEF AllSteps, Steps, Ended
      <3> QED BY <2>1, <3>1, AloneIf
    <2>3. Local(r)'
      BY <1>0, <2>1, <2>2 DEF Local, Knowing, Copied, Op
    <2>4. Moves(r)
      BY <2>1, <2>2, <2>3 DEF Moves, Copied, PastSteps, AllSteps, Steps, Ended
    <2> QED BY <2>4 DEF Effect
  <1>10. CASE InsertUser(r)
    <2>1. CASE Fails(r)
      BY <1>10, <2>1, FailsMove DEF Effect, Ended, InsertUser
    <2>2. CASE ~Fails(r)
      <3> DEFINE row == [name |-> call[r].name, email |-> call[r].email,
                         word |-> call[r].word, md5 |-> FALSE, points |-> 0]
      <3>1. /\ pc[r] = "insert" /\ pc' = [pc EXCEPT ![r] = "session"] /\ Insert(r, row)
            /\ UNCHANGED answer
        BY <1>10, <2>2 DEF InsertUser, Goto
      <3>2. call[r].name \in Names /\ call[r].email \in Addresses /\ call[r].word \in Words
        BY <1>0, <3>1, TypesOf, CallFields DEF Local, Op
      <3>3. row \in Row /\ row.email = call[r].email
        BY <3>2 DEF Row
      <3> QED BY <3>1, <3>3 DEF Effect, Inserts
    <2> QED BY <2>1, <2>2
  <1>11. CASE SetSession(r)
    <2>1. CASE Fails(r)
      BY <1>11, <2>1, FailsMove DEF Effect, Ended, SetSession
    <2>2. CASE ~Fails(r)
      BY <1>0, <1>11, <2>2 DEF SetSession, Goto, Effect
    <2> QED BY <2>1, <2>2
  <1>12. CASE BeginLogout(r)
    <2>1. PICK id \in Ids :
            /\ Arrives(r, [op |-> "logout", session |-> id])
            /\ \/ Refused(r)
               \/ Goto(r, "clear") /\ UNCHANGED <<stores, locals, history>>
      BY <1>12 DEF BeginLogout
    <2> DEFINE c == [op |-> "logout", session |-> id]
    <2>2. c \in Calls /\ c.op = "logout"
      BY DEF Calls
    <2> HIDE DEF c
    <2>3. CASE Refused(r)
      BY <2>1, <2>2, <2>3, RefusedMove DEF c, Effect
    <2>4. CASE Goto(r, "clear") /\ UNCHANGED <<stores, locals, history>>
      <3>1. /\ pc[r] = "arrive" /\ pc' = [pc EXCEPT ![r] = "clear"]
            /\ call' = [call EXCEPT ![r] = c]
            /\ UNCHANGED <<stores, history>> /\ UNCHANGED <<who, copy, answer, users, tokens>>
        BY <2>1, <2>4 DEF Arrives, Goto, stores, locals, c
      <3>2. Alone(r) /\ pc'[r] = "clear" /\ call'[r] = c
        <4>1. "clear" \in AllSteps
          BY DEF AllSteps, Steps
        <4> QED BY <2>2, <3>1, <4>1, AloneIf, TypesOf
      <3>3. Local(r)'
        BY <2>2, <3>2 DEF Local, Knowing, Copied, Op
      <3>4. Moves(r)
        BY <2>2, <3>1, <3>2, <3>3 DEF Moves, Copied, PastSteps, AllSteps, Steps, Ended
      <3> QED BY <3>4 DEF Effect
    <2> QED BY <2>1, <2>3, <2>4
  <1>13. CASE ClearSession(r)
    <2>1. CASE Fails(r)
      BY <1>13, <2>1, FailsMove DEF Effect, Ended, ClearSession
    <2>2. CASE ~Fails(r)
      BY <1>0, <1>13, <2>2 DEF ClearSession, Goto, Effect
    <2> QED BY <2>1, <2>2
  <1> QED BY <1>1, <1>2, <1>3, <1>4, <1>5, <1>6, <1>7, <1>8, <1>9, <1>10, <1>11, <1>12, <1>13

\* The first user with an address is one of them.
LEMMA FirstAt ==
    ASSUME TypeInv, NEW e \in Addresses, At(e) # {}
    PROVE  First(At(e)) \in DOMAIN users
  <1>1. At(e) \subseteq DOMAIN users /\ DOMAIN users \subseteq Nat
    BY LenProperties DEF At, TypeInv, TypeOK
  <1>2. \E u \in At(e) : \A v \in At(e) : u <= v
    <2> DEFINE below == {1..u : u \in At(e)}
    <2>1. below \subseteq FiniteSubsetsOf(Nat) /\ below # {}
      <3>1. ASSUME NEW u \in At(e) PROVE 1..u \in FiniteSubsetsOf(Nat)
        <4>1. u \in Int /\ 1..u \subseteq Nat
          BY <1>1
        <4>2. IsFiniteSet(1..u)
          BY <4>1, FS_Interval
        <4> QED BY <4>1, <4>2 DEF FiniteSubsetsOf
      <3> QED BY <3>1
    <2>2. IsWellFoundedOn(StrictSubsetOrdering(Nat), FiniteSubsetsOf(Nat))
      BY FS_StrictSubsetOrderingWellFounded
    <2> HIDE DEF below
    <2>3. PICK x \in below : \A y \in below : <<y, x>> \notin StrictSubsetOrdering(Nat)
      BY <2>1, <2>2, WFMin
    <2>4. PICK u \in At(e) : x = 1..u
      BY DEF below
    <2>5. ASSUME NEW v \in At(e), v < u PROVE FALSE
      <3>1. 1..v \in below
        BY DEF below
      <3>2. 1..v \subseteq 1..u /\ u \in 1..u /\ u \notin 1..v /\ 1..u \subseteq Nat
        BY <1>1, <2>5
      <3> QED BY <2>3, <2>4, <3>1, <3>2 DEF StrictSubsetOrdering
    <2> QED BY <1>1, <2>5
  <1>3. First(At(e)) \in At(e)
    BY <1>2 DEF First
  <1> QED BY <1>1, <1>3

\* A first statement that has no row to find goes on to its second.
LEMMA GoesOn ==
    ASSUME TypeInv, NEW r \in Requests, NEW c \in Calls, Arrives(r, c), c.op = "edit",
           NEW u \in DOMAIN users, who' = [who EXCEPT ![r] = u],
           Goto(r, "load"), UNCHANGED <<stores, copy, answer, history>>
    PROVE  Moves(r)
  <1>1. /\ pc[r] = "arrive" /\ pc' = [pc EXCEPT ![r] = "load"] /\ call' = [call EXCEPT ![r] = c]
        /\ UNCHANGED <<users, tokens>>
    BY DEF Arrives, Goto, stores
  <1>2. Alone(r) /\ pc'[r] = "load" /\ call'[r] = c /\ who'[r] = u
    <2>1. "load" \in AllSteps /\ u \in Uids
      BY TypesOf DEF AllSteps, Steps
    <2> QED BY <1>1, <2>1, AloneIf, TypesOf
  <1>3. Local(r)'
    BY <1>1, <1>2 DEF Local, Knowing, Copied, Op
  <1> QED BY <1>1, <1>2, <1>3 DEF Moves, Copied, PastSteps, Ended, Op

\* Passwords and edits: the same of a reset, of an edit of either kind and of a
\* payment.
LEMMA EditEffects ==
    ASSUME TypeInv, NEW r \in Requests,
           \/ BeginForgot(r) \/ IssueToken(r)
           \/ BeginReset(r) \/ CheckToken(r) \/ SavePassword(r) \/ SpendToken(r)
           \/ BeginEdit(r) \/ LoadOwnRow(r) \/ StoreRow(r) \/ BeginAdminEdit(r)
           \/ BeginPay(r) \/ PayReputation(r)
    PROVE  Effect(r)
  <1>0. Local(r) /\ r \in Ids /\ pc \in [Requests -> AllSteps]
    BY TypesOf
  <1>1. CASE BeginForgot(r)
    <2>1. PICK e \in Addresses :
            /\ Arrives(r, [op |-> "forgot", email |-> e])
            /\ Refused(r) \/ (At(e) # {} /\ Found(r, First(At(e)), "issue"))
      BY <1>1 DEF BeginForgot
    <2>2. [op |-> "forgot", email |-> e] \in Calls
      BY DEF Calls
    <2>3. At(e) # {} => First(At(e)) \in DOMAIN users
      BY FirstAt
    <2> QED BY <2>1, <2>2, <2>3, RefusedMove, FoundMove DEF Effect
  <1>2. CASE IssueToken(r)
    <2>1. CASE Fails(r)
      BY <1>2, <2>1, FailsMove DEF Effect, Ended, IssueToken
    <2>2. CASE ~Fails(r)
      BY <1>0, <1>2, <2>2 DEF IssueToken, Goto, Effect
    <2> QED BY <2>1, <2>2
  <1>3. CASE BeginReset(r)
    <2>1. PICK t \in Ids, e \in Addresses, w \in Words \cup {None} :
            /\ Arrives(r, [op |-> "reset", token |-> t, email |-> e, word |-> w])
            /\ Refused(r) \/ (At(e) # {} /\ Found(r, First(At(e)), "token"))
      BY <1>3 DEF BeginReset
    <2>2. [op |-> "reset", token |-> t, email |-> e, word |-> w] \in Calls
      BY DEF Calls
    <2>3. At(e) # {} => First(At(e)) \in DOMAIN users
      BY FirstAt
    <2> QED BY <2>1, <2>2, <2>3, RefusedMove, FoundMove DEF Effect
  <1>4. CASE CheckToken(r)
    <2>1. PICK step \in {"refused", "done", "password"} :
            /\ pc[r] = "token" /\ pc' = [pc EXCEPT ![r] = step]
            /\ step # "refused" => UnusedTokenOf(call[r].token, who[r])
            /\ step = "done" <=> step # "refused" /\ call[r].word = None
            /\ UNCHANGED <<stores, history>> /\ UNCHANGED <<call, who, copy, answer, users, tokens>>
      BY <1>4 DEF CheckToken, Skip, Goto, stores, locals
    <2>2. Alone(r) /\ pc'[r] = step
      <3>1. step \in AllSteps
        BY DEF AllSteps, Steps, Ended
      <3> QED BY <2>1, <3>1, AloneIf
    <2>3. Local(r)'
      <3>1. call[r].token \in Ids /\ (step = "password" => tokens[call[r].token] \in Token)
        BY <1>0, <2>1, TypesOf, CallFields DEF Local, Op, UnusedTokenOf
      <3> QED BY <1>0, <2>1, <2>2, <3>1 DEF Local, Knowing, Copied, Op
    <2>4. Op(r) = "reset"
      BY <1>0, <2>1 DEF Local
    <2>5. Moves(r)
      BY <2>1, <2>2, <2>3, <2>4
         DEF Moves, Copied, PastSteps, AllSteps, Steps, Ended, UnusedTokenOf, Op
    <2> QED BY <2>5 DEF Effect
  <1>5. CASE SavePassword(r)
    <2>1. CASE Fails(r)
      BY <1>5, <2>1, FailsMove DEF Effect, Ended, SavePassword
    <2>2. CASE ~Fails(r)
      <3> DEFINE u == who[r]
      <3>1. /\ pc[r] = "password" /\ pc' = [pc EXCEPT ![r] = "spend"]
            /\ Write(r, u, WithWord(copy[r], call[r].word), WithWord(book[u], call[r].word))
            /\ UNCHANGED <<tokens, socials, sessions, call, locals, contested>>
        BY <1>5, <2>2 DEF SavePassword, Goto
      <3>2. u \in DOMAIN users /\ copy[r] \in Row /\ book[u] \in Row /\ call[r].word \in Words
        BY <1>0, <3>1, TypesOf, CallFields DEF Local, Knowing, Copied, Op
      <3>3. WithWord(copy[r], call[r].word) \in Row /\ WithWord(book[u], call[r].word) \in Row
        BY <3>2, RowsStayRows
      <3>4. Writes(r)
        BY <3>1, <3>3 DEF Writes, AfterWrite, Copied
      <3> QED BY <3>4 DEF Effect
    <2> QED BY <2>1, <2>2
  <1>6. CASE SpendToken(r)
    <2>1. CASE Fails(r)
      BY <1>6, <2>1, FailsMove DEF Effect, Ended, SpendToken
    <2>2. CASE ~Fails(r)
      BY <1>0, <1>6, <2>2 DEF SpendToken, Goto, Effect
    <2> QED BY <2>1, <2>2
  <1>7. CASE BeginEdit(r)
    <2>1. PICK id \in Ids, f \in OwnForms :
            /\ Arrives(r, [op |-> "edit", session |-> id, form |-> f])
            /\ \/ Refused(r)
               \/ /\ sessions[id] \notin {0, None}
                  /\ who' = [who EXCEPT ![r] = sessions[id]]
                  /\ Goto(r, "load") /\ UNCHANGED <<stores, copy, answer, history>>
      BY <1>7 DEF BeginEdit
    <2>2. [op |-> "edit", session |-> id, form |-> f] \in Calls
      BY DEF Calls
    <2>3. sessions[id] \notin {0, None} => sessions[id] \in DOMAIN users
      BY TypesOf
    <2> QED BY <2>1, <2>2, <2>3, RefusedMove, GoesOn DEF Effect
  <1>8. CASE LoadOwnRow(r)
    <2>1. CASE Fails(r)
      BY <1>8, <2>1, FailsMove DEF Effect, Ended, LoadOwnRow
    <2>2. CASE ~Fails(r)
      <3>1. /\ pc[r] = "load" /\ pc' = [pc EXCEPT ![r] = "store"] /\ UNCHANGED <<stores, history>>
            /\ who' = [who EXCEPT ![r] = who[r]] /\ copy' = [copy EXCEPT ![r] = users[who[r]]]
            /\ UNCHANGED <<call, answer, users, tokens>>
        BY <1>8, <2>2 DEF LoadOwnRow, Found, Load, Goto, stores
      <3>2. who[r] \in DOMAIN users /\ who[r] \in Uids /\ users[who[r]] \in Row /\ Op(r) = "edit"
        BY <1>0, <3>1, TypesOf DEF Local, Knowing
      <3>3. Alone(r) /\ pc'[r] = "store" /\ who'[r] = who[r] /\ copy'[r] = users[who[r]]
        <4>1. "store" \in AllSteps
          BY DEF AllSteps, Steps
        <4> QED BY <3>1, <3>2, <4>1, AloneIf, TypesOf
      <3>4. Local(r)'
        BY <3>1, <3>2, <3>3 DEF Local, Knowing, Copied, Op
      <3>5. Moves(r)
        BY <3>1, <3>2, <3>3, <3>4 DEF Moves, Copied, PastSteps, AllSteps, Steps, Ended, Op
      <3> QED BY <3>5 DEF Effect
    <2> QED BY <2>1, <2>2
  <1>9. CASE StoreRow(r)
    <2>1. CASE Fails(r)
      BY <1>9, <2>1, FailsMove DEF Effect, Ended, StoreRow
    <2>2. CASE ~Fails(r)
      <3> DEFINE u == who[r]
      <3>1. /\ pc[r] = "store" /\ pc' = [pc EXCEPT ![r] = "done"]
            /\ Write(r, u, Edited(copy[r], call[r].form), Edited(book[u], call[r].form))
            /\ UNCHANGED <<tokens, socials, sessions, call, locals, contested>>
        BY <1>9, <2>2 DEF StoreRow, SavedRow, Goto
      <3>2. u \in DOMAIN users /\ copy[r] \in Row /\ book[u] \in Row /\ call[r].form \in Form
        BY <1>0, <3>1, TypesOf, CallFields DEF Local, Knowing, Copied, Op
      <3>3. Edited(copy[r], call[r].form) \in Row /\ Edited(book[u], call[r].form) \in Row
        BY <3>2, RowsStayRows
      <3>4. Writes(r)
        BY <3>1, <3>3 DEF Writes, AfterWrite, Copied
      <3> QED BY <3>4 DEF Effect
    <2> QED BY <2>1, <2>2
  <1>10. CASE BeginAdminEdit(r)
    <2>1. PICK u \in Uids, f \in Form :
            /\ Arrives(r, [op |-> "admin", uid |-> u, form |-> f])
            /\ Refused(r) \/ (u \in DOMAIN users /\ Found(r, u, "store"))
      BY <1>10 DEF BeginAdminEdit
    <2>2. [op |-> "admin", uid |-> u, form |-> f] \in Calls
      BY DEF Calls
    <2> QED BY <2>1, <2>2, RefusedMove, FoundMove DEF Effect
  <1>11. CASE BeginPay(r)
    <2>1. PICK u \in Uids :
            /\ Arrives(r, [op |-> "pay", uid |-> u])
            /\ Refused(r) \/ (u \in DOMAIN users /\ Found(r, u, "reputation"))
      BY <1>11 DEF BeginPay
    <2>2. [op |-> "pay", uid |-> u] \in Calls
      BY DEF Calls
    <2> QED BY <2>1, <2>2, RefusedMove, FoundMove DEF Effect
  <1>12. CASE PayReputation(r)
    <2>1. CASE Fails(r)
      BY <1>12, <2>1, FailsMove DEF Effect, Ended, PayReputation
    <2>2. CASE ~Fails(r)
      <3> DEFINE u == who[r]
      <3>1. /\ pc[r] = "reputation" /\ pc' = [pc EXCEPT ![r] = "done"]
            /\ Write(r, u, [users[u] EXCEPT !.points = copy[r].points + Bonus],
                           [book[u] EXCEPT !.points = @ + Bonus])
            /\ UNCHANGED <<tokens, socials, sessions, call, locals, contested>>
        BY <1>12, <2>2 DEF PayReputation, Goto
      <3>2. u \in DOMAIN users /\ users[u] \in Row /\ copy[r] \in Row /\ book[u] \in Row
        BY <1>0, <3>1, TypesOf DEF Local, Knowing, Copied
      <3>3. copy[r].points + Bonus \in Int /\ book[u].points + Bonus \in Int
        BY <3>2, BoundsAreTyped DEF Row
      <3>4. /\ [users[u] EXCEPT !.points = copy[r].points + Bonus] \in Row
            /\ [book[u] EXCEPT !.points = @ + Bonus] \in Row
        BY <3>2, <3>3, RowsStayRows
      <3>5. Writes(r)
        BY <3>1, <3>4 DEF Writes, AfterWrite, Copied
      <3> QED BY <3>5 DEF Effect
    <2> QED BY <2>1, <2>2
  <1> QED BY <1>1, <1>2, <1>3, <1>4, <1>5, <1>6, <1>7, <1>8, <1>9, <1>10, <1>11, <1>12

\* Every step is a step of one request with one of the effects.
LEMMA NextEffects ==
    ASSUME TypeInv, Next
    PROVE  \E r \in Requests : Effect(r)
  BY SessionEffects, EditEffects DEF Next

-----------------------------------------------------------------------------
(***************************************************************************)
(* The types are kept: there is a uid for every user.                      *)
(***************************************************************************)

\* A request that is past its insertion stays there, and one that inserts
\* comes to be.
LEMMA PastGrows ==
    ASSUME TypeInv, NEW r \in Requests, Alone(r), pc[r] \in PastSteps => pc'[r] \in PastSteps
    PROVE  /\ Cardinality(Past) \in Nat /\ Cardinality(Past') \in Nat
           /\ Cardinality(Past) <= Cardinality(Past')
           /\ Cardinality(Past') <= Cardinality(Requests) /\ Cardinality(Requests) \in Nat
           /\ pc[r] \notin PastSteps /\ pc'[r] \in PastSteps
                 => Cardinality(Past') = Cardinality(Past) + 1
  <1>1. Past \subseteq Past' /\ Past' \subseteq Requests
    BY DEF Past, Alone
  <1>2. /\ IsFiniteSet(Requests) /\ IsFiniteSet(Past') /\ IsFiniteSet(Past)
        /\ Cardinality(Past) <= Cardinality(Past') /\ Cardinality(Past') <= Cardinality(Requests)
    BY <1>1, BoundsAreTyped, FS_Subset
  <1>3. ASSUME pc[r] \notin PastSteps, pc'[r] \in PastSteps
        PROVE  Cardinality(Past') = Cardinality(Past) + 1
    <2>1. Past' = Past \cup {r} /\ r \notin Past
      BY <1>3 DEF Past, Alone
    <2> QED BY <1>2, <2>1, FS_AddElement
  <1> QED BY <1>2, <1>3, FS_CardinalityType

\* What a step has to keep.
LEMMA TypesIf ==
    ASSUME TypeInv, NEW r \in Requests, Alone(r), Local(r)',
           users' \in Seq(Row), book' \in Seq(Row), Len(book') = Len(users'),
           Len(users) <= Len(users'), Len(users') <= 1 + Cardinality(Past'),
           pc[r] \in PastSteps => pc'[r] \in PastSteps,
           tokens' \in [Ids -> Token \cup {None}],
           \A t \in Ids : tokens[t] \in Token => tokens'[t] \in Token,
           socials' \in [Requests -> Uids \cup {0}],
           sessions' \in [Ids -> DOMAIN users' \cup {0, None}],
           overlapped' \subseteq Uids, excused' \subseteq Addresses, contested' \subseteq Ids
    PROVE  TypeInv'
  <1>1. DOMAIN users \subseteq DOMAIN users' /\ DOMAIN users' \subseteq Uids
    BY TypesOf, PastGrows, LenProperties DEF Uids
  <1>2. TypeOK'
    BY <1>1 DEF TypeOK, Alone, AllSteps, Token
  <1>3. ASSUME NEW q \in Requests PROVE Local(q)'
    <2>1. CASE q = r
      BY <2>1
    <2>2. CASE q # r
      <3>1. /\ pc'[q] = pc[q] /\ call'[q] = call[q] /\ who'[q] = who[q] /\ copy'[q] = copy[q]
            /\ Local(q)
        BY <2>2, TypesOf DEF Alone
      <3>2. pc[q] \in {"password", "spend"} => call[q].token \in Ids
        BY <3>1, TypesOf, CallFields DEF Local, Op
      <3> QED BY <1>1, <3>1, <3>2 DEF Local, Op
    <2> QED BY <2>1, <2>2
  <1> QED BY <1>2, <1>3 DEF TypeInv

\* A step that stores nothing keeps them.
LEMMA MovesTypes ==
    ASSUME TypeInv, NEW r \in Requests, Moves(r)
    PROVE  TypeInv'
  <1>1. /\ UNCHANGED <<users, tokens, socials, sessions>>
        /\ UNCHANGED <<book, overlapped, excused, contested>>
        /\ Alone(r) /\ Local(r)' /\ (pc[r] \in PastSteps => pc'[r] \in PastSteps)
    BY DEF Moves, stores, history
  <1>2. Len(users) \in Nat /\ Len(users) <= 1 + Cardinality(Past')
    BY <1>1, PastGrows, TypesOf DEF TypeInv
  <1>3. /\ users' \in Seq(Row) /\ book' \in Seq(Row) /\ Len(book') = Len(users')
        /\ Len(users) <= Len(users') /\ Len(users') <= 1 + Cardinality(Past')
        /\ tokens' \in [Ids -> Token \cup {None}]
        /\ \A t \in Ids : tokens[t] \in Token => tokens'[t] \in Token
        /\ sessions' \in [Ids -> DOMAIN users' \cup {0, None}]
    BY <1>1, <1>2, TypesOf
  <1>4. /\ socials' \in [Requests -> Uids \cup {0}]
        /\ overlapped' \subseteq Uids /\ excused' \subseteq Addresses /\ contested' \subseteq Ids
    BY <1>1 DEF TypeInv, TypeOK
  <1> QED BY <1>1, <1>3, <1>4, TypesIf

\* A row that is written is one of the users', and the rest of the table is left.
LEMMA WrittenRows ==
    ASSUME TypeInv, NEW r \in Requests, Writes(r)
    PROVE  /\ who[r] \in DOMAIN users /\ Alone(r)
           /\ pc[r] \in PastSteps /\ pc'[r] \in PastSteps /\ pc'[r] = AfterWrite[pc[r]]
           /\ Len(users') = Len(users) /\ Len(book') = Len(users)
           /\ users' \in Seq(Row) /\ book' \in Seq(Row)
           /\ \A u \in DOMAIN users \ {who[r]} : users'[u] = users[u] /\ book'[u] = book[u]
           /\ overlapped' \subseteq Uids /\ excused' \subseteq Addresses
           /\ UNCHANGED <<tokens, socials, sessions, contested, call, who, copy, answer>>
  <1>1. /\ pc[r] \in {"upgrade", "password", "store", "reputation"}
        /\ pc' = [pc EXCEPT ![r] = AfterWrite[pc[r]]]
        /\ UNCHANGED <<tokens, socials, sessions, contested, call, who, copy, answer>>
    BY DEF Writes, locals
  <1>2. PICK row \in Row, meant \in Row : Write(r, who[r], row, meant)
    BY DEF Writes
  <1>3. who[r] \in DOMAIN users /\ who[r] \in Uids /\ who[r] \in 1..Len(users)
    BY <1>1, TypesOf DEF Local, Knowing
  <1>4. /\ users' = [users EXCEPT ![who[r]] = row] /\ book' = [book EXCEPT ![who[r]] = meant]
        /\ overlapped' \subseteq overlapped \cup {who[r]}
        /\ excused' \subseteq excused \cup {row.email}
    BY <1>2 DEF Write
  <1>5. Len(users') = Len(users) /\ users' \in Seq(Row)
    BY <1>3, <1>4, TypesOf, ExceptSeq
  <1>6. Len(book') = Len(users) /\ book' \in Seq(Row)
    BY <1>3, <1>4, TypesOf, ExceptSeq
  <1>7. \A u \in DOMAIN users \ {who[r]} : users'[u] = users[u] /\ book'[u] = book[u]
    <2>1. users \in Seq(Row) /\ book \in Seq(Row) /\ DOMAIN users = 1..Len(users)
          /\ Len(book) = Len(users)
      BY TypesOf
    <2>2. DOMAIN book = 1..Len(users)
      BY <2>1, LenProperties
    <2> QED BY <1>4, <2>1, <2>2
  <1>8. overlapped' \subseteq Uids /\ excused' \subseteq Addresses
    BY <1>3, <1>4 DEF TypeInv, TypeOK, Row
  <1>9. Alone(r) /\ pc'[r] = AfterWrite[pc[r]]
    <2>1. AfterWrite[pc[r]] \in AllSteps
      BY <1>1 DEF AfterWrite, AllSteps, Steps, Ended
    <2> QED BY <1>1, <2>1, AloneIf
  <1>10. pc[r] \in PastSteps /\ AfterWrite[pc[r]] \in PastSteps
    BY <1>1 DEF AfterWrite, PastSteps, AllSteps, Steps, Ended
  <1> QED BY <1>1, <1>3, <1>5, <1>6, <1>7, <1>8, <1>9, <1>10

\* A step that writes a row keeps the types.
LEMMA WritesTypes ==
    ASSUME TypeInv, NEW r \in Requests, Writes(r)
    PROVE  TypeInv'
  <1>1. /\ UNCHANGED <<tokens, socials, sessions, contested, call, who, copy, answer>>
        /\ pc[r] \in {"upgrade", "password", "store", "reputation"}
        /\ Alone(r) /\ pc'[r] = AfterWrite[pc[r]] /\ who[r] \in DOMAIN users
    BY WrittenRows DEF Writes
  <1>2. DOMAIN users' = DOMAIN users /\ Len(users') = Len(users) /\ Len(users) \in Nat
    BY WrittenRows, TypesOf, LenProperties
  <1>3. Local(r)'
    BY <1>1, <1>2, TypesOf DEF Local, AfterWrite, Knowing, Copied, Op
  <1>4. Len(users') <= 1 + Cardinality(Past')
    BY <1>2, PastGrows, WrittenRows DEF TypeInv
  <1>5. /\ tokens' \in [Ids -> Token \cup {None}]
        /\ \A t \in Ids : tokens[t] \in Token => tokens'[t] \in Token
        /\ sessions' \in [Ids -> DOMAIN users' \cup {0, None}]
    BY <1>1, <1>2, TypesOf
  <1>6. socials' \in [Requests -> Uids \cup {0}] /\ contested' \subseteq Ids
    BY <1>1 DEF TypeInv, TypeOK
  <1>7. Len(users) <= Len(users')
    BY <1>2
  <1> QED BY <1>1, <1>3, <1>4, <1>5, <1>6, <1>7, TypesIf, WrittenRows

\* A request that has not inserted its user still has a uid to give to it.
LEMMA RoomForOne ==
    ASSUME TypeInv, NEW r \in Requests, pc[r] \notin PastSteps
    PROVE  Len(users) + 1 \in Uids
  <1>1. Past \subseteq Requests /\ Past \cup {r} \subseteq Requests /\ r \notin Past
    BY DEF Past
  <1>2. IsFiniteSet(Requests) /\ IsFiniteSet(Past) /\ IsFiniteSet(Past \cup {r})
    BY <1>1, BoundsAreTyped, FS_Subset
  <1>3. Cardinality(Past) + 1 = Cardinality(Past \cup {r})
    BY <1>1, <1>2, FS_AddElement
  <1>4. Cardinality(Past \cup {r}) <= Cardinality(Requests)
    BY <1>1, <1>2, FS_Subset
  <1>5. /\ Cardinality(Past) \in Nat /\ Cardinality(Requests) \in Nat
        /\ Cardinality(Past \cup {r}) \in Nat
    BY <1>2, FS_CardinalityType
  <1>6. Len(users) \in Nat /\ Len(users) <= 1 + Cardinality(Past)
    BY TypesOf DEF TypeInv
  <1> QED BY <1>3, <1>4, <1>5, <1>6 DEF Uids

\* A user that is inserted is the last one, and the others are left.
LEMMA InsertedRow ==
    ASSUME TypeInv, NEW r \in Requests, Inserts(r)
    PROVE  /\ pc[r] \in {"create", "insert"} /\ pc[r] \notin PastSteps /\ pc'[r] \in PastSteps
           /\ pc'[r] = IF pc[r] = "create" THEN "recall" ELSE "session"
           /\ call[r].email \in Addresses
           /\ Len(users') = Len(users) + 1 /\ Len(book') = Len(users) + 1
           /\ users' \in Seq(Row) /\ book' \in Seq(Row)
           /\ \A u \in DOMAIN users : users'[u] = users[u] /\ book'[u] = book[u]
           /\ users'[Len(users) + 1].email = call[r].email
           /\ users'[Len(users) + 1] = book'[Len(users) + 1]
           /\ who'[r] = Len(users) + 1 /\ Len(users) + 1 \in Uids
           /\ pc[r] = "create" => answer'[r] = who'[r]
           /\ Alone(r)
           /\ excused' = IF Creating(call[r].email) \ {r} = {} THEN excused
                         ELSE excused \cup {call[r].email}
           /\ UNCHANGED <<tokens, socials, sessions, call, copy, overlapped, contested>>
  <1>1. PICK row \in Row : row.email = call[r].email /\ Insert(r, row)
    BY DEF Inserts
  <1>2. /\ users' = Append(users, row) /\ book' = Append(book, row)
        /\ who' = [who EXCEPT ![r] = Len(users')]
        /\ UNCHANGED <<tokens, socials, sessions, call, copy, overlapped, contested>>
        /\ excused' = IF Creating(call[r].email) \ {r} = {} THEN excused
                      ELSE excused \cup {call[r].email}
    BY <1>1 DEF Insert
  <1>3. pc[r] \in {"create", "insert"}
    BY DEF Inserts
  <1>4. /\ pc[r] \notin PastSteps
        /\ (IF pc[r] = "create" THEN "recall" ELSE "session") \in PastSteps
        /\ (IF pc[r] = "create" THEN "recall" ELSE "session") \in AllSteps
    BY <1>3 DEF PastSteps, AllSteps, Steps
  <1>5. pc' = [pc EXCEPT ![r] = IF pc[r] = "create" THEN "recall" ELSE "session"]
    BY DEF Inserts
  <1>6. Len(users) + 1 \in Uids
    BY <1>4, RoomForOne
  <1>7. /\ Len(users') = Len(users) + 1 /\ users' \in Seq(Row)
        /\ \A u \in 1..Len(users) : users'[u] = users[u]
        /\ users'[Len(users) + 1] = row
    BY <1>2, TypesOf, AppendProperties
  <1>8. /\ Len(book') = Len(users) + 1 /\ book' \in Seq(Row)
        /\ \A u \in 1..Len(users) : book'[u] = book[u]
        /\ book'[Len(users) + 1] = row
    <2>1. book \in Seq(Row) /\ Len(book) = Len(users)
      BY TypesOf
    <2> QED BY <1>2, <2>1, AppendProperties
  <1>9. Alone(r) /\ pc'[r] = IF pc[r] = "create" THEN "recall" ELSE "session"
    <2>1. answer' = answer \/ \E u \in Uids : answer' = [answer EXCEPT ![r] = u]
      BY <1>6, <1>7 DEF Inserts
    <2>2. who' = who \/ \E u \in Uids : who' = [who EXCEPT ![r] = u]
      BY <1>2, <1>6, <1>7
    <2>3. call' = call /\ copy' = copy
      BY <1>2
    <2> QED BY <1>4, <1>5, <2>1, <2>2, <2>3, AloneIf
  <1>10. who'[r] = Len(users) + 1
    BY <1>2, <1>7, TypesOf
  <1>11. pc[r] = "create" => answer'[r] = Len(users) + 1
    <2>1. ASSUME pc[r] = "create" PROVE answer' = [answer EXCEPT ![r] = Len(users')]
      BY <2>1 DEF Inserts
    <2> QED BY <2>1, <1>7, TypesOf
  <1>12. call[r].email \in Addresses
    BY <1>1 DEF Row
  <1>13. DOMAIN users = 1..Len(users)
    BY TypesOf
  <1> QED BY <1>1, <1>2, <1>3, <1>4, <1>6, <1>7, <1>8, <1>9, <1>10, <1>11, <1>12, <1>13

\* A step that inserts a user keeps the types.
LEMMA InsertsTypes ==
    ASSUME TypeInv, NEW r \in Requests, Inserts(r)
    PROVE  TypeInv'
  <1>1. /\ UNCHANGED <<tokens, socials, sessions, call, copy, overlapped, contested>>
        /\ pc[r] \in {"create", "insert"}
        /\ Alone(r) /\ pc'[r] = IF pc[r] = "create" THEN "recall" ELSE "session"
        /\ who'[r] = Len(users) + 1
    BY InsertedRow
  <1>2. /\ DOMAIN users' = 1..(Len(users) + 1) /\ Len(users') = Len(users) + 1
        /\ Len(users) \in Nat /\ DOMAIN users = 1..Len(users)
    BY InsertedRow, TypesOf, LenProperties
  <1>3. Local(r)'
    BY <1>1, <1>2, TypesOf DEF Local, Knowing, Copied, Op
  <1>4. Len(users') <= 1 + Cardinality(Past')
    BY <1>2, PastGrows, InsertedRow DEF TypeInv
  <1>5. /\ tokens' \in [Ids -> Token \cup {None}]
        /\ \A t \in Ids : tokens[t] \in Token => tokens'[t] \in Token
        /\ sessions' \in [Ids -> DOMAIN users' \cup {0, None}]
    <2>1. DOMAIN users \subseteq DOMAIN users'
      BY <1>2
    <2> QED BY <1>1, <2>1, TypesOf
  <1>6. /\ socials' \in [Requests -> Uids \cup {0}] /\ contested' \subseteq Ids
        /\ overlapped' \subseteq Uids /\ excused' \subseteq Addresses
    <2>1. excused' \subseteq excused \cup {call[r].email} /\ call[r].email \in Addresses
      BY InsertedRow
    <2> QED BY <1>1, <2>1 DEF TypeInv, TypeOK
  <1>7. Len(users) <= Len(users')
    BY <1>2
  <1>8. users' \in Seq(Row) /\ book' \in Seq(Row) /\ Len(book') = Len(users')
    BY InsertedRow
  <1>9. pc[r] \in PastSteps => pc'[r] \in PastSteps
    BY InsertedRow
  <1> QED BY <1>1, <1>3, <1>4, <1>5, <1>6, <1>7, <1>8, <1>9, TypesIf

\* The steps that store a session, a token or the row of a social login: none
\* of them touches the users, and all but the last end their request.
Others(r) ==
    \/ SaveSocial(r) /\ pc'[r] = "session"
    \/ SetSession(r) /\ pc'[r] = "done"
    \/ ClearSession(r) /\ pc'[r] = "done"
    \/ IssueToken(r) /\ pc'[r] = "done"
    \/ SpendToken(r) /\ pc'[r] = "done"

\* What they leave alone, and what they store.
LEMMA OthersDo ==
    ASSUME TypeInv, NEW r \in Requests, Others(r)
    PROVE  /\ UNCHANGED <<users, book, overlapped, excused, call, who, copy>>
           /\ Alone(r) /\ pc[r] \in PastSteps /\ pc'[r] \in PastSteps
           /\ pc'[r] = IF pc[r] = "social" THEN "session" ELSE "done"
           /\ pc[r] \in {"social", "session", "clear", "issue", "spend"}
           /\ IF pc[r] = "social" THEN who[r] \in DOMAIN users /\ socials' = [socials EXCEPT ![r] = who[r]]
              ELSE UNCHANGED socials
           /\ IF pc[r] = "session"
              THEN /\ who[r] \in DOMAIN users /\ sessions' = [sessions EXCEPT ![r] = who[r]]
                   /\ answer'[r] = IF Op(r) = "login" THEN who[r] ELSE answer[r]
              ELSE /\ UNCHANGED answer
                   /\ IF pc[r] = "clear"
                      THEN call[r].session \in Ids /\ sessions' = [sessions EXCEPT ![call[r].session] = 0]
                      ELSE UNCHANGED sessions
           /\ IF pc[r] = "issue"
              THEN who[r] \in DOMAIN users /\ tokens' = [tokens EXCEPT ![r] = [uid |-> who[r], used |-> FALSE]]
              ELSE IF pc[r] = "spend"
              THEN /\ tokens' = [tokens EXCEPT ![call[r].token].used = TRUE]
                   /\ contested' = IF Spending(call[r].token) = {r} THEN contested
                                   ELSE contested \cup {call[r].token}
              ELSE UNCHANGED tokens
           /\ pc[r] # "spend" => UNCHANGED contested
  <1>0. Local(r) /\ r \in Ids /\ pc \in [Requests -> AllSteps] /\ DOMAIN users \subseteq Uids
    BY TypesOf
  <1>1. CASE SaveSocial(r) /\ pc'[r] = "session"
    <2>1. /\ pc[r] = "social" /\ pc' = [pc EXCEPT ![r] = "session"]
          /\ socials' = [socials EXCEPT ![r] = who[r]]
          /\ UNCHANGED <<users, tokens, sessions, call, who, copy, answer, book, overlapped, excused, contested>>
      BY <1>0, <1>1 DEF SaveSocial, Fails, Skip, Goto, locals, history
    <2>2. "session" \in AllSteps /\ "session" \in PastSteps /\ "social" \in PastSteps
      BY DEF AllSteps, PastSteps, Steps
    <2>3. Alone(r) /\ pc'[r] = "session"
      BY <2>1, <2>2, AloneIf
    <2>4. who[r] \in DOMAIN users
      BY <1>0, <2>1 DEF Local, Knowing
    <2> QED BY <2>1, <2>2, <2>3, <2>4

  <1>2. CASE SetSession(r) /\ pc'[r] = "done"
    <2>1. /\ pc[r] = "session" /\ pc' = [pc EXCEPT ![r] = "done"]
          /\ sessions' = [sessions EXCEPT ![r] = who[r]]
          /\ answer' = [answer EXCEPT ![r] = IF Op(r) = "login" THEN who[r] ELSE @]
          /\ UNCHANGED <<users, tokens, socials, call, who, copy, book, overlapped, excused, contested>>
      BY <1>0, <1>2 DEF SetSession, Fails, Skip, Goto, history
    <2>2. "done" \in AllSteps /\ "done" \in PastSteps /\ "session" \in PastSteps
      BY DEF AllSteps, PastSteps, Steps, Ended
    <2>3. who[r] \in DOMAIN users /\ who[r] \in Uids
      BY <1>0, <2>1 DEF Local, Knowing
    <2>4. answer' = answer \/ \E u \in Uids : answer' = [answer EXCEPT ![r] = u]
      <3>1. CASE Op(r) = "login"
        BY <2>1, <2>3, <3>1
      <3>2. CASE Op(r) # "login"
        <4>1. answer' = [answer EXCEPT ![r] = answer[r]] /\ answer \in [Requests -> Uids \cup {0}]
          BY <2>1, <3>2, TypesOf
        <4> QED BY <4>1
      <3> QED BY <3>1, <3>2
    <2>5. Alone(r) /\ pc'[r] = "done"
      BY <2>1, <2>2, <2>4, AloneIf
    <2>6. answer'[r] = IF Op(r) = "login" THEN who[r] ELSE answer[r]
      BY <2>1, TypesOf
    <2> QED BY <2>1, <2>2, <2>3, <2>5, <2>6
  <1>3. CASE ClearSession(r) /\ pc'[r] = "done"
    <2>1. /\ pc[r] = "clear" /\ pc' = [pc EXCEPT ![r] = "done"]
          /\ sessions' = [sessions EXCEPT ![call[r].session] = 0]
          /\ UNCHANGED <<users, tokens, socials, call, who, copy, answer, book, overlapped, excused, contested>>
      BY <1>0, <1>3 DEF ClearSession, Fails, Skip, Goto, locals, history
    <2>2. "done" \in AllSteps /\ "done" \in PastSteps /\ "clear" \in PastSteps
      BY DEF AllSteps, PastSteps, Steps, Ended
    <2>3. Alone(r) /\ pc'[r] = "done"
      BY <2>1, <2>2, AloneIf
    <2>4. call[r].session \in Ids
      BY <1>0, <2>1, TypesOf, CallFields DEF Local, Op
    <2> QED BY <2>1, <2>2, <2>3, <2>4
  <1>4. CASE IssueToken(r) /\ pc'[r] = "done"
    <2>1. /\ pc[r] = "issue" /\ pc' = [pc EXCEPT ![r] = "done"]
          /\ tokens' = [tokens EXCEPT ![r] = [uid |-> who[r], used |-> FALSE]]
          /\ UNCHANGED <<users, socials, sessions, call, who, copy, answer, book, overlapped, excused, contested>>
      BY <1>0, <1>4 DEF IssueToken, Fails, Skip, Goto, locals, history
    <2>2. "done" \in AllSteps /\ "done" \in PastSteps /\ "issue" \in PastSteps
      BY DEF AllSteps, PastSteps, Steps, Ended
    <2>3. Alone(r) /\ pc'[r] = "done"
      BY <2>1, <2>2, AloneIf
    <2>4. who[r] \in DOMAIN users
      BY <1>0, <2>1 DEF Local, Knowing
    <2> QED BY <2>1, <2>2, <2>3, <2>4
  <1>5. CASE SpendToken(r) /\ pc'[r] = "done"
    <2>1. /\ pc[r] = "spend" /\ pc' = [pc EXCEPT ![r] = "done"]
          /\ tokens' = [tokens EXCEPT ![call[r].token].used = TRUE]
          /\ contested' = IF Spending(call[r].token) = {r} THEN contested
                          ELSE contested \cup {call[r].token}
          /\ UNCHANGED <<users, socials, sessions, call, who, copy, answer, book, overlapped, excused>>
      BY <1>0, <1>5 DEF SpendToken, Fails, Skip, Goto, locals
    <2>2. "done" \in AllSteps /\ "done" \in PastSteps /\ "spend" \in PastSteps
      BY DEF AllSteps, PastSteps, Steps, Ended
    <2>3. Alone(r) /\ pc'[r] = "done"
      BY <2>1, <2>2, AloneIf
    <2> QED BY <2>1, <2>2, <2>3
  <1> QED BY <1>1, <1>2, <1>3, <1>4, <1>5 DEF Others

\* They keep the types.
LEMMA OthersTypes ==
    ASSUME TypeInv, NEW r \in Requests, Others(r)
    PROVE  TypeInv'
  <1>1. /\ UNCHANGED <<users, book, overlapped, excused, call, who, copy>>
        /\ Alone(r) /\ pc'[r] \in {"session", "done"}
        /\ pc'[r] = "session" => pc[r] = "social"
        /\ pc[r] \in PastSteps => pc'[r] \in PastSteps
    BY OthersDo
  <1>2. Local(r)'
    BY <1>1, TypesOf DEF Local, Knowing, Copied, Op
  <1>3. Len(users) \in Nat /\ Len(users) <= 1 + Cardinality(Past')
    BY <1>1, PastGrows, TypesOf DEF TypeInv
  <1>4. /\ users' \in Seq(Row) /\ book' \in Seq(Row) /\ Len(book') = Len(users')
        /\ Len(users) <= Len(users') /\ Len(users') <= 1 + Cardinality(Past')
    BY <1>1, <1>3, TypesOf
  <1>5. /\ tokens' \in [Ids -> Token \cup {None}]
        /\ \A t \in Ids : tokens[t] \in Token => tokens'[t] \in Token
    <2>1. CASE pc[r] = "issue"
      <3>1. /\ tokens' = [tokens EXCEPT ![r] = [uid |-> who[r], used |-> FALSE]]
            /\ [uid |-> who[r], used |-> FALSE] \in Token
        BY <2>1, OthersDo, TypesOf DEF Token
      <3> QED BY <3>1, TypesOf
    <2>2. CASE pc[r] = "spend"
      <3>1. tokens' = [tokens EXCEPT ![call[r].token].used = TRUE]
        BY <2>2, OthersDo
      <3>2. call[r].token \in Ids /\ tokens[call[r].token] \in Token
        BY <2>2, TypesOf, CallFields DEF Local, Op
      <3>3. [tokens[call[r].token] EXCEPT !.used = TRUE] \in Token
        BY <3>2 DEF Token
      <3> QED BY <3>1, <3>2, <3>3, TypesOf
    <2>3. CASE pc[r] \notin {"issue", "spend"}
      BY <2>3, OthersDo, TypesOf
    <2> QED BY <2>1, <2>2, <2>3
  <1>6. sessions' \in [Ids -> DOMAIN users' \cup {0, None}]
    <2>1. r \in Ids /\ sessions \in [Ids -> DOMAIN users \cup {0, None}]
      BY TypesOf
    <2>2. \/ sessions' = sessions
          \/ who[r] \in DOMAIN users /\ sessions' = [sessions EXCEPT ![r] = who[r]]
          \/ call[r].session \in Ids /\ sessions' = [sessions EXCEPT ![call[r].session] = 0]
      BY OthersDo
    <2> QED BY <1>1, <2>1, <2>2
  <1>7. socials' \in [Requests -> Uids \cup {0}]
    <2>1. socials' = socials \/ (who[r] \in Uids /\ socials' = [socials EXCEPT ![r] = who[r]])
      BY OthersDo, TypesOf
    <2> QED BY <2>1 DEF TypeInv, TypeOK
  <1>8. overlapped' \subseteq Uids /\ excused' \subseteq Addresses /\ contested' \subseteq Ids
    <2>1. contested' \subseteq Ids
      <3>1. pc[r] = "spend" => call[r].token \in Ids
        BY TypesOf, CallFields DEF Local, Op
      <3>2. contested' = contested \/ (pc[r] = "spend" /\ contested' = contested \cup {call[r].token})
        BY OthersDo
      <3> QED BY <3>1, <3>2 DEF TypeInv, TypeOK
    <2> QED BY <1>1, <2>1 DEF TypeInv, TypeOK
  <1> QED BY <1>1, <1>2, <1>4, <1>5, <1>6, <1>7, <1>8, TypesIf

\* A step is of one of four kinds.
LEMMA FourKinds ==
    ASSUME TypeInv, Next
    PROVE  \E r \in Requests : Moves(r) \/ Writes(r) \/ Inserts(r) \/ Others(r)
  BY NextEffects DEF Effect, Others

\* Types are kept by every step.
LEMMA NextTypes ==
    ASSUME TypeInv, [Next]_vars
    PROVE  TypeInv'
  <1>1. CASE Next
    BY <1>1, FourKinds, MovesTypes, WritesTypes, InsertsTypes, OthersTypes
  <1>2. CASE UNCHANGED vars
    <2>1. UNCHANGED <<users, tokens, socials, sessions, call, pc, who, copy, answer>>
          /\ UNCHANGED <<book, overlapped, excused, contested>>
      BY <1>2 DEF vars, stores, locals, history
    <2>2. TypeOK' /\ Len(users') <= 1 + Cardinality(Past')
      BY <2>1 DEF TypeInv, TypeOK, Past
    <2>3. \A r \in Requests : Local(r)'
      BY <2>1 DEF TypeInv, Local, Op
    <2> QED BY <2>1, <2>2, <2>3 DEF TypeInv
  <1> QED BY <1>1, <1>2

\* Types hold at the start.
LEMMA InitTypes ==
    ASSUME Init
    PROVE  TypeInv
  <1>1. /\ users \in [1..1 -> Row] /\ Len(users) = 1 /\ users \in Seq(Row) /\ DOMAIN users = 1..1
    <2>1. users \in [1..1 -> Row]
      BY DEF Init, Row
    <2>2. users \in Seq(Row)
      BY <2>1, SeqDef
    <2>3. DOMAIN users = 1..1 /\ Len(users) = 1
      BY <2>1, <2>2, LenProperties
    <2> QED BY <2>1, <2>2, <2>3
  <1>2. Cardinality(Requests) \in Nat /\ 1 \in Uids /\ DOMAIN users \subseteq Uids
    BY <1>1, BoundsAreTyped, FS_CardinalityType DEF Uids
  <1>3. Past = {} /\ Cardinality(Past) = 0
    BY FS_EmptySet DEF Past, PastSteps, Init
  <1>4. /\ tokens \in [Ids -> Token \cup {None}]
        /\ sessions \in [Ids -> Uids \cup {0, None}]
        /\ sessions \in [Ids -> DOMAIN users \cup {0, None}]
    BY <1>1, <1>2 DEF Init, Token
  <1>5. TypeOK
    BY <1>1, <1>2, <1>4 DEF TypeOK, Init, Row, Token
  <1>6. \A r \in Requests : Local(r)
    BY DEF Init, Local, Knowing, Copied
  <1> QED BY <1>1, <1>3, <1>4, <1>5, <1>6 DEF TypeInv

\* Every variable has its type: there is a uid for every user, for every session
\* that is open and for every request that has read a row.
THEOREM TypeCorrectness == Spec => []TypeOK
  <1>1. Init => TypeInv
    BY InitTypes
  <1>2. TypeInv /\ [Next]_vars => TypeInv'
    BY NextTypes
  <1>3. TypeInv => TypeOK
    BY DEF TypeInv
  <1> QED BY <1>1, <1>2, <1>3, PTL DEF Spec


-----------------------------------------------------------------------------
(***************************************************************************)
(* Addresses.  A request that is about to insert an address has found no   *)
(* user at it: there is none yet, unless the address is excused.           *)
(***************************************************************************)
Fresh ==
    \A r \in Requests :
        pc[r] \in {"create", "insert"} => At(call[r].email) = {} \/ call[r].email \in excused

UniqueInv == TypeInv /\ AddressesAreUnique /\ Fresh

\* A write that gives a user another address excuses it.
LEMMA WrittenAddress ==
    ASSUME TypeInv, NEW r \in Requests, Writes(r)
    PROVE  /\ excused \subseteq excused'
           /\ users'[who[r]].email = users[who[r]].email \/ users'[who[r]].email \in excused'
  <1>1. PICK row \in Row, meant \in Row : Write(r, who[r], row, meant)
    BY DEF Writes
  <1>2. who[r] \in DOMAIN users
    BY WrittenRows
  <1>3. /\ users' = [users EXCEPT ![who[r]] = row]
        /\ excused' = IF row.email = users[who[r]].email THEN excused ELSE excused \cup {row.email}
    BY <1>1 DEF Write
  <1> QED BY <1>2, <1>3

\* Moves and the steps that leave the users alone.
LEMMA UniqueStays ==
    ASSUME UniqueInv, NEW r \in Requests, Moves(r) \/ Others(r)
    PROVE  AddressesAreUnique' /\ Fresh'
  <1>0. TypeInv /\ AddressesAreUnique /\ Fresh
    BY DEF UniqueInv
  <1>1. UNCHANGED <<users, excused>>
    BY <1>0, OthersDo DEF Moves, stores, history
  <1>2. AddressesAreUnique'
    BY <1>0, <1>1 DEF AddressesAreUnique
  <1>3. ASSUME NEW q \in Requests, pc'[q] \in {"create", "insert"}
        PROVE  At(call[q].email)' = {} \/ call'[q].email \in excused'
    <2>1. At(call[q].email)' = {u \in DOMAIN users : users[u].email = call'[q].email}
      BY <1>1 DEF At
    <2>2. CASE q = r
      <3>1. ~Others(r)
        BY <1>0, <1>3, <2>2, OthersDo
      <3>2. At(call'[r].email) = {}
        BY <1>3, <2>2, <3>1 DEF Moves
      <3> QED BY <2>1, <2>2, <3>2 DEF At
    <2>3. CASE q # r
      <3>1. pc'[q] = pc[q] /\ call'[q] = call[q]
        BY <1>0, <2>3, OthersDo DEF Moves, Alone
      <3> QED BY <1>0, <1>1, <1>3, <3>1 DEF Fresh, At
    <2> QED BY <2>2, <2>3
  <1> QED BY <1>2, <1>3 DEF Fresh

\* Writes.
LEMMA UniqueWrites ==
    ASSUME UniqueInv, NEW r \in Requests, Writes(r)
    PROVE  AddressesAreUnique' /\ Fresh'
  <1>0. TypeInv /\ AddressesAreUnique /\ Fresh
    BY DEF UniqueInv
  <1>1. /\ DOMAIN users' = DOMAIN users /\ who[r] \in DOMAIN users
        /\ \A u \in DOMAIN users \ {who[r]} : users'[u] = users[u]
        /\ excused \subseteq excused'
        /\ users'[who[r]].email = users[who[r]].email \/ users'[who[r]].email \in excused'
    BY <1>0, WrittenRows, WrittenAddress, TypesOf, LenProperties
  <1>2. \A u \in DOMAIN users : users'[u].email = users[u].email \/ users'[u].email \in excused'
    BY <1>1
  <1>3. AddressesAreUnique'
    <2> SUFFICES ASSUME NEW u \in DOMAIN users, NEW v \in DOMAIN users,
                        users'[u].email = users'[v].email, u # v
                 PROVE  users'[u].email \in excused'
      BY <1>1 DEF AddressesAreUnique
    <2> QED BY <1>0, <1>1, <1>2 DEF AddressesAreUnique
  <1>4. ASSUME NEW q \in Requests, pc'[q] \in {"create", "insert"}, call'[q].email \notin excused'
        PROVE  At(call[q].email)' = {}
    <2>1. q # r
      BY <1>0, <1>4, WrittenRows DEF PastSteps
    <2>2. pc'[q] = pc[q] /\ call'[q] = call[q]
      BY <1>0, <2>1, WrittenRows DEF Alone
    <2>3. At(call[q].email) = {}
      BY <1>0, <1>1, <1>4, <2>2 DEF Fresh
    <2> QED BY <1>1, <1>2, <1>4, <2>2, <2>3 DEF At
  <1> QED BY <1>3, <1>4 DEF Fresh

\* Inserts.
LEMMA UniqueInserts ==
    ASSUME UniqueInv, NEW r \in Requests, Inserts(r)
    PROVE  AddressesAreUnique' /\ Fresh'
  <1> DEFINE e == call[r].email
             n == Len(users) + 1
  <1>0. TypeInv /\ AddressesAreUnique /\ Fresh
    BY DEF UniqueInv
  <1>1. /\ DOMAIN users' = DOMAIN users \cup {n} /\ n \notin DOMAIN users
        /\ \A u \in DOMAIN users : users'[u] = users[u]
        /\ users'[n].email = e
    <2>1. /\ users' \in Seq(Row) /\ Len(users') = n /\ DOMAIN users = 1..Len(users)
          /\ Len(users) \in Nat
      BY <1>0, InsertedRow, TypesOf
    <2>2. DOMAIN users' = 1..n
      BY <2>1, LenProperties
    <2> QED BY <1>0, <2>1, <2>2, InsertedRow
  <1>2. /\ excused' = IF Creating(e) \ {r} = {} THEN excused ELSE excused \cup {e}
        /\ pc[r] \in {"create", "insert"}
    BY <1>0, InsertedRow
  <1>3. At(e) = {} \/ e \in excused
    BY <1>0, <1>2 DEF Fresh
  <1> HIDE DEF n
  <1>4. AddressesAreUnique'
    <2> SUFFICES ASSUME NEW u \in DOMAIN users', NEW v \in DOMAIN users',
                        users'[u].email = users'[v].email, u # v
                 PROVE  users'[u].email \in excused'
      BY DEF AddressesAreUnique
    <2>1. CASE u \in DOMAIN users /\ v \in DOMAIN users
      BY <1>0, <1>1, <1>2, <2>1 DEF AddressesAreUnique
    <2>2. CASE u = n /\ v \in DOMAIN users
      BY <1>1, <1>2, <1>3, <2>2 DEF At
    <2>3. CASE v = n /\ u \in DOMAIN users
      BY <1>1, <1>2, <1>3, <2>3 DEF At
    <2> QED BY <1>1, <2>1, <2>2, <2>3
  <1>5. ASSUME NEW q \in Requests, pc'[q] \in {"create", "insert"}, call'[q].email \notin excused'
        PROVE  At(call[q].email)' = {}
    <2>1. q # r
      BY <1>0, <1>5, InsertedRow DEF PastSteps
    <2>2. pc'[q] = pc[q] /\ call'[q] = call[q]
      BY <1>0, <2>1, InsertedRow DEF Alone
    <2>3. call[q].email # e
      BY <1>2, <1>5, <2>1, <2>2 DEF Creating
    <2>4. At(call[q].email) = {}
      BY <1>0, <1>2, <1>5, <2>2 DEF Fresh
    <2> QED BY <1>1, <2>2, <2>3, <2>4 DEF At
  <1> QED BY <1>4, <1>5 DEF Fresh

\* Two accounts share an address only after an edit that gave it, or after two
\* calls that created it at the same time: whatever else runs, the look-up of a
\* registration or of a first social login keeps addresses apart.
THEOREM AddressesStayApart == Spec => []AddressesAreUnique
  <1>1. Init => UniqueInv
    <2> SUFFICES ASSUME Init PROVE UniqueInv
      OBVIOUS
    <2>1. TypeInv /\ DOMAIN users = {1}
      <3>1. users \in [1..1 -> Row]
        BY DEF Init, Row
      <3> QED BY <3>1, InitTypes
    <2> QED BY <2>1 DEF UniqueInv, AddressesAreUnique, Fresh, Init
  <1>2. UniqueInv /\ [Next]_vars => UniqueInv'
    <2> SUFFICES ASSUME UniqueInv, [Next]_vars PROVE UniqueInv'
      OBVIOUS
    <2>1. TypeInv /\ TypeInv'
      BY NextTypes DEF UniqueInv
    <2>2. CASE Next
      <3>1. AddressesAreUnique' /\ Fresh'
        BY <2>1, <2>2, FourKinds, UniqueStays, UniqueWrites, UniqueInserts
      <3> QED BY <2>1, <3>1 DEF UniqueInv
    <2>3. CASE UNCHANGED vars
      <3>1. UNCHANGED <<users, excused, pc, call>>
        BY <2>3 DEF vars, stores, history
      <3>2. AddressesAreUnique' /\ Fresh'
        BY <3>1 DEF UniqueInv, AddressesAreUnique, Fresh, At
      <3> QED BY <2>1, <3>2 DEF UniqueInv
    <2> QED BY <2>2, <2>3
  <1>3. UniqueInv => AddressesAreUnique
    BY DEF UniqueInv
  <1> QED BY <1>1, <1>2, <1>3, PTL DEF Spec


-----------------------------------------------------------------------------
(***************************************************************************)
(* Rows.  While no write has overlapped another at a row, what every       *)
(* request has read of it, or has found out about it, is still so.         *)
(***************************************************************************)
Current ==
    \A r \in Requests :
        who[r] \notin overlapped =>
            /\ pc[r] \in Copied => copy[r] = users[who[r]]
            /\ pc[r] = "upgrade" => users[who[r]].md5 /\ users[who[r]].word = call[r].word

ExplainedInv == TypeInv /\ RowsAreExplained /\ Current

\* Moves and the steps that leave the users alone.
LEMMA ExplainedStays ==
    ASSUME ExplainedInv, NEW r \in Requests, Moves(r) \/ Others(r)
    PROVE  RowsAreExplained' /\ Current'
  <1>0. TypeInv /\ RowsAreExplained /\ Current
    BY DEF ExplainedInv
  <1>1. UNCHANGED <<users, book, overlapped>>
    BY <1>0, OthersDo DEF Moves, stores, history
  <1>2. RowsAreExplained'
    BY <1>0, <1>1 DEF RowsAreExplained
  <1>3. ASSUME NEW q \in Requests, who'[q] \notin overlapped'
        PROVE  /\ pc'[q] \in Copied => copy'[q] = users'[who'[q]]
               /\ pc'[q] = "upgrade" => users'[who'[q]].md5 /\ users'[who'[q]].word = call'[q].word
    <2>1. CASE q = r
      <3>1. CASE Moves(r)
        BY <1>0, <1>1, <1>3, <2>1, <3>1 DEF Moves, Current
      <3>2. CASE Others(r)
        BY <1>0, <2>1, <3>2, OthersDo DEF Copied
      <3> QED BY <3>1, <3>2
    <2>2. CASE q # r
      <3>1. /\ pc'[q] = pc[q] /\ call'[q] = call[q] /\ who'[q] = who[q] /\ copy'[q] = copy[q]
        BY <1>0, <2>2, OthersDo DEF Moves, Alone
      <3> QED BY <1>0, <1>1, <1>3, <3>1 DEF Current
    <2> QED BY <2>1, <2>2
  <1> QED BY <1>2, <1>3 DEF Current

\* Writes.
LEMMA ExplainedWrites ==
    ASSUME ExplainedInv, NEW r \in Requests, Writes(r)
    PROVE  RowsAreExplained' /\ Current'
  <1> DEFINE u == who[r]
  <1>0. TypeInv /\ RowsAreExplained /\ Current
    BY DEF ExplainedInv
  <1>1. PICK row \in Row, meant \in Row :
          /\ Write(r, u, row, meant)
          /\ /\ users[u] = book[u]
             /\ pc[r] \in Copied => copy[r] = users[u]
             /\ pc[r] = "upgrade" => users[u].md5 /\ users[u].word = call[r].word
             => row = meant
    BY DEF Writes
  <1>2. /\ DOMAIN users' = DOMAIN users /\ DOMAIN book = DOMAIN users /\ u \in DOMAIN users
        /\ \A v \in DOMAIN users \ {u} : users'[v] = users[v] /\ book'[v] = book[v]
    BY <1>0, WrittenRows, TypesOf, LenProperties
  <1>3. /\ users' = [users EXCEPT ![u] = row] /\ book' = [book EXCEPT ![u] = meant]
        /\ overlapped' = IF Holding(u) \ {r} = {} THEN overlapped ELSE overlapped \cup {u}
    BY <1>1 DEF Write
  <1>4. overlapped \subseteq overlapped'
        /\ (u \notin overlapped' => u \notin overlapped /\ Holding(u) \ {r} = {})
    BY <1>3
  <1>5. RowsAreExplained'
    <2> SUFFICES ASSUME NEW v \in DOMAIN users, v \notin overlapped' PROVE users'[v] = book'[v]
      BY <1>2 DEF RowsAreExplained
    <2>1. CASE v # u
      BY <1>0, <1>2, <1>4, <2>1 DEF RowsAreExplained
    <2>2. CASE v = u
      <3>1. users[u] = book[u]
        BY <1>0, <1>2, <1>4, <2>2 DEF RowsAreExplained
      <3>2. row = meant
        BY <1>0, <1>1, <1>4, <2>2, <3>1 DEF Current
      <3> QED BY <1>2, <1>3, <2>2, <3>2
    <2> QED BY <2>1, <2>2
  <1>6. ASSUME NEW q \in Requests, who'[q] \notin overlapped'
        PROVE  /\ pc'[q] \in Copied => copy'[q] = users'[who'[q]]
               /\ pc'[q] = "upgrade" => users'[who'[q]].md5 /\ users'[who'[q]].word = call'[q].word
    <2>1. CASE q = r
      <3>1. pc'[r] \in {"session", "spend", "done"}
        <4>1. /\ pc'[r] = AfterWrite[pc[r]]
              /\ pc[r] \in {"upgrade", "password", "store", "reputation"}
          BY <1>0, WrittenRows DEF Writes
        <4> QED BY <4>1 DEF AfterWrite
      <3> QED BY <2>1, <3>1 DEF Copied
    <2>2. CASE q # r
      <3>1. /\ pc'[q] = pc[q] /\ call'[q] = call[q] /\ who'[q] = who[q] /\ copy'[q] = copy[q]
        BY <1>0, <2>2, WrittenRows DEF Alone
      <3>2. CASE who[q] = u
        BY <1>4, <1>6, <2>2, <3>1, <3>2 DEF Holding, Copied
      <3>3. CASE who[q] # u
        <4>1. pc[q] \in Knowing => users'[who[q]] = users[who[q]]
          BY <1>0, <1>2, <3>3, TypesOf DEF Local
        <4> QED BY <1>0, <1>4, <1>6, <3>1, <4>1 DEF Current, Knowing, Copied
      <3> QED BY <3>2, <3>3
    <2> QED BY <2>1, <2>2
  <1> QED BY <1>5, <1>6 DEF Current

\* Inserts.
LEMMA ExplainedInserts ==
    ASSUME ExplainedInv, NEW r \in Requests, Inserts(r)
    PROVE  RowsAreExplained' /\ Current'
  <1> DEFINE n == Len(users) + 1
  <1>0. TypeInv /\ RowsAreExplained /\ Current
    BY DEF ExplainedInv
  <1>1. /\ DOMAIN users' = DOMAIN users \cup {n}
        /\ \A u \in DOMAIN users : users'[u] = users[u] /\ book'[u] = book[u]
        /\ users'[n] = book'[n] /\ overlapped' = overlapped
    <2>1. /\ users' \in Seq(Row) /\ Len(users') = n /\ DOMAIN users = 1..Len(users)
          /\ Len(users) \in Nat
      BY <1>0, InsertedRow, TypesOf
    <2>2. DOMAIN users' = 1..n
      BY <2>1, LenProperties
    <2> QED BY <1>0, <2>1, <2>2, InsertedRow
  <1> HIDE DEF n
  <1>2. RowsAreExplained'
    BY <1>0, <1>1 DEF RowsAreExplained
  <1>3. ASSUME NEW q \in Requests, who'[q] \notin overlapped'
        PROVE  /\ pc'[q] \in Copied => copy'[q] = users'[who'[q]]
               /\ pc'[q] = "upgrade" => users'[who'[q]].md5 /\ users'[who'[q]].word = call'[q].word
    <2>1. CASE q = r
      BY <1>0, <2>1, InsertedRow DEF Copied
    <2>2. CASE q # r
      <3>1. /\ pc'[q] = pc[q] /\ call'[q] = call[q] /\ who'[q] = who[q] /\ copy'[q] = copy[q]
        BY <1>0, <2>2, InsertedRow DEF Alone
      <3>2. pc[q] \in Knowing => users'[who[q]] = users[who[q]]
        BY <1>0, <1>1, TypesOf DEF Local
      <3> QED BY <1>0, <1>1, <1>3, <3>1, <3>2 DEF Current, Knowing, Copied
    <2> QED BY <2>1, <2>2
  <1> QED BY <1>2, <1>3 DEF Current

\* A row is the sum of what the calls asked for unless one of them wrote it
\* while another was about to write what it had read: saving whole rows loses
\* nothing else, however reads and writes of different users interleave.
THEOREM RowsAddUp == Spec => []RowsAreExplained
  <1>1. Init => ExplainedInv
    <2> SUFFICES ASSUME Init PROVE ExplainedInv
      OBVIOUS
    <2>1. TypeInv
      BY InitTypes
    <2>2. RowsAreExplained /\ Current
      BY DEF Init, RowsAreExplained, Current, Copied
    <2> QED BY <2>1, <2>2 DEF ExplainedInv
  <1>2. ExplainedInv /\ [Next]_vars => ExplainedInv'
    <2> SUFFICES ASSUME ExplainedInv, [Next]_vars PROVE ExplainedInv'
      OBVIOUS
    <2>1. TypeInv /\ TypeInv'
      BY NextTypes DEF ExplainedInv
    <2>2. CASE Next
      <3>1. RowsAreExplained' /\ Current'
        BY <2>1, <2>2, FourKinds, ExplainedStays, ExplainedWrites, ExplainedInserts
      <3> QED BY <2>1, <3>1 DEF ExplainedInv
    <2>3. CASE UNCHANGED vars
      <3>1. UNCHANGED <<users, book, overlapped, pc, call, who, copy>>
        BY <2>3 DEF vars, stores, locals, history
      <3>2. RowsAreExplained' /\ Current'
        BY <3>1 DEF ExplainedInv, RowsAreExplained, Current
      <3> QED BY <2>1, <3>2 DEF ExplainedInv
    <2> QED BY <2>2, <2>3
  <1>3. ExplainedInv => RowsAreExplained
    BY DEF ExplainedInv
  <1> QED BY <1>1, <1>2, <1>3, PTL DEF Spec


-----------------------------------------------------------------------------
(***************************************************************************)
(* Tokens.  A token for which a request was told that its password is set  *)
(* is marked as used, and nobody is about to mark it again.                *)
(***************************************************************************)
Spent(t) == tokens[t] \in Token /\ tokens[t].used /\ Spending(t) = {}

SpentOnce ==
    \A t \in Ids \ contested :
        /\ \A q, r \in Resets(t) : q = r
        /\ Resets(t) # {} => Spent(t)

\* the token a request issues is the end of it
Issued == \A r \in Requests : tokens[r] \in Token => pc[r] = "done"

SpentInv == TypeInv /\ Issued /\ SpentOnce

\* A request that is not told of a new password, and does not come to spend a
\* token, changes neither set of requests.
LEMMA SpendersStay ==
    ASSUME NEW r \in Requests, NEW t,
           \A q \in Requests \ {r} : pc'[q] = pc[q] /\ call'[q] = call[q],
           ~(pc'[r] = "done" /\ Op(r)' = "reset" /\ call'[r].word # None /\ call'[r].token = t)
    PROVE  /\ Resets(t)' \subseteq Resets(t)
           /\ Spending(t)' \subseteq Spending(t) \cup {r}
           /\ ~(pc'[r] \in {"password", "spend"} /\ call'[r].token = t)
                 => Spending(t)' \subseteq Spending(t)
  BY DEF Resets, Spending, Op

\* Moves.
LEMMA SpentMoves ==
    ASSUME SpentInv, NEW r \in Requests, Moves(r)
    PROVE  Issued' /\ SpentOnce'
  <1>0. TypeInv /\ Issued /\ SpentOnce
    BY DEF SpentInv
  <1>1. /\ UNCHANGED <<tokens, contested>> /\ pc[r] \notin Ended
        /\ \A q \in Requests \ {r} : pc'[q] = pc[q] /\ call'[q] = call[q]
        /\ pc'[r] \in {"password", "spend"} => ~tokens[call'[r].token].used
        /\ pc'[r] = "done" => Op(r)' = "reset" /\ call'[r].word = None
    BY DEF Moves, Alone, stores, history
  <1>2. Issued'
    BY <1>0, <1>1 DEF Issued, Ended
  <1>3. ASSUME NEW t \in Ids \ contested
        PROVE  /\ \A p, q \in Resets(t)' : p = q
               /\ Resets(t)' # {} => Spent(t)'
    <2>1. Resets(t)' \subseteq Resets(t)
      BY <1>1, SpendersStay
    <2>2. ASSUME Resets(t)' # {} PROVE Spent(t)'
      <3>1. Spent(t)
        BY <1>0, <2>1, <2>2 DEF SpentOnce
      <3>2. Spending(t)' \subseteq Spending(t)
        BY <1>1, <3>1, SpendersStay DEF Spent
      <3> QED BY <1>1, <3>1, <3>2 DEF Spent
    <2> QED BY <1>0, <2>1, <2>2 DEF SpentOnce
  <1> QED BY <1>1, <1>2, <1>3 DEF SpentOnce

\* Writes and inserts.
LEMMA SpentStores ==
    ASSUME SpentInv, NEW r \in Requests, Writes(r) \/ Inserts(r)
    PROVE  Issued' /\ SpentOnce'
  <1>0. TypeInv /\ Issued /\ SpentOnce
    BY DEF SpentInv
  <1>1. /\ UNCHANGED <<tokens, contested, call>>
        /\ \A q \in Requests \ {r} : pc'[q] = pc[q] /\ call'[q] = call[q]
        /\ pc[r] \in {"upgrade", "password", "store", "reputation", "create", "insert"}
        /\ pc'[r] = "done" => pc[r] \in {"store", "reputation"}
        /\ pc'[r] \in {"password", "spend"} => pc[r] = "password"
    <2>1. CASE Writes(r)
      <3>1. /\ pc[r] \in {"upgrade", "password", "store", "reputation"}
            /\ pc'[r] = AfterWrite[pc[r]] /\ Alone(r) /\ UNCHANGED <<tokens, contested, call>>
        BY <1>0, <2>1, WrittenRows DEF Writes
      <3> QED BY <3>1 DEF AfterWrite, Alone
    <2>2. CASE Inserts(r)
      BY <1>0, <2>2, InsertedRow DEF Alone
    <2> QED BY <2>1, <2>2
  <1>2. Issued'
    BY <1>0, <1>1 DEF Issued
  <1>3. ~(pc'[r] = "done" /\ Op(r)' = "reset")
    BY <1>0, <1>1, TypesOf DEF Local, Op
  <1>4. ASSUME NEW t \in Ids \ contested
        PROVE  /\ \A p, q \in Resets(t)' : p = q
               /\ Resets(t)' # {} => Spent(t)'
    <2>1. Resets(t)' \subseteq Resets(t)
      BY <1>1, <1>3, SpendersStay
    <2>2. Spending(t)' \subseteq Spending(t)
      <3>1. pc'[r] \in {"password", "spend"} /\ call'[r].token = t => r \in Spending(t)
        BY <1>1 DEF Spending
      <3> QED BY <1>1, <1>3, <3>1, SpendersStay
    <2> QED BY <1>0, <1>1, <2>1, <2>2 DEF SpentOnce, Spent
  <1> QED BY <1>1, <1>2, <1>4 DEF SpentOnce

\* The steps that store a session, a token or the row of a social login.
LEMMA SpentOthers ==
    ASSUME SpentInv, NEW r \in Requests, Others(r)
    PROVE  Issued' /\ SpentOnce'
  <1>0. TypeInv /\ Issued /\ SpentOnce
    BY DEF SpentInv
  <1>1. /\ UNCHANGED call
        /\ \A q \in Requests \ {r} : pc'[q] = pc[q] /\ call'[q] = call[q]
        /\ pc'[r] = IF pc[r] = "social" THEN "session" ELSE "done"
        /\ pc[r] \in {"social", "session", "clear", "issue", "spend"}
        /\ r \in Ids /\ tokens \in [Ids -> Token \cup {None}] /\ Requests \subseteq Ids
    BY <1>0, OthersDo, TypesOf DEF Alone, Token, Ids
  <1>2. CASE pc[r] \notin {"issue", "spend"}
    <2>1. UNCHANGED <<tokens, contested>>
      BY <1>0, <1>1, <1>2, OthersDo
    <2>2. Op(r)' # "reset" /\ pc'[r] \notin {"password", "spend"}
      BY <1>0, <1>1, <1>2, TypesOf DEF Local, Op
    <2>3. \A t : Resets(t)' \subseteq Resets(t) /\ Spending(t)' \subseteq Spending(t)
      BY <1>1, <2>2, SpendersStay
    <2>4. Issued'
      BY <1>0, <1>1, <2>1 DEF Issued
    <2>5. SpentOnce'
      BY <1>0, <2>1, <2>3 DEF SpentOnce, Spent
    <2> QED BY <2>4, <2>5
  <1>3. CASE pc[r] = "issue"
    <2>1. tokens' = [tokens EXCEPT ![r] = [uid |-> who[r], used |-> FALSE]] /\ UNCHANGED contested
      BY <1>0, <1>3, OthersDo
    <2>2. Op(r)' # "reset" /\ pc'[r] = "done"
      BY <1>0, <1>1, <1>3, TypesOf DEF Local, Op
    <2>3. \A t : Resets(t)' \subseteq Resets(t) /\ Spending(t)' \subseteq Spending(t)
      BY <1>1, <2>2, SpendersStay
    <2>4. tokens[r] \notin Token /\ \A t \in Ids \ {r} : tokens'[t] = tokens[t]
      BY <1>0, <1>1, <1>3, <2>1 DEF Issued
    <2>5. Issued'
      BY <1>0, <1>1, <2>2, <2>4 DEF Issued
    <2>6. SpentOnce'
      <3>1. ASSUME NEW t \in Ids \ contested, Resets(t)' # {} PROVE Spent(t)'
        <4>1. Spent(t) /\ t # r
          BY <1>0, <2>3, <2>4, <3>1 DEF SpentOnce, Spent
        <4> QED BY <2>3, <2>4, <4>1 DEF Spent
      <3> QED BY <1>0, <2>1, <2>3, <3>1 DEF SpentOnce
    <2> QED BY <2>5, <2>6
  <1>4. CASE pc[r] = "spend"
    <2>0. PICK k : k = call[r].token
      OBVIOUS
    <2>1. /\ tokens' = [tokens EXCEPT ![k].used = TRUE]
          /\ contested' = IF Spending(k) = {r} THEN contested ELSE contested \cup {k}
          /\ pc'[r] = "done"
      BY <1>0, <1>1, <1>4, <2>0, OthersDo
    <2>2. k \in Ids /\ tokens[k] \in Token /\ r \in Spending(k)
      BY <1>0, <1>4, <2>0, TypesOf, CallFields DEF Local, Op, Spending
    <2>3. /\ tokens'[k] \in Token /\ tokens'[k].used
          /\ \A t \in Ids \ {k} : tokens'[t] = tokens[t]
      <3>1. [tokens[k] EXCEPT !.used = TRUE] \in Token
        BY <2>2 DEF Token
      <3> QED BY <1>1, <2>1, <2>2, <3>1 DEF Token
    <2>4. Issued'
      BY <1>0, <1>1, <2>1, <2>2, <2>3 DEF Issued
    <2>5. ASSUME NEW t \in Ids \ contested'
          PROVE  /\ \A p, q \in Resets(t)' : p = q
                 /\ Resets(t)' # {} => Spent(t)'
      <3>1. CASE t = k
        <4>1. Spending(k) = {r} /\ t \notin contested
          BY <2>1, <2>5, <3>1
        <4>2. Resets(k) = {}
          BY <1>0, <2>2, <3>1, <4>1 DEF SpentOnce, Spent
        <4>3. Resets(k)' \subseteq {r}
          BY <1>1, <4>2 DEF Resets, Op
        <4>4. Spending(k)' = {}
          BY <1>1, <2>1, <4>1 DEF Spending
        <4> QED BY <2>3, <3>1, <4>3, <4>4 DEF Spent
      <3>2. CASE t # k
        <4>1. Resets(t)' \subseteq Resets(t) /\ Spending(t)' \subseteq Spending(t)
          BY <1>1, <2>0, <2>1, <3>2, SpendersStay
        <4>2. tokens'[t] = tokens[t] /\ t \notin contested
          BY <2>1, <2>3, <2>5, <3>2
        <4> QED BY <1>0, <4>1, <4>2 DEF SpentOnce, Spent
      <3> QED BY <3>1, <3>2
    <2> QED BY <2>4, <2>5 DEF SpentOnce
  <1> QED BY <1>1, <1>2, <1>3, <1>4

\* Two calls are told that the same reset token has set their password only if
\* both looked it up before either marked it: marking it after the password is
\* saved, and in a statement that may fail, admits no other second use.
THEOREM ATokenSetsOnePassword == Spec => []TokensAreSpentOnce
  <1>1. Init => SpentInv
    <2> SUFFICES ASSUME Init PROVE SpentInv
      OBVIOUS
    <2>1. TypeInv /\ Requests \subseteq Ids
      BY InitTypes DEF Ids
    <2>2. Issued
      BY <2>1, EarlierIsEarlier, NoneIsNoToken, TypesOf DEF Init, Issued, Token
    <2>3. \A t : Resets(t) = {}
      BY DEF Init, Resets
    <2> QED BY <2>1, <2>2, <2>3 DEF SpentInv, SpentOnce
  <1>2. SpentInv /\ [Next]_vars => SpentInv'
    <2> SUFFICES ASSUME SpentInv, [Next]_vars PROVE SpentInv'
      OBVIOUS
    <2>1. TypeInv /\ TypeInv'
      BY NextTypes DEF SpentInv
    <2>2. CASE Next
      <3>1. Issued' /\ SpentOnce'
        BY <2>1, <2>2, FourKinds, SpentMoves, SpentStores, SpentOthers
      <3> QED BY <2>1, <3>1 DEF SpentInv
    <2>3. CASE UNCHANGED vars
      <3>1. UNCHANGED <<tokens, contested, pc, call>>
        BY <2>3 DEF vars, stores, history
      <3>2. Issued' /\ SpentOnce'
        BY <3>1 DEF SpentInv, Issued, SpentOnce, Spent, Resets, Spending, Op
      <3> QED BY <2>1, <3>2 DEF SpentInv
    <2> QED BY <2>2, <2>3
  <1>3. SpentInv => TokensAreSpentOnce
    <2> SUFFICES ASSUME SpentInv, NEW t \in Ids \ contested PROVE Cardinality(Resets(t)) <= 1
      BY DEF TokensAreSpentOnce
    <2>1. \A q, r \in Resets(t) : q = r
      BY DEF SpentInv, SpentOnce
    <2>2. CASE Resets(t) = {}
      BY <2>2, FS_EmptySet
    <2>3. CASE Resets(t) # {}
      <3>1. PICK r \in Resets(t) : TRUE
        BY <2>3
      <3>2. Resets(t) = {r}
        BY <2>1, <3>1
      <3> QED BY <3>2, FS_Singleton
    <2> QED BY <2>2, <2>3
  <1> QED BY <1>1, <1>2, <1>3, PTL DEF Spec


-----------------------------------------------------------------------------
(***************************************************************************)
(* Sessions.  From the look-up of a first social login on, the user that   *)
(* it answers is the one of its session, or has the address no longer, or  *)
(* shares it.                                                              *)
(***************************************************************************)
Explained(r, u) ==
    \/ answer[r] = u
    \/ call[r].email \in excused
    \/ users[answer[r]].email # call[r].email

Answering ==
    \A r \in Requests :
        /\ Op(r) = "social" /\ pc[r] \in {"recall", "social", "session", "done"}
              => answer[r] \in DOMAIN users
        /\ Op(r) = "social" /\ pc[r] \in {"social", "session"} => Explained(r, who[r])
        /\ pc[r] = "done" /\ sessions[r] # 0
              => /\ Op(r) = "login" => answer[r] = sessions[r]
                 /\ Op(r) = "social" => Explained(r, sessions[r])

MatchInv == UniqueInv /\ Answering

\* the users keep their places, and an address they take is excused
Aging ==
    /\ DOMAIN users \subseteq DOMAIN users' /\ excused \subseteq excused'
    /\ \A u \in DOMAIN users :
          users'[u].email = users[u].email \/ users'[u].email \in excused'

\* Every step is such a one.
LEMMA StepsAge ==
    ASSUME TypeInv, NEW r \in Requests, Moves(r) \/ Writes(r) \/ Inserts(r) \/ Others(r)
    PROVE  Aging
  <1>1. CASE Moves(r) \/ Others(r)
    <2>1. UNCHANGED <<users, excused>>
      BY <1>1, OthersDo DEF Moves, stores, history
    <2> QED BY <2>1 DEF Aging
  <1>2. CASE Writes(r)
    <2>1. /\ DOMAIN users' = DOMAIN users
          /\ \A u \in DOMAIN users \ {who[r]} : users'[u] = users[u]
      BY <1>2, WrittenRows, TypesOf, LenProperties
    <2> QED BY <1>2, <2>1, WrittenAddress DEF Aging
  <1>3. CASE Inserts(r)
    <2>1. /\ users' \in Seq(Row) /\ Len(users') = Len(users) + 1 /\ DOMAIN users = 1..Len(users)
          /\ Len(users) \in Nat
      BY <1>3, InsertedRow, TypesOf
    <2>2. DOMAIN users' = 1..(Len(users) + 1)
      BY <2>1, LenProperties
    <2> QED BY <1>3, <2>1, <2>2, InsertedRow DEF Aging
  <1> QED BY <1>1, <1>2, <1>3

\* What has been said of a request that does not move is still so.
LEMMA ExplainedAges ==
    ASSUME Aging, NEW q \in Requests, NEW u, answer[q] \in DOMAIN users, Explained(q, u),
           call'[q] = call[q], answer'[q] = answer[q]
    PROVE  \/ answer'[q] = u
           \/ call'[q].email \in excused'
           \/ users'[answer'[q]].email # call'[q].email
  BY DEF Aging, Explained

\* The sessions of the other requests: they are as they were, or cleared.
LEMMA OtherSessions ==
    ASSUME TypeInv, NEW r \in Requests, Moves(r) \/ Writes(r) \/ Inserts(r) \/ Others(r),
           NEW q \in Requests
    PROVE  sessions'[q] = sessions[q] \/ sessions'[q] = 0 \/ (q = r /\ pc[r] = "session" /\ Others(r))
  <1>1. CASE Others(r)
    <2>1. q \in Ids /\ r \in Ids
      BY TypesOf
    <2>2. sessions \in [Ids -> DOMAIN users \cup {0, None}]
      BY TypesOf
    <2>3. \/ sessions' = sessions
          \/ pc[r] = "session" /\ sessions' = [sessions EXCEPT ![r] = who[r]]
          \/ call[r].session \in Ids /\ sessions' = [sessions EXCEPT ![call[r].session] = 0]
      BY <1>1, OthersDo
    <2> QED BY <1>1, <2>1, <2>2, <2>3
  <1>2. CASE ~Others(r)
    <2>1. sessions' = sessions
      BY <1>2, InsertedRow, WrittenRows DEF Moves, stores
    <2> QED BY <2>1
  <1> QED BY <1>1, <1>2

\* The request that makes the step.
LEMMA AnsweringOne ==
    ASSUME MatchInv, NEW r \in Requests, Moves(r) \/ Writes(r) \/ Inserts(r) \/ Others(r), TypeInv'
    PROVE  /\ Op(r)' = "social" /\ pc'[r] \in {"recall", "social", "session", "done"}
                => answer'[r] \in DOMAIN users'
           /\ Op(r)' = "social" /\ pc'[r] \in {"social", "session"} => Explained(r, who[r])'
           /\ pc'[r] = "done" /\ sessions'[r] # 0
                => /\ Op(r)' = "login" => answer'[r] = sessions'[r]
                   /\ Op(r)' = "social" => Explained(r, sessions[r])'
  <1>0. TypeInv /\ AddressesAreUnique /\ Answering /\ Aging
    BY StepsAge DEF MatchInv, UniqueInv
  <1>1. CASE Moves(r)
    <2>1. /\ UNCHANGED <<users, excused>> /\ Local(r)'
          /\ pc'[r] = "done" => Op(r)' = "reset"
          /\ pc'[r] # "recall"
          /\ Op(r)' = "social" /\ pc'[r] = "session" => answer'[r] = who'[r]
          /\ pc'[r] = "social" => /\ pc[r] = "recall" /\ answer'[r] = answer[r] /\ call'[r] = call[r]
                                  /\ who'[r] \in At(call[r].email)
      BY <1>1 DEF Moves, stores, history
    <2>2. CASE pc'[r] = "social"
      <3>1. answer'[r] \in DOMAIN users /\ Op(r)' = "social"
        BY <1>0, <2>1, <2>2, TypesOf DEF Answering, Local, Op
      <3>2. Explained(r, who[r])'
        <4>1. who'[r] \in DOMAIN users /\ users[who'[r]].email = call'[r].email
          BY <2>1, <2>2 DEF At
        <4>2. \/ answer'[r] = who'[r] \/ call'[r].email \in excused
              \/ users[answer'[r]].email # call'[r].email
          BY <1>0, <3>1, <4>1 DEF AddressesAreUnique
        <4> QED BY <2>1, <4>2 DEF Explained
      <3> QED BY <2>1, <2>2, <3>1, <3>2
    <2>3. CASE pc'[r] = "session"
      BY <2>1, <2>3 DEF Explained, Local, Knowing
    <2>4. CASE pc'[r] \notin {"social", "session"}
      BY <2>1, <2>4
    <2> QED BY <2>2, <2>3, <2>4
  <1>2. CASE Writes(r)
    <2>1. /\ pc[r] \in {"upgrade", "password", "store", "reputation"}
          /\ pc'[r] = AfterWrite[pc[r]] /\ UNCHANGED call
      BY <1>0, <1>2, WrittenRows DEF Writes
    <2>2. /\ Op(r)' = Op(r) /\ pc'[r] \in {"session", "spend", "done"}
          /\ pc'[r] = "done" => pc[r] \in {"store", "reputation"}
      BY <2>1 DEF AfterWrite, Op
    <2>3. Op(r) # "social" /\ (pc'[r] = "done" => Op(r) # "login")
      BY <1>0, <2>1, <2>2, TypesOf DEF Local
    <2> QED BY <2>2, <2>3
  <1>3. CASE Inserts(r)
    <2>1. /\ pc[r] \in {"create", "insert"} /\ UNCHANGED call
          /\ pc'[r] = IF pc[r] = "create" THEN "recall" ELSE "session"
          /\ pc[r] = "create" => answer'[r] = Len(users) + 1
      BY <1>0, <1>3, InsertedRow
    <2>2. Len(users) + 1 \in DOMAIN users'
      <3>1. /\ users' \in Seq(Row) /\ Len(users') = Len(users) + 1 /\ Len(users) \in Nat
        BY <1>0, <1>3, InsertedRow, TypesOf
      <3> QED BY <3>1, LenProperties
    <2>3. pc[r] = "insert" => Op(r) # "social"
      BY <1>0, TypesOf DEF Local
    <2> QED BY <2>1, <2>2, <2>3 DEF Op
  <1>4. CASE Others(r)
    <2>1. /\ UNCHANGED <<users, excused, call, who>>
          /\ pc'[r] = IF pc[r] = "social" THEN "session" ELSE "done"
          /\ pc[r] \in {"social", "session", "clear", "issue", "spend"}
          /\ Op(r)' = Op(r) /\ r \in Ids
      BY <1>0, <1>4, OthersDo, TypesOf DEF Op
    <2>2. CASE pc[r] = "social"
      <3>1. UNCHANGED answer
        BY <1>0, <1>4, <2>2, OthersDo
      <3> QED BY <1>0, <2>1, <2>2, <3>1 DEF Answering, Explained
    <2>3. CASE pc[r] = "session"
      <3>1. /\ sessions' = [sessions EXCEPT ![r] = who[r]]
            /\ answer'[r] = IF Op(r) = "login" THEN who[r] ELSE answer[r]
        BY <1>0, <1>4, <2>3, OthersDo
      <3>2. sessions'[r] = who[r]
        BY <1>0, <2>1, <3>1, TypesOf
      <3>3. CASE Op(r) = "social"
        <4>1. answer'[r] = answer[r] /\ answer[r] \in DOMAIN users /\ Explained(r, who[r])
          BY <1>0, <2>3, <3>1, <3>3 DEF Answering
        <4> QED BY <2>1, <2>3, <3>2, <3>3, <4>1 DEF Explained
      <3>4. CASE Op(r) # "social"
        BY <2>1, <2>3, <3>1, <3>2, <3>4
      <3> QED BY <3>3, <3>4
    <2>4. CASE pc[r] \in {"clear", "issue", "spend"}
      <3>1. Op(r) \notin {"login", "social"}
        BY <1>0, <2>4, TypesOf DEF Local
      <3> QED BY <2>1, <3>1
    <2> QED BY <2>1, <2>2, <2>3, <2>4
  <1> QED BY <1>1, <1>2, <1>3, <1>4

\* All of them.
LEMMA AnsweringAll ==
    ASSUME MatchInv, NEW r \in Requests, Moves(r) \/ Writes(r) \/ Inserts(r) \/ Others(r), TypeInv'
    PROVE  Answering'
  <1>0. TypeInv /\ Answering /\ Aging
    BY StepsAge DEF MatchInv, UniqueInv
  <1> SUFFICES ASSUME NEW q \in Requests
               PROVE  /\ Op(q)' = "social" /\ pc'[q] \in {"recall", "social", "session", "done"}
                           => answer'[q] \in DOMAIN users'
                      /\ Op(q)' = "social" /\ pc'[q] \in {"social", "session"} => Explained(q, who[q])'
                      /\ pc'[q] = "done" /\ sessions'[q] # 0
                           => /\ Op(q)' = "login" => answer'[q] = sessions'[q]
                              /\ Op(q)' = "social" => Explained(q, sessions[q])'
    BY DEF Answering
  <1>1. CASE q = r
    BY <1>1, AnsweringOne
  <1>2. CASE q # r
    <2>1. /\ pc'[q] = pc[q] /\ call'[q] = call[q] /\ who'[q] = who[q] /\ answer'[q] = answer[q]
          /\ Op(q)' = Op(q)
      <3>1. Alone(r)
        BY <1>0, WrittenRows, InsertedRow, OthersDo DEF Moves
      <3> QED BY <1>2, <3>1 DEF Alone, Op
    <2>2. sessions'[q] = sessions[q] \/ sessions'[q] = 0
      BY <1>0, <1>2, OtherSessions
    <2>3. Op(q) = "social" /\ pc[q] \in {"recall", "social", "session", "done"}
             => answer[q] \in DOMAIN users
      BY <1>0 DEF Answering
    <2>4. Op(q)' = "social" /\ pc'[q] \in {"social", "session"} => Explained(q, who[q])'
      <3>1. Op(q) = "social" /\ pc[q] \in {"social", "session"} => Explained(q, who[q])
        BY <1>0 DEF Answering
      <3> QED BY <1>0, <2>1, <2>3, <3>1, ExplainedAges DEF Explained
    <2>5. ASSUME pc'[q] = "done", sessions'[q] # 0
          PROVE  /\ Op(q)' = "login" => answer'[q] = sessions'[q]
                 /\ Op(q)' = "social" => Explained(q, sessions[q])'
      <3>1. /\ sessions'[q] = sessions[q]
            /\ Op(q) = "login" => answer[q] = sessions[q]
            /\ Op(q) = "social" => Explained(q, sessions[q])
        BY <1>0, <2>1, <2>2, <2>5 DEF Answering
      <3> QED BY <1>0, <2>1, <2>3, <2>5, <3>1, ExplainedAges DEF Explained
    <2> QED BY <1>0, <2>1, <2>3, <2>4, <2>5 DEF Aging
  <1> QED BY <1>1, <1>2

\* The uid that a login answers is that of its session.  A first social login
\* may answer another, the one it inserted: then its address is shared, or is
\* no longer the address of that user.
THEOREM AnswersStandForSessions == Spec => []AnswersMatchSessions
  <1>1. Init => MatchInv
    <2> SUFFICES ASSUME Init PROVE MatchInv
      OBVIOUS
    <2>1. TypeInv /\ DOMAIN users = {1}
      <3>1. users \in [1..1 -> Row]
        BY DEF Init, Row
      <3> QED BY <3>1, InitTypes
    <2>2. AddressesAreUnique /\ Fresh /\ Answering
      BY <2>1 DEF AddressesAreUnique, Fresh, Answering, Init
    <2> QED BY <2>1, <2>2 DEF MatchInv, UniqueInv
  <1>2. MatchInv /\ [Next]_vars => MatchInv'
    <2> SUFFICES ASSUME MatchInv, [Next]_vars PROVE MatchInv'
      OBVIOUS
    <2>1. TypeInv /\ TypeInv' /\ UniqueInv
      BY NextTypes DEF MatchInv, UniqueInv
    <2>2. CASE Next
      <3>1. AddressesAreUnique' /\ Fresh' /\ Answering'
        BY <2>1, <2>2, FourKinds, UniqueStays, UniqueWrites, UniqueInserts, AnsweringAll
      <3> QED BY <2>1, <3>1 DEF MatchInv, UniqueInv
    <2>3. CASE UNCHANGED vars
      <3>1. UNCHANGED <<users, sessions, excused, pc, call, who, answer>>
        BY <2>3 DEF vars, stores, locals, history
      <3>2. AddressesAreUnique' /\ Fresh'
        BY <2>1, <3>1 DEF UniqueInv, AddressesAreUnique, Fresh, At
      <3>3. Answering'
        BY <3>1 DEF MatchInv, Answering, Explained, Op
      <3> QED BY <2>1, <3>2, <3>3 DEF MatchInv, UniqueInv
    <2> QED BY <2>2, <2>3
  <1>3. MatchInv => AnswersMatchSessions
    BY DEF MatchInv, Answering, AnswersMatchSessions, Explained
  <1> QED BY <1>1, <1>2, <1>3, PTL DEF Spec
=============================================================================
