------------------------------ MODULE Accounts ------------------------------
(***************************************************************************)
(* The accounts: the handlers that create a user, open and close sessions, *)
(* change passwords, names, addresses and reputation.  Users and reset     *)
(* tokens are rows of Postgres, sessions are keys of Redis; as in the      *)
(* other modules of the server a step is one statement of one request, and *)
(* requests run concurrently on several nodes with no transaction.         *)
(*                                                                         *)
(* A password column is known by the word it hashes and by how: MD5 for    *)
(* old accounts and for those that a social login creates, else bcrypt.    *)
(* The avatar, the user type and the enabled flag are left out: they are   *)
(* written with the other columns of the row.                              *)
(***************************************************************************)
EXTENDS Integers, Sequences, FiniteSets

CONSTANTS
    Names, Addresses, Words,  \* what a user types
    None,                     \* an empty field; no token; no session
    Unguessed,                \* the random word of a social account
    Requests,                 \* HTTP requests; also the names of what they make
    Earlier,                  \* the session and the token from before
    Bonus,                    \* points that a call adds to a reputation
    Workers,                  \* bound: requests in progress at a time
    Faulty                    \* requests whose statements may fail

ASSUME EmptyIsEmpty == None \notin Names \cup Addresses \cup Words \cup Requests
ASSUME NoneIsNoToken == None \notin [uid : Nat, used : BOOLEAN]
ASSUME KeysAreDistinct == Names \cap Addresses = {} /\ Unguessed \notin Words
ASSUME EarlierIsEarlier == Earlier \notin Requests
ASSUME BoundsAreTyped ==
    Workers \in Nat /\ Faulty \subseteq Requests /\ Bonus \in Int /\ IsFiniteSet(Requests)

VARIABLES
    \* the stores
    users,       \* priv_users: the row of uid u is users[u]
    tokens,      \* priv_users_tokens, by their random hash
    socials,     \* priv_users_social: the uid in the row a request saved
    sessions,    \* Redis: random session id -> uid, 0 when logged out
    \* the requests
    call,        \* what it asks for
    pc,          \* the statement it is at
    who,         \* the uid of its User struct, 0 when it has none
    copy,        \* the other columns of the struct
    answer,      \* the uid in the answer
    \* history
    book,        \* the users had each call changed its own columns only
    overlapped,  \* uids written by a request while another was to write its copy
    excused,     \* addresses given with no look-up that still holds
    contested    \* tokens found unused by two requests at a time

stores == <<users, tokens, socials, sessions>>
locals == <<who, copy, answer>>
history == <<book, overlapped, excused, contested>>
vars == <<stores, call, pc, locals, history>>

Ids == Requests \cup {Earlier}
Uids == 1..Cardinality(Requests) + 1

Row == [name : Names, email : Addresses, word : Words \cup {Unguessed},
        md5 : BOOLEAN, points : Int]

\* what a form leaves empty stays; only an administrator's has points or a word
Form == [name : Names \cup {None}, email : Addresses \cup {None},
         word : Words \cup {None}, points : {0, Bonus}]
Blank == [name |-> None, email |-> None, word |-> None, points |-> 0]

OwnForms == {f \in Form : f.word = None /\ f.points = 0} \ {Blank}

Calls ==
    [op : {"login"}, key : Names \cup Addresses, word : Words]
    \cup [op : {"social"}, name : Names, email : Addresses]
    \cup [op : {"register"}, name : Names, email : Addresses, word : Words]
    \cup [op : {"logout"}, session : Ids]
    \cup [op : {"forgot"}, email : Addresses]
    \cup [op : {"reset"}, token : Ids, email : Addresses, word : Words \cup {None}]
    \cup [op : {"edit"}, session : Ids, form : OwnForms]
    \cup [op : {"admin"}, uid : Uids, form : Form]
    \cup [op : {"pay"}, uid : Uids]
NoCall == [op |-> "none"]

Op(r) == call[r].op

Fallback(field, old) == IF field = None THEN old ELSE field

\* the columns that UpdateUserDetails and EditUserHttp change
Edited(row, f) ==
    [row EXCEPT !.name = Fallback(f.name, @), !.email = Fallback(f.email, @),
                !.word = Fallback(f.word, @), !.md5 = @ /\ f.word = None,
                !.points = @ + f.points]

WithWord(row, word) == [row EXCEPT !.word = word, !.md5 = FALSE]

Named(name) == {u \in DOMAIN users : users[u].name = name}
At(email) == {u \in DOMAIN users : users[u].email = email}

First(S) == CHOOSE u \in S : \A v \in S : u <= v

Steps ==
    {"md5", "upgrade", "session", "create", "recall", "social", "address", "insert",
     "clear", "issue", "token", "password", "spend", "load", "store", "reputation"}
Ended == {"done", "refused"}

InFlight == {r \in Requests : pc[r] \in Steps}

TypeOK ==
    /\ users \in Seq(Row) /\ DOMAIN users \subseteq Uids
    /\ tokens \in [Ids -> [uid : Uids, used : BOOLEAN] \cup {None}]
    /\ socials \in [Requests -> Uids \cup {0}]
    /\ sessions \in [Ids -> Uids \cup {0, None}]
    /\ call \in [Requests -> Calls \cup {NoCall}]
    /\ pc \in [Requests -> {"arrive"} \cup Steps \cup Ended]
    /\ who \in [Requests -> Uids \cup {0}]
    /\ copy \in [Requests -> Row \cup {NoCall}]
    /\ answer \in [Requests -> Uids \cup {0}]
    /\ book \in Seq(Row) /\ Len(book) = Len(users)
    /\ overlapped \subseteq Uids /\ excused \subseteq Addresses
    /\ contested \subseteq Ids

\* one account, with a session and a reset token of its own
Init ==
    /\ users \in [1..1 -> [name : Names, email : Addresses, word : Words,
                           md5 : BOOLEAN, points : {0}]]
    /\ tokens = [t \in Ids |-> IF t = Earlier THEN [uid |-> 1, used |-> FALSE] ELSE None]
    /\ socials = [r \in Requests |-> 0]
    /\ sessions = [s \in Ids |-> IF s = Earlier THEN 1 ELSE None]
    /\ call = [r \in Requests |-> NoCall]
    /\ pc = [r \in Requests |-> "arrive"]
    /\ who = [r \in Requests |-> 0]
    /\ copy = [r \in Requests |-> NoCall]
    /\ answer = [r \in Requests |-> 0]
    /\ book = users
    /\ overlapped = {} /\ excused = {} /\ contested = {}

-----------------------------------------------------------------------------
(***************************************************************************)
(* What the steps are made of.                                             *)
(***************************************************************************)
Goto(r, step) == pc' = [pc EXCEPT ![r] = step]

\* the request moves on and nothing else changes
Skip(r, step) == Goto(r, step) /\ UNCHANGED <<stores, call, locals, history>>

\* a statement that fails ends the request; so does its node when it dies
Fails(r) == r \in Faulty /\ Skip(r, "refused")

Arrives(r, c) ==
    /\ pc[r] = "arrive" /\ Cardinality(InFlight) < Workers
    /\ call' = [call EXCEPT ![r] = c]

\* a first statement that finds nothing, or fails
Refused(r) == Goto(r, "refused") /\ UNCHANGED <<stores, locals, history>>

\* read row u into the struct
Load(r, u) == who' = [who EXCEPT ![r] = u] /\ copy' = [copy EXCEPT ![r] = users[u]]

Found(r, u, step) ==
    /\ Load(r, u) /\ Goto(r, step)
    /\ UNCHANGED <<stores, answer, history>>

\* the requests that are to write what they have read of u
Holding(u) ==
    {q \in Requests : who[q] = u /\ pc[q] \in {"upgrade", "token", "password", "store", "reputation"}}

\* a write to row u by request r, and the change that it means to make
Write(r, u, row, meant) ==
    /\ users' = [users EXCEPT ![u] = row]
    /\ book' = [book EXCEPT ![u] = meant]
    /\ overlapped' = IF Holding(u) \ {r} = {} THEN overlapped ELSE overlapped \cup {u}
    /\ excused' = IF row.email = users[u].email THEN excused ELSE excused \cup {row.email}

\* the requests that are to insert an address they have not found
Creating(e) ==
    {q \in Requests : pc[q] \in {"create", "insert"} /\ call[q].email = e}

\* Save of a struct with no key
Insert(r, row) ==
    /\ users' = Append(users, row) /\ book' = Append(book, row)
    /\ who' = [who EXCEPT ![r] = Len(users')]
    /\ excused' = IF Creating(row.email) \ {r} = {} THEN excused
                  ELSE excused \cup {row.email}
    /\ UNCHANGED <<tokens, socials, sessions, call, copy, overlapped, contested>>

-----------------------------------------------------------------------------
(***************************************************************************)
(* Sessions: login, social login, register, logout.                        *)
(***************************************************************************)

\* HandleLogin: find the user, by name or address, and compare with bcrypt
BeginLogin(r) ==
    \E k \in Names \cup Addresses, w \in Words :
        /\ Arrives(r, [op |-> "login", key |-> k, word |-> w])
        /\ LET found == Named(k) \cup At(k)
           IN  \/ (r \in Faulty \/ found = {}) /\ Refused(r)
               \/ \E u \in found :
                    Found(r, u, IF users[u].word = w /\ ~users[u].md5
                                THEN "session" ELSE "md5")

\* HandleLogin: count the rows of this user with the MD5 of the word
CountMD5(r) ==
    /\ pc[r] = "md5"
    /\ \/ Fails(r)
       \/ LET row == users[who[r]]
          IN  Skip(r, IF row.md5 /\ row.word = call[r].word THEN "upgrade" ELSE "refused")

\* HandleLogin: the one column, hashed with bcrypt from now on
UpgradePassword(r) ==
    /\ pc[r] = "upgrade"
    /\ \/ Fails(r)
       \/ LET u == who[r] IN
          /\ Write(r, u, WithWord(users[u], call[r].word), [book[u] EXCEPT !.md5 = FALSE])
          /\ Goto(r, "session")
          /\ UNCHANGED <<tokens, socials, sessions, call, locals, contested>>

\* HandleSocialLogin: an address that is known needs no password
BeginSocial(r) ==
    \E n \in Names, e \in Addresses :
        /\ Arrives(r, [op |-> "social", name |-> n, email |-> e])
        /\ \/ r \in Faulty /\ Refused(r)
           \/ At(e) = {} /\ Goto(r, "create") /\ UNCHANGED <<stores, locals, history>>
           \/ \E u \in At(e) :
                /\ Load(r, u) /\ answer' = [answer EXCEPT ![r] = u]
                /\ Goto(r, "session") /\ UNCHANGED <<stores, history>>

CreateSocialUser(r) ==
    /\ pc[r] = "create"
    /\ \/ Fails(r)
       \/ /\ Insert(r, [name |-> call[r].name, email |-> call[r].email,
                        word |-> Unguessed, md5 |-> TRUE, points |-> 0])
          /\ answer' = [answer EXCEPT ![r] = Len(users')]
          /\ Goto(r, "recall")

\* slip: the look-up does not ask for the address
AnyRecall(r) == DOMAIN users

\* HandleSocialLogin: look for the new user by its address
Recalled(r) == At(call[r].email)

RecallUser(r) ==
    /\ pc[r] = "recall"
    /\ \/ (r \in Faulty \/ Recalled(r) = {}) /\ Skip(r, "refused")
       \/ \E u \in Recalled(r) : Found(r, u, "social") /\ UNCHANGED call

SaveSocial(r) ==
    /\ pc[r] = "social"
    /\ \/ Fails(r)
       \/ /\ socials' = [socials EXCEPT ![r] = who[r]]
          /\ Goto(r, "session")
          /\ UNCHANGED <<users, tokens, sessions, call, locals, history>>

\* HandleRegister: any answer but "record not found" means that it exists
BeginRegister(r) ==
    \E n \in Names, e \in Addresses, w \in Words :
        /\ Arrives(r, [op |-> "register", name |-> n, email |-> e, word |-> w])
        /\ \/ (r \in Faulty \/ Named(n) # {}) /\ Refused(r)
           \/ Named(n) = {} /\ Goto(r, "address") /\ UNCHANGED <<stores, locals, history>>

\* slip: an address may be registered twice
AnyAddress(e) == TRUE

Unused(e) == At(e) = {}

CheckAddress(r) ==
    /\ pc[r] = "address"
    /\ \/ (r \in Faulty \/ ~Unused(call[r].email)) /\ Skip(r, "refused")
       \/ Unused(call[r].email) /\ Skip(r, "insert")

InsertUser(r) ==
    /\ pc[r] = "insert"
    /\ \/ Fails(r)
       \/ /\ Insert(r, [name |-> call[r].name, email |-> call[r].email,
                        word |-> call[r].word, md5 |-> FALSE, points |-> 0])
          /\ Goto(r, "session") /\ UNCHANGED answer

\* SetSession, and the answer; register answers no uid
SetSession(r) ==
    /\ pc[r] = "session"
    /\ \/ Fails(r)
       \/ /\ sessions' = [sessions EXCEPT ![r] = who[r]]
          /\ answer' = [answer EXCEPT ![r] = IF Op(r) = "login" THEN who[r] ELSE @]
          /\ Goto(r, "done")
          /\ UNCHANGED <<users, tokens, socials, call, who, copy, history>>

\* ClearSession: the key must be there, whoever it names
BeginLogout(r) ==
    \E s \in Ids :
        /\ Arrives(r, [op |-> "logout", session |-> s])
        /\ \/ (r \in Faulty \/ sessions[s] = None) /\ Refused(r)
           \/ sessions[s] # None /\ Goto(r, "clear") /\ UNCHANGED <<stores, locals, history>>

ClearSession(r) ==
    /\ pc[r] = "clear"
    /\ \/ Fails(r)
       \/ /\ sessions' = [sessions EXCEPT ![call[r].session] = 0]
          /\ Goto(r, "done")
          /\ UNCHANGED <<users, tokens, socials, call, locals, history>>

-----------------------------------------------------------------------------
(***************************************************************************)
(* Passwords: HandleForgotPassword, HandleResetPasswordCheck and           *)
(* HandleResetPassword.                                                    *)
(***************************************************************************)
BeginForgot(r) ==
    \E e \in Addresses :
        /\ Arrives(r, [op |-> "forgot", email |-> e])
        /\ \/ (r \in Faulty \/ At(e) = {}) /\ Refused(r)
           \/ At(e) # {} /\ Found(r, First(At(e)), "issue")

IssueToken(r) ==
    /\ pc[r] = "issue"
    /\ \/ Fails(r)
       \/ /\ tokens' = [tokens EXCEPT ![r] = [uid |-> who[r], used |-> FALSE]]
          /\ Goto(r, "done")
          /\ UNCHANGED <<users, socials, sessions, call, locals, history>>

\* ResetPassword; the word is empty when the token is only to be checked
BeginReset(r) ==
    \E t \in Ids, e \in Addresses, w \in Words \cup {None} :
        /\ Arrives(r, [op |-> "reset", token |-> t, email |-> e, word |-> w])
        /\ \/ (r \in Faulty \/ At(e) = {}) /\ Refused(r)
           \/ At(e) # {} /\ Found(r, First(At(e)), "token")

\* slip: the look-up does not ask for an unused token
AnyTokenOf(t, u) == tokens[t] # None /\ tokens[t].uid = u

UnusedTokenOf(t, u) == tokens[t] # None /\ tokens[t].uid = u /\ ~tokens[t].used

CheckToken(r) ==
    /\ pc[r] = "token"
    /\ LET ok == UnusedTokenOf(call[r].token, who[r])
       IN  \/ (r \in Faulty \/ ~ok) /\ Skip(r, "refused")
           \/ ok /\ Skip(r, IF call[r].word = None THEN "done" ELSE "password")

\* the whole row is saved, from the struct read before the token was
SavePassword(r) ==
    /\ pc[r] = "password"
    /\ \/ Fails(r)
       \/ LET u == who[r] IN
          /\ Write(r, u, WithWord(copy[r], call[r].word), WithWord(book[u], call[r].word))
          /\ Goto(r, "spend")
          /\ UNCHANGED <<tokens, socials, sessions, call, locals, contested>>

\* the requests that are to spend token t
Spending(t) ==
    {q \in Requests : pc[q] \in {"password", "spend"} /\ call[q].token = t}

SpendToken(r) ==
    /\ pc[r] = "spend"
    /\ \/ Fails(r)
       \/ LET t == call[r].token IN
          /\ tokens' = [tokens EXCEPT ![t].used = TRUE]
          /\ contested' = IF Spending(t) = {r} THEN contested ELSE contested \cup {t}
          /\ Goto(r, "done")
          /\ UNCHANGED <<users, socials, sessions, call, locals, book, overlapped, excused>>

-----------------------------------------------------------------------------
(***************************************************************************)
(* Edits: UpdateUserDetails, EditUserHttp and the Reputation of the votes. *)
(***************************************************************************)

\* UpdateUserDetails: the uid of the session
BeginEdit(r) ==
    \E s \in Ids, f \in OwnForms :
        /\ Arrives(r, [op |-> "edit", session |-> s, form |-> f])
        /\ \/ (r \in Faulty \/ sessions[s] \in {0, None}) /\ Refused(r)
           \/ /\ sessions[s] \notin {0, None}
              /\ who' = [who EXCEPT ![r] = sessions[s]]
              /\ Goto(r, "load") /\ UNCHANGED <<stores, copy, answer, history>>

LoadOwnRow(r) ==
    /\ pc[r] = "load"
    /\ \/ Fails(r)
       \/ Found(r, who[r], "store") /\ UNCHANGED call

\* EditUserHttp finds its row at once, Reputation too
BeginAdminEdit(r) ==
    \E u \in Uids, f \in Form :
        /\ Arrives(r, [op |-> "admin", uid |-> u, form |-> f])
        /\ \/ (r \in Faulty \/ u \notin DOMAIN users) /\ Refused(r)
           \/ u \in DOMAIN users /\ Found(r, u, "store")

\* slip: the points of the form replace the reputation
Assigned(r) == [Edited(copy[r], call[r].form) EXCEPT !.points = call[r].form.points]

SavedRow(r) == Edited(copy[r], call[r].form)

\* both save the whole row; neither looks whether the name or address is taken
StoreRow(r) ==
    /\ pc[r] = "store"
    /\ \/ Fails(r)
       \/ LET u == who[r] IN
          /\ Write(r, u, SavedRow(r), Edited(book[u], call[r].form))
          /\ Goto(r, "done")
          /\ UNCHANGED <<tokens, socials, sessions, call, locals, contested>>

BeginPay(r) ==
    \E u \in Uids :
        /\ Arrives(r, [op |-> "pay", uid |-> u])
        /\ \/ (r \in Faulty \/ u \notin DOMAIN users) /\ Refused(r)
           \/ u \in DOMAIN users /\ Found(r, u, "reputation")

\* Reputation: the one column, from the value read
PayReputation(r) ==
    /\ pc[r] = "reputation"
    /\ \/ Fails(r)
       \/ LET u == who[r] IN
          /\ Write(r, u, [users[u] EXCEPT !.points = copy[r].points + Bonus],
                         [book[u] EXCEPT !.points = @ + Bonus])
          /\ Goto(r, "done")
          /\ UNCHANGED <<tokens, socials, sessions, call, locals, contested>>

Next ==
    \E r \in Requests :
        \/ BeginLogin(r) \/ CountMD5(r) \/ UpgradePassword(r)
        \/ BeginSocial(r) \/ CreateSocialUser(r) \/ RecallUser(r) \/ SaveSocial(r)
        \/ BeginRegister(r) \/ CheckAddress(r) \/ InsertUser(r) \/ SetSession(r)
        \/ BeginLogout(r) \/ ClearSession(r)
        \/ BeginForgot(r) \/ IssueToken(r)
        \/ BeginReset(r) \/ CheckToken(r) \/ SavePassword(r) \/ SpendToken(r)
        \/ BeginEdit(r) \/ LoadOwnRow(r) \/ StoreRow(r) \/ BeginAdminEdit(r)
        \/ BeginPay(r) \/ PayReputation(r)

Spec == Init /\ [][Next]_vars

-----------------------------------------------------------------------------
(***************************************************************************)
(* What holds whatever the interleaving.                                   *)
(***************************************************************************)

\* The server refuses an address that is in use, with no constraint in the
\* database: two accounts share one only after an edit, which looks for none,
\* or after two calls that created it at the same time.
AddressesAreUnique ==
    \A u, v \in DOMAIN users :
        users[u].email = users[v].email /\ u # v => users[u].email \in excused

\* Whole-row saves of a profile, a password reset or an administrator's edit,
\* the upgrade of an MD5 password and the payment of reputation lose nothing of
\* one another unless one writes the row while another is about to: else name,
\* address, password and reputation are the sum of what the calls asked for.
RowsAreExplained == \A u \in DOMAIN users \ overlapped : users[u] = book[u]

\* requests that were told that their token has changed the password
Resets(t) ==
    {r \in Requests : pc[r] = "done" /\ Op(r) = "reset" /\ call[r].word # None
                      /\ call[r].token = t}

\* A reset token is answered "OK" for one new password, although it is marked
\* used only after the password is saved and the marking may fail: a second
\* call succeeds only if it looked the token up before the first marked it.
TokensAreSpentOnce ==
    \A t \in Ids \ contested : Cardinality(Resets(t)) <= 1

\* The uid that a login answers is the one its session stands for, though a
\* first social login answers the user it inserted and opens the session for
\* the user it found afterwards: they differ only for a shared address, or for
\* one that the inserted user has not kept.
AnswersMatchSessions ==
    \A r \in Requests :
        pc[r] = "done" /\ Op(r) \in {"login", "social"} /\ sessions[r] # 0 /\ answer[r] # sessions[r]
            => /\ Op(r) = "social"
               /\ call[r].email \in excused \/ users[answer[r]].email # call[r].email
=============================================================================
