---------------------------- MODULE RegistryProofs ----------------------------
(***************************************************************************)
(* Proofs about NodeRegistry, for any set of nodes and any number of calls *)
(* in flight, whichever of them fail, break or are repeated.               *)
(***************************************************************************)
EXTENDS NodeRegistry, FiniteSetTheorems, SequenceTheorems, TLAPS

-----------------------------------------------------------------------------
(***************************************************************************)
(* Lists of nodes: what push and splice make of them.                      *)
(***************************************************************************)

\* no node is there twice
Injective(s) == \A j, k \in 1..Len(s) : s[j] = s[k] => j = k

\* Two places of a sequence are one if they hold the same of its values.
LEMMA SplicedAt ==
    ASSUME NEW s \in Seq(Nodes), Injective(s), NEW p \in 1..Len(s)
    PROVE  SelectInSeq(s, LAMBDA v : v = s[p]) = p
  <1> DEFINE I == {i \in 1..Len(s) : s[i] = s[p]}
  <1>1. I = {p}
    BY DEF Injective
  <1>2. Min(I) = p
    BY <1>1 DEF Min
  <1> QED BY <1>1, <1>2 DEF SelectInSeq

\* Removing the node at place p moves those after it one place up.
LEMMA Spliced ==
    ASSUME NEW s \in Seq(Nodes), Injective(s), NEW p \in 1..Len(s)
    PROVE  LET t == RemoveFirst(s, s[p])
           IN  /\ t \in Seq(Nodes) /\ Len(t) = Len(s) - 1
               /\ \A j \in 1..Len(s) - 1 : t[j] = IF j < p THEN s[j] ELSE s[j + 1]
               /\ Injective(t)
  <1> DEFINE t == RemoveFirst(s, s[p])
             a == SubSeq(s, 1, p - 1)
             b == SubSeq(s, p + 1, Len(s))
  <1>1. t = a \o b
    BY SplicedAt DEF RemoveFirst, RemoveAt
  <1>2. a \in Seq(Nodes) /\ Len(a) = p - 1 /\ \A j \in 1..p - 1 : a[j] = s[j]
    BY SubSeqProperties, ElementOfSeq
  <1>3. /\ b \in Seq(Nodes) /\ Len(b) = Len(s) - p
        /\ \A j \in 1..Len(s) - p : b[j] = s[p + j]
    <2>1. \A j \in p + 1..Len(s) : s[j] \in Nodes
      BY ElementOfSeq
    <2> QED BY <2>1, SubSeqProperties
  <1> HIDE DEF t, a, b
  <1>4. /\ t \in Seq(Nodes) /\ Len(t) = Len(a) + Len(b)
        /\ \A j \in 1..Len(a) + Len(b) : t[j] = IF j <= Len(a) THEN a[j] ELSE b[j - Len(a)]
    BY <1>1, <1>2, <1>3, ConcatProperties
  <1>5. Len(t) = Len(s) - 1
    BY <1>2, <1>3, <1>4
  <1>6. ASSUME NEW j \in 1..Len(s) - 1
        PROVE  t[j] = IF j < p THEN s[j] ELSE s[j + 1]
    <2>0. Len(s) \in Nat /\ j \in 1..Len(a) + Len(b)
      BY <1>2, <1>3
    <2>t. t[j] = IF j <= p - 1 THEN a[j] ELSE b[j - (p - 1)]
      BY <2>0, <1>4, <1>2
    <2>1. CASE j < p
      BY <2>1, <2>t, <2>0, <1>2
    <2>2. CASE j >= p
      <3>1. t[j] = b[j - (p - 1)] /\ j - (p - 1) \in 1..Len(s) - p
        BY <2>2, <2>t, <2>0
      <3>2. b[j - (p - 1)] = s[p + (j - (p - 1))]
        BY <3>1, <1>3
      <3> QED BY <2>2, <3>1, <3>2
    <2> QED BY <2>1, <2>2
  <1>7. Injective(t)
    BY <1>5, <1>6 DEF Injective
  <1> QED BY <1>4, <1>5, <1>6, <1>7 DEF t

\* Adding a node that is not there keeps the others in their places.
LEMMA Pushed ==
    ASSUME NEW s \in Seq(Nodes), Injective(s), NEW n \in Nodes, ~Contains(s, n)
    PROVE  /\ Append(s, n) \in Seq(Nodes) /\ Len(Append(s, n)) = Len(s) + 1
           /\ \A j \in 1..Len(s) : Append(s, n)[j] = s[j]
           /\ Append(s, n)[Len(s) + 1] = n
           /\ Injective(Append(s, n))
    BY DEF Injective, Contains

\* A list without duplicates has at most as many places as there are nodes.
LEMMA ListsOfNodes ==
    ASSUME NEW s \in Seq(Nodes), Injective(s)
    PROVE  s \in Lists
  <1>1. Len(s) \in Nat /\ s \in [1..Len(s) -> Nodes]
    BY LenProperties
  <1>2. s \in Injection(1..Len(s), Nodes)
    BY <1>1 DEF Injection, IsInjective, Injective
  <1>3. Cardinality(1..Len(s)) = Len(s)
    BY <1>1, FS_Interval
  <1>4. Len(s) <= Cardinality(Nodes) /\ Cardinality(Nodes) \in Nat
    BY <1>1, <1>2, <1>3, FS_Injection, FS_CardinalityType, NodesAreFinite
  <1> QED BY <1>1, <1>4 DEF Lists

\* The lists of TypeOK are the sequences that lists are made of.
LEMMA ListsAreSequences == Lists \subseteq Seq(Nodes)
  <1> SUFFICES ASSUME NEW k \in 0..Cardinality(Nodes), NEW s \in [1..k -> Nodes]
               PROVE  s \in Seq(Nodes)
    BY DEF Lists
  <1>1. k \in Nat
    BY FS_CardinalityType, NodesAreFinite
  <1> QED BY <1>1, SeqDef

-----------------------------------------------------------------------------
(***************************************************************************)
(* Types, and what the step of a call says of it.                          *)
(***************************************************************************)

\* a call that the API has to answer
Open == {"sent", "save"}

\* a call that has been sent has a node; curl waits for calls of its node that
\* are not answered; commands are started by calls that have got as far
Stages ==
    /\ \A r \in Requests : pc[r] # "unsent" =>
          call[r].op \in {"POST", "DELETE"} /\ call[r].node \in Nodes
    /\ \A n \in Nodes : waiting[n] # None =>
          pc[waiting[n]] \in Open /\ call[waiting[n]].node = n
    /\ \A r \in Requests : jobs[r] # {} => pc[r] = "deploy"

\* No list holds a node twice, be it saved or about to be.
Distinct == Injective(file) /\ \A r \in Requests : Injective(list[r])

\* A pool's list that is about to be saved has a node.
KeptOne ==
    \A r \in Requests : api = "pgpool" /\ pc[r] = "save" => list[r] # <<>>

TypeInv == TypeOK /\ Stages /\ Distinct /\ KeptOne

\* The initial list is any order of the nodes that are up.
LEMMA InitTypes == Init => TypeInv
  <1> SUFFICES ASSUME Init PROVE TypeInv OBVIOUS
  <1>1. PICK up \in SUBSET Nodes :
          /\ phase = [n \in Nodes |-> IF n \in up THEN "in" ELSE "out"]
          /\ file \in SetToSeqs(up)
    BY DEF Init
  <1>2. file \in Seq(Nodes) /\ Injective(file)
    <2>1. IsFiniteSet(up) /\ Cardinality(up) \in Nat
      BY FS_Subset, FS_CardinalityType, NodesAreFinite
    <2>2. file \in [1..Cardinality(up) -> up]
      BY <1>1 DEF SetToSeqs
    <2>3. file \in Seq(up) /\ Len(file) = Cardinality(up)
      BY <2>1, <2>2
    <2> QED BY <2>3, <1>1, SeqMonotonic DEF SetToSeqs, Injective
  <1>3. file \in Lists /\ <<>> \in Lists
    BY <1>2, ListsOfNodes, FS_CardinalityType, NodesAreFinite DEF Lists
  <1>4. TypeOK
    BY <1>1, <1>3 DEF Init, TypeOK
  <1>5. Distinct
    BY <1>2 DEF Init, Distinct, Injective
  <1> QED BY <1>4, <1>5 DEF Init, TypeInv, Stages, KeptOne

\* A call that is not refused adds a node that is not listed, or takes one
\* that is out: the result has no duplicates, and a pool's is not empty.
LEMMA ChangedLists ==
    ASSUME TypeInv, NEW r \in Requests, pc[r] # "unsent", ~Refused(r)
    PROVE  LET n == call[r].node
               t == Changed(r)
           IN  /\ t \in Seq(Nodes) /\ t \in Lists /\ Injective(t)
               /\ api = "pgpool" => t # <<>>
               /\ \A m \in Nodes :
                     Contains(t, m) <=> IF call[r].op = "POST" THEN m = n \/ Listed(m)
                                        ELSE m # n /\ Listed(m)
               /\ Len(file) # 0 /\ Contains(t, file[1]) => t[1] = file[1]
  <1> DEFINE n == call[r].node
             t == Changed(r)
  <1>1. /\ n \in Nodes /\ call[r].op \in {"POST", "DELETE"}
        /\ file \in Seq(Nodes) /\ Injective(file) /\ Len(file) \in Nat
    BY ListsAreSequences DEF TypeInv, Stages, TypeOK, Distinct
  <1>2. CASE call[r].op = "POST"
    <2>1. t = Append(file, n) /\ ~Contains(file, n)
      BY <1>2 DEF Changed, Refused, Listed
    <2>2. /\ t \in Seq(Nodes) /\ Len(t) = Len(file) + 1 /\ Injective(t)
          /\ \A j \in 1..Len(file) : t[j] = file[j]
          /\ t[Len(file) + 1] = n
      BY <1>1, <2>1, Pushed
    <2>3. t \in Lists
      BY <2>2, ListsOfNodes
    <2>4. ASSUME NEW m \in Nodes
          PROVE  Contains(t, m) <=> m = n \/ Listed(m)
      BY <1>1, <2>2 DEF Contains, Listed
    <2> QED BY <1>1, <1>2, <2>2, <2>3, <2>4
  <1>3. CASE call[r].op = "DELETE"
    <2>1. t = RemoveFirst(file, n) /\ Contains(file, n)
          /\ (api = "pgpool" => Len(file) > 1)
      BY <1>1, <1>3 DEF Changed, Refused, Listed, MustStay
    <2>2. PICK p \in 1..Len(file) : file[p] = n
      BY <2>1 DEF Contains
    <2>3. /\ t \in Seq(Nodes) /\ Len(t) = Len(file) - 1 /\ Injective(t)
          /\ \A j \in 1..Len(file) - 1 : t[j] = IF j < p THEN file[j] ELSE file[j + 1]
      <3>1. LET u == RemoveFirst(file, file[p])
            IN  /\ u \in Seq(Nodes) /\ Len(u) = Len(file) - 1 /\ Injective(u)
                /\ \A j \in 1..Len(file) - 1 :
                      u[j] = IF j < p THEN file[j] ELSE file[j + 1]
        BY <1>1, Spliced
      <3>2. t = RemoveFirst(file, file[p])
        BY <2>1, <2>2
      <3> HIDE DEF t
      <3> QED BY <3>1, <3>2
    <2>4. t \in Lists
      BY <2>3, ListsOfNodes
    <2>5. ASSUME NEW m \in Nodes
          PROVE  Contains(t, m) <=> m # n /\ Listed(m)
      <3>1. ASSUME Contains(t, m) PROVE m # n /\ Listed(m)
        <4>1. PICK j \in 1..Len(file) - 1 : t[j] = m
          BY <3>1, <2>3 DEF Contains
        <4>2. CASE j < p
          BY <4>1, <4>2, <2>2, <2>3, <1>1 DEF Listed, Contains, Injective
        <4>3. CASE j >= p
          <5>1. j + 1 \in 1..Len(file) /\ file[j + 1] = m /\ j + 1 # p
            BY <4>1, <4>3, <2>3, <1>1
          <5> QED BY <5>1, <2>2, <1>1 DEF Listed, Contains, Injective
        <4> QED BY <4>2, <4>3
      <3>2. ASSUME m # n, Listed(m) PROVE Contains(t, m)
        <4>1. PICK k \in 1..Len(file) : file[k] = m
          BY <3>2 DEF Listed, Contains
        <4>2. CASE k < p
          BY <4>1, <4>2, <2>3, <1>1 DEF Contains
        <4>3. CASE k > p
          <5>1. k - 1 \in 1..Len(file) - 1 /\ t[k - 1] = file[(k - 1) + 1] /\ (k - 1) + 1 = k
            BY <4>3, <2>3, <1>1
          <5> QED BY <5>1, <4>1, <2>3, <1>1 DEF Contains
        <4> QED BY <4>1, <4>2, <4>3, <2>2, <3>2
      <3> QED BY <3>1, <3>2
    <2>6. ASSUME Len(file) # 0, Contains(t, file[1]) PROVE t[1] = file[1]
      <3>1. file[1] \in Nodes
        BY <1>1, <2>6
      <3>2. file[1] # n
        BY <3>1, <2>5, <2>6
      <3>3. p > 1 /\ Len(file) - 1 >= 1
        BY <3>2, <2>2, <1>1
      <3> QED BY <3>3, <2>3
    <2>7. api = "pgpool" => t # <<>>
      BY <2>1, <2>3, <1>1
    <2> QED BY <1>3, <2>3, <2>4, <2>5, <2>6, <2>7
  <1> QED BY <1>1, <1>2, <1>3

\* The answer reaches the node whose curl waits for it, if there is one.
LEMMA AnswerReaches ==
    ASSUME TypeInv, NEW r \in Requests, pc[r] # "unsent", Answer(r)
    PROVE  /\ phase' \in [Nodes -> {"out", "joining", "in", "leaving", "gone"}]
           /\ waiting' \in [Nodes -> Requests \cup {None}]
           /\ \A m \in Nodes :
                 /\ waiting'[m] = IF waiting[m] = r THEN None ELSE waiting[m]
                 /\ phase'[m] = IF waiting[m] # r THEN phase[m]
                                ELSE IF call[r].op = "POST" THEN "in" ELSE "gone"
  <1>1. /\ call[r].node \in Nodes
        /\ phase \in [Nodes -> {"out", "joining", "in", "leaving", "gone"}]
        /\ waiting \in [Nodes -> Requests \cup {None}]
        /\ r # None
        /\ \A m \in Nodes : waiting[m] = r => call[r].node = m
    BY NoneIsNone DEF TypeInv, TypeOK, Stages
  <1> QED BY <1>1 DEF Answer, scripts

\* a call that ends, with or without an answer to a node
LEMMA Ended ==
    ASSUME TypeInv, NEW r \in Requests, pc[r] \in Open, Answer(r),
           pc' = [pc EXCEPT ![r] = "done"] \/ pc' = [pc EXCEPT ![r] = "compile"],
           UNCHANGED <<call, jobs>>
    PROVE  Stages'
  <1>1. /\ pc \in [Requests -> {"unsent", "sent", "save", "compile", "deploy", "done"}]
        /\ call \in [Requests -> [op : {"POST", "DELETE"}, node : Nodes] \cup {NoCall}]
        /\ Stages /\ pc[r] # "unsent"
        /\ waiting \in [Nodes -> Requests \cup {None}]
    BY DEF TypeInv, TypeOK, Open
  <1>2. \A m \in Nodes : waiting'[m] = IF waiting[m] = r THEN None ELSE waiting[m]
    BY <1>1, AnswerReaches
  <1>3. \A q \in Requests : q # r => pc'[q] = pc[q]
    BY <1>1
  <1>4. pc'[r] \notin {"unsent", "deploy"} /\ jobs[r] = {}
    BY <1>1 DEF Stages, Open
  <1>5. \A q \in Requests : pc'[q] # "unsent" => pc[q] # "unsent"
    BY <1>1, <1>3
  <1> QED BY <1>1, <1>2, <1>3, <1>4, <1>5 DEF Stages

\* Every step keeps the types and what the stage of a call says of it.
LEMMA NextTypes == TypeInv /\ [Next]_vars => TypeInv'
  <1> SUFFICES ASSUME TypeInv, [Next]_vars PROVE TypeInv'
    OBVIOUS
  <1> USE DEF Goto, scripts, process, machine
  <1>a. TypeOK /\ Stages /\ Distinct /\ KeptOne
    BY DEF TypeInv
  <1>1. ASSUME NEW n \in Nodes, NEW r \in Requests, Join(n, r) \/ Leave(n, r)
        PROVE  TypeInv'
    <2>1. PICK op \in {"POST", "DELETE"} : Send(n, r, op)
      BY <1>1 DEF Join, Leave
    <2>2. TypeOK'
      BY <1>a, <2>1 DEF TypeOK, Send
    <2>3. Stages'
      <3>1. jobs[r] = {}
        BY <1>a, <2>1 DEF Stages, Send
      <3>2. ASSUME NEW m \in Nodes, waiting'[m] # None
            PROVE  pc'[waiting'[m]] \in Open /\ call'[waiting'[m]].node = m
        <4>1. CASE m = n
          BY <4>1, <1>a, <2>1 DEF TypeOK, Send, Open
        <4>2. CASE m # n
          BY <4>2, <3>2, <1>a, <2>1 DEF TypeOK, Send, Stages, Open
        <4> QED BY <4>1, <4>2
      <3> QED BY <1>a, <2>1, <3>1, <3>2 DEF TypeOK, Send, Stages
    <2>4. Distinct' /\ KeptOne'
      BY <1>a, <2>1 DEF TypeOK, Send, Distinct, KeptOne, Injective
    <2> QED BY <2>2, <2>3, <2>4 DEF TypeInv
  <1>2. ASSUME NEW n \in Nodes, ConnectionBreaks(n)
        PROVE  TypeInv'
    BY <1>a, <1>2 DEF ConnectionBreaks, TypeInv, TypeOK, Stages, Distinct, KeptOne, Injective
  <1>3. ASSUME NEW r \in Requests, Read(r)
        PROVE  TypeInv'
    <2>0. pc[r] = "sent" /\ pc[r] # "unsent" /\ pc[r] \in Open
      BY <1>3 DEF Read, Open
    <2>1. CASE Refused(r)
      <3>1. pc' = [pc EXCEPT ![r] = "done"] /\ Answer(r)
            /\ UNCHANGED <<api, call, list, firstRun, jobs, machine, inOrder>>
            /\ clean' = (clean /\ ~Unsettled)
        BY <1>3, <2>1 DEF Read
      <3>2. Stages'
        BY <2>0, <3>1, Ended
      <3>3. TypeOK'
        <4>1. clean' \in BOOLEAN
          BY <1>a, <3>1 DEF TypeOK
        <4>2. /\ phase' \in [Nodes -> {"out", "joining", "in", "leaving", "gone"}]
              /\ waiting' \in [Nodes -> Requests \cup {None}]
          BY <2>0, <3>1, AnswerReaches
        <4> QED BY <1>a, <3>1, <4>1, <4>2 DEF TypeOK
      <3>4. Distinct' /\ KeptOne'
        BY <1>a, <3>1 DEF TypeOK, Distinct, KeptOne, Injective
      <3> QED BY <3>2, <3>3, <3>4 DEF TypeInv
    <2>2. CASE ~Refused(r)
      <3>1. /\ pc' = [pc EXCEPT ![r] = "save"] /\ list' = [list EXCEPT ![r] = Changed(r)]
            /\ UNCHANGED <<api, scripts, call, firstRun, jobs, machine, inOrder>>
            /\ clean' = (clean /\ ~Unsettled)
        BY <1>3, <2>2 DEF Read
      <3>2. /\ Changed(r) \in Lists /\ Injective(Changed(r))
            /\ api = "pgpool" => Changed(r) # <<>>
        BY <2>0, <2>2, ChangedLists
      <3> HIDE DEF scripts, machine
      <3>3. TypeOK'
        BY <1>a, <3>1, <3>2 DEF TypeOK, scripts, machine
      <3>4. Stages'
        BY <1>a, <2>0, <3>1 DEF TypeOK, Stages, scripts, Open
      <3>5. Distinct' /\ KeptOne'
        BY <1>a, <3>1, <3>2 DEF TypeOK, Distinct, KeptOne, Injective, machine
      <3> QED BY <3>3, <3>4, <3>5 DEF TypeInv
    <2> QED BY <2>1, <2>2
  <1>4. ASSUME NEW r \in Requests, Fail(r)
        PROVE  TypeInv'
    <2>1. /\ pc[r] \in Open /\ pc[r] # "unsent"
          /\ pc' = [pc EXCEPT ![r] = "done"] /\ Answer(r) /\ clean' = FALSE
          /\ UNCHANGED <<api, call, list, firstRun, jobs, machine, inOrder>>
      BY <1>4 DEF Fail, Open
    <2>2. Stages'
      BY <2>1, Ended
    <2>3. TypeOK'
      <3>1. /\ phase' \in [Nodes -> {"out", "joining", "in", "leaving", "gone"}]
            /\ waiting' \in [Nodes -> Requests \cup {None}]
        BY <2>1, AnswerReaches
      <3> QED BY <1>a, <2>1, <3>1 DEF TypeOK
    <2>4. Distinct' /\ KeptOne'
      BY <1>a, <2>1 DEF TypeOK, Distinct, KeptOne, Injective
    <2> QED BY <2>2, <2>3, <2>4 DEF TypeInv
  <1>5. ASSUME NEW r \in Requests, Save(r)
        PROVE  TypeInv'
    <2>1. /\ pc[r] = "save" /\ pc[r] \in Open /\ pc[r] # "unsent"
          /\ file' = list[r] /\ firstRun' = (firstRun /\ Len(list[r]) <= 1)
          /\ pc' = [pc EXCEPT ![r] = "compile"] /\ Answer(r)
          /\ UNCHANGED <<api, call, list, jobs, conf, etc, running, clean, inOrder>>
      BY <1>5 DEF Save, Open
    <2>2. Stages'
      BY <2>1, Ended
    <2>3. TypeOK'
      <3>1. /\ phase' \in [Nodes -> {"out", "joining", "in", "leaving", "gone"}]
            /\ waiting' \in [Nodes -> Requests \cup {None}]
        BY <2>1, AnswerReaches
      <3>2. firstRun' \in BOOLEAN
        BY <1>a, <2>1 DEF TypeOK
      <3> QED BY <1>a, <2>1, <3>1, <3>2 DEF TypeOK
    <2>4. Distinct' /\ KeptOne'
      BY <1>a, <2>1 DEF TypeOK, Distinct, KeptOne, Injective
    <2> QED BY <2>2, <2>3, <2>4 DEF TypeInv
  <1>6. ASSUME NEW r \in Requests, Compile(r)
        PROVE  TypeInv'
    <2>1. TypeOK'
      <3>1. conf' \in Lists /\ UNCHANGED <<file, etc, running>>
        BY <1>a, <1>6 DEF Compile, TypeOK, Rendered
      <3>2. jobs' \in [Requests -> SUBSET Commands]
        <4>1. jobs \in [Requests -> SUBSET Commands]
          BY <1>a DEF TypeOK
        <4>2. \/ jobs' = [jobs EXCEPT ![r] = {"replace", "restart"}]
              \/ jobs' = [jobs EXCEPT ![r] = {"replace", "reload"}]
              \/ jobs' = jobs
          BY <1>6 DEF Compile
        <4> QED BY <4>1, <4>2 DEF Commands
      <3>3. pc' \in [Requests -> {"unsent", "sent", "save", "compile", "deploy", "done"}]
        BY <1>a, <1>6 DEF Compile, TypeOK
      <3>4. clean' \in BOOLEAN
        BY <1>a, <1>6 DEF Compile, TypeOK
      <3> QED BY <1>a, <1>6, <3>1, <3>2, <3>3, <3>4 DEF Compile, TypeOK
    <2>2. Stages'
      BY <1>a, <1>6 DEF Compile, TypeOK, Stages, Open
    <2>3. Distinct' /\ KeptOne'
      BY <1>a, <1>6 DEF Compile, TypeOK, Distinct, KeptOne, Injective
    <2> QED BY <2>1, <2>2, <2>3 DEF TypeInv
  <1>7. ASSUME NEW r \in Requests, Replace(r)
        PROVE  TypeInv'
    BY <1>a, <1>7 DEF Replace, Ends, TypeInv, TypeOK, Stages, Distinct, KeptOne, Injective
  <1>8. ASSUME NEW r \in Requests, Reload(r)
        PROVE  TypeInv'
    BY <1>a, <1>8 DEF Reload, Ends, TypeInv, TypeOK, Stages, Distinct, KeptOne, Injective
  <1>9. ASSUME ApiRestarts
        PROVE  TypeInv'
    BY <1>a, <1>9 DEF ApiRestarts, TypeInv, TypeOK, Stages, Distinct, KeptOne, Injective
  <1>10. ASSUME UNCHANGED vars
         PROVE  TypeInv'
    BY <1>a, <1>10 DEF vars, TypeInv, TypeOK, Stages, Distinct, KeptOne, Injective
  <1> QED BY <1>1, <1>2, <1>3, <1>4, <1>5, <1>6, <1>7, <1>8, <1>9, <1>10 DEF Next

\* Every reachable state has the types of TypeOK, and more.
LEMMA TypesHold == Spec => []TypeInv
  BY InitTypes, NextTypes, PTL DEF Spec

\* The lists that the API keeps, saves and renders are lists of the nodes it
\* was told of, none longer than their number, whatever calls race.
THEOREM RegistryTypes == Spec => []TypeOK
  <1>1. TypeInv => TypeOK
    BY DEF TypeInv
  <1> QED BY <1>1, TypesHold, PTL

\* The file never lists a node twice: a handler adds a node only to a list
\* without it, and saves a list that it has read in one piece, however old.
THEOREM ListsHaveNoDuplicates == Spec => []NoDuplicates
  <1>1. TypeInv => NoDuplicates
    BY DEF TypeInv, Distinct, Injective, NoDuplicates
  <1> QED BY <1>1, TypesHold, PTL

\* A pool with nodes never loses the last: the guard is on the list that was
\* read, but what is saved is that list less one node, and never empty.
THEOREM PoolsKeepANode == Spec => NeverEmptied
  <1>1. TypeInv /\ [Next]_vars => [api = "pgpool" /\ file # <<>> => file' # <<>>]_file
    <2> SUFFICES ASSUME TypeInv, Next, api = "pgpool", file # <<>>, file' # file
                 PROVE  file' # <<>>
      BY DEF vars, machine
    <2>1. \/ \E r \in Requests : Save(r)
          \/ UNCHANGED file
      BY DEF Next, Join, Leave, Send, ConnectionBreaks, Read, Fail, Compile, Replace,
             Reload, ApiRestarts, machine
    <2> QED BY <2>1 DEF Save, TypeInv, KeptOne
  <1> QED BY <1>1, TypesHold, PTL DEF Spec, NeverEmptied

-----------------------------------------------------------------------------
(***************************************************************************)
(* Runs where no two calls overlap, nothing fails and no call is repeated. *)
(* Both properties of such runs rest on what calls have still to do.       *)
(***************************************************************************)

\* a call between the reading of the file and the replaced configuration
Busy(r) == pc[r] \in {"save", "compile"} \/ "replace" \in jobs[r]

\* calls follow one another
OneAtATime == \A q, r \in Requests : Busy(q) /\ Busy(r) => q = r

\* what a call is about to save is made of the file as it still is
ReadIsFresh ==
    \A r \in Requests : pc[r] = "save" => ~Refused(r) /\ list[r] = Changed(r)

\* each script waits for the one call it has made, and only then
CurlsWait ==
    /\ \A r \in Requests : pc[r] \in Open => waiting[call[r].node] = r
    /\ \A n \in Nodes :
          /\ phase[n] = "joining" => waiting[n] # None /\ call[waiting[n]].op = "POST"
          /\ phase[n] = "leaving" => waiting[n] # None /\ call[waiting[n]].op = "DELETE"
          /\ phase[n] \notin {"joining", "leaving"} => waiting[n] = None

Members ==
    \A n \in Nodes :
        /\ phase[n] = "in" => Listed(n)
        /\ phase[n] = "gone" /\ Listed(n) => api = "pgpool" /\ file[1] = n

\* a restart or a reload is still to come
Reloading == \E r \in Requests : jobs[r] \ {"replace"} # {}

\* the file, the configuration, the live one and the loaded one differ only
\* where a call is on its way between them
Following ==
    /\ \A r \in Requests : pc[r] = "compile" => list[r] = file
    /\ (\A r \in Requests : pc[r] # "compile") => conf = file
    /\ (\A r \in Requests : pc[r] # "compile" /\ "replace" \notin jobs[r]) => etc = conf
    /\ inOrder => \A r \in Requests : "replace" \in jobs[r] => jobs[r] \ {"replace"} # {}
    /\ inOrder /\ ~Reloading => running = etc

CleanRun == OneAtATime /\ ReadIsFresh /\ CurlsWait /\ Members /\ Following

CleanInv == TypeInv /\ (clean => CleanRun)

\* Nothing is under way at first, and the nodes that are up are those listed.
LEMMA InitClean == Init => CleanInv
  <1> SUFFICES ASSUME Init PROVE CleanRun
    BY InitTypes DEF CleanInv
  <1>1. PICK up \in SUBSET Nodes :
          /\ phase = [n \in Nodes |-> IF n \in up THEN "in" ELSE "out"]
          /\ file \in SetToSeqs(up)
    BY DEF Init
  <1>2. Members
    <2>1. IsFiniteSet(up) /\ Cardinality(up) \in Nat
      BY FS_Subset, FS_CardinalityType, NodesAreFinite
    <2>2. file \in [1..Cardinality(up) -> up] /\ IsInjective(file)
      BY <1>1 DEF SetToSeqs, IsInjective
    <2>3. file \in Seq(up) /\ Len(file) = Cardinality(up)
      BY <2>1, <2>2
    <2>4. \A n \in up : \E j \in 1..Cardinality(up) : file[j] = n
      <3>1. file \in Injection(1..Cardinality(up), up)
        BY <2>2 DEF Injection
      <3>2. Cardinality(1..Cardinality(up)) = Cardinality(up)
            /\ IsFiniteSet(1..Cardinality(up))
        BY <2>1, FS_Interval
      <3>3. file \in Surjection(1..Cardinality(up), up)
        BY <2>1, <3>1, <3>2, FS_Injection
      <3> QED BY <3>3 DEF Surjection
    <2>5. \A n \in Nodes : phase[n] = "in" => n \in up /\ phase[n] # "gone"
      BY <1>1
    <2>6. \A n \in Nodes : phase[n] # "gone"
      BY <1>1
    <2> QED BY <2>3, <2>4, <2>5, <2>6 DEF Members, Listed, Contains
  <1>3. OneAtATime /\ ReadIsFresh /\ Following
    BY DEF Init, OneAtATime, Busy, ReadIsFresh, Following
  <1>4. CurlsWait
    BY <1>1 DEF Init, CurlsWait, Open
  <1> QED BY <1>2, <1>3, <1>4 DEF CleanRun

\* Until its connection breaks, it is its own node that an answer reaches, and
\* no other: the node is then in or gone, as it asked to be.
LEMMA AnswersKeepWaiting ==
    ASSUME CleanInv, clean, NEW r \in Requests, pc[r] \in Open, Answer(r),
           pc' = [pc EXCEPT ![r] = "done"] \/ pc' = [pc EXCEPT ![r] = "compile"],
           UNCHANGED call
    PROVE  /\ CurlsWait'
           /\ \A m \in Nodes : phase'[m] =
                 IF m # call[r].node THEN phase[m]
                 ELSE IF call[r].op = "POST" THEN "in" ELSE "gone"
  <1>1. /\ pc \in [Requests -> {"unsent", "sent", "save", "compile", "deploy", "done"}]
        /\ waiting \in [Nodes -> Requests \cup {None}] /\ TypeInv /\ CurlsWait
        /\ pc[r] # "unsent" /\ call[r].node \in Nodes
    BY DEF CleanInv, CleanRun, TypeInv, TypeOK, Open, Stages
  <1>2. \A m \in Nodes :
          /\ waiting'[m] = IF waiting[m] = r THEN None ELSE waiting[m]
          /\ phase'[m] = IF waiting[m] # r THEN phase[m]
                         ELSE IF call[r].op = "POST" THEN "in" ELSE "gone"
    BY <1>1, AnswerReaches
  <1>3. \A m \in Nodes : waiting[m] = r <=> m = call[r].node
    BY <1>1, NoneIsNone DEF CurlsWait, TypeInv, Stages
  <1>4. \A m \in Nodes :
          /\ waiting'[m] = IF m = call[r].node THEN None ELSE waiting[m]
          /\ phase'[m] = IF m # call[r].node THEN phase[m]
                         ELSE IF call[r].op = "POST" THEN "in" ELSE "gone"
    BY <1>2, <1>3
  <1>5. \A q \in Requests : pc'[q] \in Open => q # r /\ pc[q] \in Open
    BY <1>1 DEF Open
  <1>6. \A q \in Requests : pc'[q] \in Open => waiting'[call[q].node] = q
    <2> SUFFICES ASSUME NEW q \in Requests, pc'[q] \in Open
                 PROVE  waiting'[call[q].node] = q
      OBVIOUS
    <2>1. q # r /\ waiting[call[q].node] = q /\ pc[q] # "unsent"
      BY <1>1, <1>5 DEF CurlsWait, Open
    <2>2. call[q].node \in Nodes
      BY <1>1, <2>1 DEF TypeInv, Stages
    <2>3. call[q].node # call[r].node
      BY <1>1, <1>3, <2>1, <2>2
    <2> QED BY <1>4, <2>1, <2>2, <2>3
  <1>7. ASSUME NEW m \in Nodes
        PROVE  /\ phase'[m] = "joining" => waiting'[m] # None /\ call[waiting'[m]].op = "POST"
               /\ phase'[m] = "leaving" => waiting'[m] # None /\ call[waiting'[m]].op = "DELETE"
               /\ phase'[m] \notin {"joining", "leaving"} => waiting'[m] = None
    <2>1. CASE m = call[r].node
      BY <2>1, <1>4
    <2>2. CASE m # call[r].node
      BY <2>2, <1>4, <1>1 DEF CurlsWait
    <2> QED BY <2>1, <2>2
  <1> QED BY <1>4, <1>6, <1>7 DEF CurlsWait

\* A call that begins disturbs nothing that an earlier one has still to do.
LEMMA SendKeepsClean ==
    ASSUME CleanInv, clean, NEW n \in Nodes, NEW r \in Requests, Join(n, r) \/ Leave(n, r)
    PROVE  CleanRun'
  <1> USE DEF Goto, machine
  <1>1. PICK op \in {"POST", "DELETE"} : Send(n, r, op)
    BY DEF Join, Leave
  <1>2. /\ TypeOK /\ Stages /\ CleanRun /\ pc[r] = "unsent" /\ waiting[n] = None
        /\ UNCHANGED <<api, list, jobs, file, conf, etc, running, inOrder>>
        /\ pc' = [pc EXCEPT ![r] = "sent"]
        /\ call' = [call EXCEPT ![r] = [op |-> op, node |-> n]]
        /\ waiting' = [waiting EXCEPT ![n] = r]
        /\ phase' = [phase EXCEPT ![n] = IF op = "POST" THEN "joining" ELSE "leaving"]
    BY <1>1 DEF Send, CleanInv, TypeInv
  <1>3. \A q \in Requests : q # r => pc'[q] = pc[q] /\ call'[q] = call[q]
    BY <1>2 DEF TypeOK
  <1>4. pc'[r] = "sent" /\ call'[r] = [op |-> op, node |-> n]
    BY <1>2 DEF TypeOK
  <1>5. \A q \in Requests : (pc'[q] = "save" <=> pc[q] = "save")
                          /\ (pc'[q] = "compile" <=> pc[q] = "compile")
    BY <1>2, <1>3, <1>4
  <1>6. OneAtATime'
    BY <1>2, <1>5 DEF CleanRun, OneAtATime, Busy
  <1>7. ReadIsFresh'
    <2> SUFFICES ASSUME NEW q \in Requests, pc'[q] = "save"
                 PROVE  ~Refused(q)' /\ list'[q] = Changed(q)'
      BY DEF ReadIsFresh
    <2>1. q # r /\ ~Refused(q) /\ list[q] = Changed(q) /\ call'[q] = call[q]
      BY <1>2, <1>3, <1>4, <1>5 DEF CleanRun, ReadIsFresh
    <2> QED BY <2>1, <1>2 DEF Refused, Listed, MustStay, Changed
  <1>8. CurlsWait'
    <2>0. \A m \in Nodes : m # n => waiting'[m] = waiting[m] /\ phase'[m] = phase[m]
      BY <1>2 DEF TypeOK
    <2>1. waiting'[n] = r /\ phase'[n] = IF op = "POST" THEN "joining" ELSE "leaving"
      BY <1>2 DEF TypeOK
    <2>2. ASSUME NEW q \in Requests, pc'[q] \in Open
          PROVE  waiting'[call'[q].node] = q
      <3>1. CASE q = r
        BY <3>1, <1>4, <2>1
      <3>2. CASE q # r
        <4>1. pc[q] \in Open /\ waiting[call[q].node] = q /\ call[q].node \in Nodes
          BY <3>2, <2>2, <1>2, <1>3 DEF CleanRun, CurlsWait, Stages, Open
        <4>2. call[q].node # n
          BY <4>1, <1>2, NoneIsNone
        <4> QED BY <3>2, <1>3, <2>0, <4>1, <4>2
      <3> QED BY <3>1, <3>2
    <2>3. ASSUME NEW m \in Nodes, m # n
          PROVE  waiting[m] # None => call'[waiting[m]] = call[waiting[m]]
      BY <1>2, <1>3 DEF TypeOK, Stages, Open
    <2>4. ASSUME NEW m \in Nodes
          PROVE  /\ phase'[m] = "joining" => waiting'[m] # None /\ call'[waiting'[m]].op = "POST"
                 /\ phase'[m] = "leaving" => waiting'[m] # None /\ call'[waiting'[m]].op = "DELETE"
                 /\ phase'[m] \notin {"joining", "leaving"} => waiting'[m] = None
      <3>1. CASE m = n
        BY <3>1, <1>4, <2>1, NoneIsNone
      <3>2. CASE m # n
        BY <3>2, <2>0, <2>3, <1>2 DEF CleanRun, CurlsWait
      <3> QED BY <3>1, <3>2
    <2> QED BY <2>2, <2>4 DEF CurlsWait
  <1>9. Members'
    BY <1>2 DEF CleanRun, Members, TypeOK, Listed
  <1>10. Following'
    BY <1>2, <1>5 DEF CleanRun, Following, Reloading
  <1> QED BY <1>6, <1>7, <1>8, <1>9, <1>10 DEF CleanRun

\* Where nothing else is under way, a call is refused because the node is where
\* it should be, or else makes its list of the file that it will replace.
LEMMA ReadKeepsClean ==
    ASSUME CleanInv, clean', NEW r \in Requests, Read(r)
    PROVE  CleanRun'
  <1> USE DEF Goto, machine
  <1>1. /\ TypeOK /\ Stages /\ CleanRun /\ clean /\ ~Unsettled /\ pc[r] = "sent" /\ pc[r] \in Open
        /\ UNCHANGED <<api, call, jobs, file, conf, etc, running, inOrder>>
    BY DEF Read, CleanInv, TypeInv, Open
  <1>2. \A q \in Requests : ~Busy(q)
    BY <1>1 DEF Unsettled, Busy
  <1>3. CASE Refused(r)
    <2>1. pc' = [pc EXCEPT ![r] = "done"] /\ Answer(r) /\ UNCHANGED list
      BY <1>3 DEF Read
    <2>2. /\ CurlsWait'
          /\ \A m \in Nodes : phase'[m] =
                IF m # call[r].node THEN phase[m]
                ELSE IF call[r].op = "POST" THEN "in" ELSE "gone"
      BY <1>1, <2>1, AnswersKeepWaiting
    <2>3. \A q \in Requests : pc'[q] \notin {"save", "compile"} /\ pc[q] # "compile"
      BY <1>1, <1>2, <2>1 DEF Busy, TypeOK
    <2>4. OneAtATime' /\ ReadIsFresh'
      BY <1>1, <1>2, <2>3 DEF OneAtATime, ReadIsFresh, Busy
    <2>5. Members'
      <3> SUFFICES ASSUME NEW m \in Nodes
                   PROVE  /\ phase'[m] = "in" => Listed(m)
                          /\ phase'[m] = "gone" /\ Listed(m) => api = "pgpool" /\ file[1] = m
        BY <1>1 DEF Members, Listed
      <3>1. CASE m # call[r].node
        BY <3>1, <2>2, <1>1 DEF CleanRun, Members
      <3>2. CASE m = call[r].node
        <4>1. CASE call[r].op = "POST"
          BY <3>2, <4>1, <2>2, <1>3 DEF Refused
        <4>2. CASE call[r].op # "POST"
          <5>1. phase'[m] = "gone"
            BY <3>2, <4>2, <2>2
          <5>2. ASSUME Listed(m) PROVE api = "pgpool" /\ file[1] = m
            <6>1. api = "pgpool" /\ Len(file) <= 1
              BY <1>3, <3>2, <4>2, <5>2 DEF Refused, MustStay
            <6>2. file \in Seq(Nodes) /\ Len(file) \in Nat
              BY <1>1, ListsAreSequences DEF TypeOK
            <6> QED BY <5>2, <6>1, <6>2 DEF Listed, Contains
          <5> QED BY <5>1, <5>2
        <4> QED BY <4>1, <4>2
      <3> QED BY <3>1, <3>2
    <2>6. Following'
      BY <1>1, <2>3 DEF CleanRun, Following, Reloading
    <2> QED BY <2>2, <2>4, <2>5, <2>6 DEF CleanRun
  <1>4. CASE ~Refused(r)
    <2>1. /\ pc' = [pc EXCEPT ![r] = "save"] /\ list' = [list EXCEPT ![r] = Changed(r)]
          /\ UNCHANGED <<phase, waiting>>
      BY <1>4 DEF Read, scripts
    <2>2. \A q \in Requests :
            /\ pc'[q] = "save" <=> q = r
            /\ pc'[q] # "compile" /\ pc[q] # "compile" /\ "replace" \notin jobs[q]
      BY <1>1, <1>2, <2>1 DEF Busy, TypeOK
    <2>3. OneAtATime'
      BY <1>1, <2>2 DEF OneAtATime, Busy
    <2>4. ReadIsFresh'
      <3>1. list'[r] = Changed(r)
        BY <1>1, <2>1 DEF TypeOK
      <3>2. (Refused(r)' <=> Refused(r)) /\ Changed(r)' = Changed(r)
        BY <1>1 DEF Refused, Listed, MustStay, Changed
      <3> QED BY <1>4, <2>2, <3>1, <3>2 DEF ReadIsFresh
    <2>5. CurlsWait'
      BY <1>1, <2>1 DEF CleanRun, CurlsWait, Open, TypeOK
    <2>6. Members'
      BY <1>1, <2>1 DEF CleanRun, Members, Listed
    <2>7. Following'
      BY <1>1, <2>2 DEF CleanRun, Following, Reloading
    <2> QED BY <2>3, <2>4, <2>5, <2>6, <2>7 DEF CleanRun
  <1> QED BY <1>3, <1>4

\* The one call under way saves what it was asked for, and tells its node.
LEMMA SaveKeepsClean ==
    ASSUME CleanInv, clean, NEW r \in Requests, Save(r)
    PROVE  CleanRun'
  <1> USE DEF Goto, machine
  <1>1. /\ TypeInv /\ TypeOK /\ Stages /\ CleanRun /\ pc[r] = "save" /\ pc[r] \in Open
        /\ pc[r] # "unsent"
        /\ file' = list[r] /\ pc' = [pc EXCEPT ![r] = "compile"] /\ Answer(r)
        /\ UNCHANGED <<api, call, list, jobs, conf, etc, running, inOrder>>
    BY DEF Save, CleanInv, TypeInv, Open
  <1>2. list[r] = Changed(r) /\ ~Refused(r)
    BY <1>1 DEF CleanRun, ReadIsFresh
  <1>3. /\ CurlsWait'
        /\ \A m \in Nodes : phase'[m] =
              IF m # call[r].node THEN phase[m]
              ELSE IF call[r].op = "POST" THEN "in" ELSE "gone"
    BY <1>1, AnswersKeepWaiting
  <1>4. \A q \in Requests :
          /\ Busy(q)' => q = r
          /\ pc'[q] # "save" /\ (pc'[q] = "compile" <=> q = r)
          /\ "replace" \notin jobs[q]
    BY <1>1 DEF CleanRun, OneAtATime, Busy, TypeOK, Stages
  <1>5. OneAtATime' /\ ReadIsFresh'
    BY <1>4 DEF OneAtATime, ReadIsFresh
  <1>6. Members'
    <2>1. /\ \A m \in Nodes : Contains(list[r], m) <=>
                IF call[r].op = "POST" THEN m = call[r].node \/ Listed(m)
                ELSE m # call[r].node /\ Listed(m)
          /\ Len(file) # 0 /\ Contains(list[r], file[1]) => list[r][1] = file[1]
      BY <1>1, <1>2, ChangedLists
    <2>2. Len(file) \in Nat /\ \A m \in Nodes : Listed(m) => Len(file) # 0
      <3>1. file \in Seq(Nodes) /\ Len(file) \in Nat
        BY <1>1, ListsAreSequences DEF TypeOK
      <3> QED BY <3>1 DEF Listed, Contains
    <2> SUFFICES ASSUME NEW m \in Nodes
                 PROVE  /\ phase'[m] = "in" => Contains(list[r], m)
                        /\ phase'[m] = "gone" /\ Contains(list[r], m) =>
                              api = "pgpool" /\ list[r][1] = m
      BY <1>1 DEF Members, Listed
    <2>3. CASE m = call[r].node
      BY <2>3, <2>1, <1>3, <1>1
    <2>4. CASE m # call[r].node
      <3>1. /\ phase'[m] = phase[m] /\ (Contains(list[r], m) <=> Listed(m))
        BY <2>4, <2>1, <1>3
      <3> QED BY <3>1, <2>1, <2>2, <1>1 DEF CleanRun, Members
    <2> QED BY <2>3, <2>4
  <1>7. Following'
    BY <1>1, <1>4 DEF CleanRun, Following, Reloading
  <1> QED BY <1>3, <1>5, <1>6, <1>7 DEF CleanRun

\* What is rendered is the file, and a restart or reload follows it.
LEMMA CompileKeepsClean ==
    ASSUME CleanInv, clean', NEW r \in Requests, Compile(r)
    PROVE  CleanRun'
  <1> USE DEF Goto, machine
  <1>1. PICK command \in {"restart", "reload"} :
          /\ pc[r] = "compile" /\ conf' = list[r]
          /\ jobs' = [jobs EXCEPT ![r] = {"replace", command}]
          /\ pc' = [pc EXCEPT ![r] = "deploy"]
          /\ UNCHANGED <<clean, api, phase, waiting, call, list, file, etc, running, inOrder>>
    BY DEF Compile, Rendered, scripts
  <1>2. TypeOK /\ Stages /\ CleanRun
    BY <1>1 DEF CleanInv, TypeInv
  <1>3. /\ jobs'[r] = {"replace", command} /\ pc'[r] = "deploy"
        /\ \A q \in Requests : q # r => jobs'[q] = jobs[q] /\ pc'[q] = pc[q] /\ ~Busy(q)
    BY <1>1, <1>2 DEF TypeOK, CleanRun, OneAtATime, Busy
  <1>4. \A q \in Requests : q # r => pc'[q] \notin {"save", "compile"} /\ "replace" \notin jobs'[q]
    BY <1>3 DEF Busy
  <1>5. OneAtATime' /\ ReadIsFresh'
    BY <1>3, <1>4 DEF OneAtATime, ReadIsFresh, Busy
  <1>6. CurlsWait' /\ Members'
    BY <1>1, <1>2, <1>3 DEF CleanRun, CurlsWait, Members, Open, Listed
  <1>7. Following'
    <2>1. list[r] = file
      BY <1>1, <1>2 DEF CleanRun, Following
    <2>2. jobs'[r] \ {"replace"} # {} /\ "replace" \in jobs'[r]
      BY <1>3
    <2> QED BY <1>1, <1>3, <1>4, <2>1, <2>2 DEF Following, Reloading
  <1> QED BY <1>5, <1>6, <1>7 DEF CleanRun

\* The replacement brings the live configuration up to date; the restart or
\* reload that the call started with it is then still to come, or has
\* overtaken it.
LEMMA ReplaceKeepsClean ==
    ASSUME CleanInv, clean, NEW r \in Requests, Replace(r)
    PROVE  CleanRun'
  <1>1. /\ TypeOK /\ Stages /\ CleanRun /\ "replace" \in jobs[r] /\ etc' = conf
        /\ jobs' = [jobs EXCEPT ![r] = @ \ {"replace"}]
        /\ UNCHANGED <<clean, api, phase, waiting, call, pc, list, file, conf, running, inOrder>>
    BY DEF Replace, Ends, scripts, CleanInv, TypeInv
  <1>2. /\ jobs'[r] = jobs[r] \ {"replace"}
        /\ \A q \in Requests : q # r => jobs'[q] = jobs[q] /\ ~Busy(q)
    BY <1>1 DEF TypeOK, CleanRun, OneAtATime, Busy
  <1>3. \A q \in Requests : "replace" \notin jobs'[q]
    BY <1>2 DEF Busy
  <1>4. OneAtATime' /\ ReadIsFresh'
    BY <1>1, <1>3 DEF CleanRun, OneAtATime, ReadIsFresh, Busy, Refused, Listed, MustStay, Changed
  <1>5. CurlsWait' /\ Members'
    BY <1>1 DEF CleanRun, CurlsWait, Members, Listed
  <1>6. Following'
    <2>1. inOrder => Reloading'
      <3>1. inOrder => jobs[r] \ {"replace"} # {}
        BY <1>1 DEF CleanRun, Following
      <3> QED BY <1>2, <3>1 DEF Reloading
    <2> QED BY <1>1, <1>3, <2>1 DEF CleanRun, Following
  <1> QED BY <1>4, <1>5, <1>6 DEF CleanRun

\* The daemon loads the live configuration, be it the replaced one or not.
LEMMA ReloadKeepsClean ==
    ASSUME CleanInv, clean, NEW r \in Requests, Reload(r)
    PROVE  CleanRun'
  <1>1. PICK command \in jobs[r] \ {"replace"} :
          /\ jobs' = [jobs EXCEPT ![r] = @ \ {command}] /\ running' = etc
          /\ inOrder' = (inOrder /\ "replace" \notin jobs[r])
          /\ UNCHANGED <<clean, api, phase, waiting, call, pc, list, file, conf, etc>>
    BY DEF Reload, Ends, scripts
  <1>2. TypeOK /\ CleanRun
    BY DEF CleanInv, TypeInv
  <1>3. \A q \in Requests :
          /\ "replace" \in jobs'[q] <=> "replace" \in jobs[q]
          /\ q # r => jobs'[q] = jobs[q]
    BY <1>1, <1>2 DEF TypeOK
  <1>4. OneAtATime' /\ ReadIsFresh'
    BY <1>1, <1>2, <1>3
       DEF CleanRun, OneAtATime, ReadIsFresh, Busy, Refused, Listed, MustStay, Changed
  <1>5. CurlsWait' /\ Members'
    BY <1>1, <1>2 DEF CleanRun, CurlsWait, Members, Listed
  <1>6. Following'
    BY <1>1, <1>2, <1>3 DEF CleanRun, Following
  <1> QED BY <1>4, <1>5, <1>6 DEF CleanRun

\* Every step of such a run keeps what is said of it.
LEMMA NextClean == CleanInv /\ [Next]_vars => CleanInv'
  <1> SUFFICES ASSUME CleanInv, [Next]_vars, clean' PROVE CleanRun'
    BY NextTypes DEF CleanInv
  <1>1. ASSUME NEW n \in Nodes, NEW r \in Requests, Join(n, r) \/ Leave(n, r)
        PROVE  CleanRun'
    BY <1>1, SendKeepsClean DEF Join, Leave, Send
  <1>2. ASSUME NEW n \in Nodes, ConnectionBreaks(n)
        PROVE  CleanRun'
    BY <1>2 DEF ConnectionBreaks
  <1>3. ASSUME NEW r \in Requests, Read(r)
        PROVE  CleanRun'
    BY <1>3, ReadKeepsClean
  <1>4. ASSUME NEW r \in Requests, Fail(r)
        PROVE  CleanRun'
    BY <1>4 DEF Fail
  <1>5. ASSUME NEW r \in Requests, Save(r)
        PROVE  CleanRun'
    BY <1>5, SaveKeepsClean DEF Save
  <1>6. ASSUME NEW r \in Requests, Compile(r)
        PROVE  CleanRun'
    BY <1>6, CompileKeepsClean
  <1>7. ASSUME NEW r \in Requests, Replace(r)
        PROVE  CleanRun'
    BY <1>7, ReplaceKeepsClean DEF Replace
  <1>8. ASSUME NEW r \in Requests, Reload(r)
        PROVE  CleanRun'
    BY <1>8, ReloadKeepsClean DEF Reload
  <1>9. ASSUME ApiRestarts
        PROVE  CleanRun'
    BY <1>9 DEF ApiRestarts
  <1>10. ASSUME UNCHANGED vars
         PROVE  CleanRun'
    <2>1. clean /\ CleanRun
      BY <1>10 DEF vars, CleanInv
    <2> QED BY <2>1, <1>10
            DEF vars, scripts, process, machine, CleanRun, OneAtATime, Busy, ReadIsFresh, Refused,
                Listed, MustStay, Changed, CurlsWait, Members, Following, Reloading
  <1> QED BY <1>1, <1>2, <1>3, <1>4, <1>5, <1>6, <1>7, <1>8, <1>9, <1>10 DEF Next

\* Every reachable state of such a run is as CleanRun says.
LEMMA CleanRunsHold == Spec => []CleanInv
  BY InitClean, NextClean, PTL DEF Spec

\* Where calls do not overlap, fail or repeat, the list holds every node that
\* was told it is in, and none that was told it is out, but for the last of a
\* pool.
THEOREM MembersMatchTheFile == Spec => []MembersAreListed
  <1>1. CleanInv => MembersAreListed
    BY DEF CleanInv, CleanRun, Members, MembersAreListed
  <1> QED BY <1>1, CleanRunsHold, PTL

\* In such a run the live configuration has caught up with the file once all
\* commands have ended, and the daemon too if no reload overtook a replacement.
THEOREM ConfigurationCatchesUp == Spec => []ConfigurationFollows
  <1>1. CleanInv => ConfigurationFollows
    BY DEF CleanInv, CleanRun, Following, Reloading, AtRest, ConfigurationFollows
  <1> QED BY <1>1, CleanRunsHold, PTL
=============================================================================
