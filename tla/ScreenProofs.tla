---------------------------- MODULE ScreenProofs ----------------------------
(***************************************************************************)
(* What the screens show: proofs about ActivityStream, Paging, AdminTable  *)
(* and PoliticalActivity, for any users, charts, entries, mentions and     *)
(* terms, any lengths of the lists and of the pages, any number of         *)
(* requests on their way and whichever of their queries fail.              *)
(***************************************************************************)
EXTENDS MCReaders, DataProofs, SequenceTheorems

-----------------------------------------------------------------------------
(***************************************************************************)
(* ActivityStream: the four tables tell what was done.                     *)
(***************************************************************************)
ActOps == {"comment", "pattern", "observation"}
Acted == [by : People, op : ActOps, did : Patterns \cup Nat, oid : Nat, up : BOOLEAN,
          owner : People \cup {Nobody}, at : Nat]
Voted == [uid : People, did : Patterns \cup Nat, oid : Nat, up : BOOLEAN, at : Nat]

\* the activity that an act leaves
ActivityOf(a) ==
    [uid |-> a.by, type |-> ActionOf(a), did |-> a.did, oid |-> a.oid, at |-> a.at]

\* A chart has a discoverer, a row of no chart is Nobody's; observations have
\* ids of their own.
StreamRows ==
    /\ clock \in Nat \ {0}
    /\ \A d \in Dids : \/ d \in Patterns /\ discovered[d] \in People
                       \/ d \in 1..clock - 1 /\ discovered[d] = Nobody
    /\ \A row \in observations : row.oid \in 1..clock - 1 /\ row.uid \in People /\ row.did \in Dids
    /\ \A row, other \in observations : row.oid = other.oid => row = other

\* An act has a time of its own, and its owner is still the one of its chart or
\* of its observation, if that is there.
ActsAreKnown ==
    /\ IsFiniteSet(acts) /\ acts \subseteq Acted
    /\ \A a, b \in acts : a.at = b.at => a = b
    /\ \A a \in acts :
         /\ a.at \in 1..clock - 1
         /\ a.op = "comment" =>
              a.oid = NoId /\ a.did \in Dids /\ a.owner = discovered[a.did]
         /\ a.op = "pattern" =>
              /\ a.oid = NoId
              /\ \/ a.did = NoId /\ a.owner = Nobody
                 \/ a.did \in Dids \cap Patterns /\ a.owner = discovered[a.did]
         /\ a.op = "observation" =>
              /\ a.did = NoId /\ a.oid \in 1..clock - 1 /\ a.owner \in People
              /\ \A row \in Observation(a.oid) : row.uid = a.owner

ActivitiesAreActs == activities = {ActivityOf(a) : a \in acts}

\* the votes of one user on one chart
SameVotes(v) == {a \in acts : a.op = "pattern" /\ a.by = v.uid /\ a.did = v.did}

\* the vote that a row stands for: cast at the first of them, in the direction
\* of the last
Stands(v) ==
    \E f, l \in SameVotes(v) :
        /\ f.at = v.at /\ l.up = v.up
        /\ \A c \in SameVotes(v) : f.at <= c.at /\ c.at <= l.at

CastOn(v, a) ==
    a.op = "observation" /\ a.oid = v.oid /\ a.by = v.uid /\ a.up = v.up /\ a.at = v.at

VotesAreActs ==
    /\ votes \subseteq Voted
    /\ \A v \in votes :
         \/ v.did \in Dids \ Patterns /\ v.oid = NoId
         \/ v.did \in Patterns /\ v.oid = NoId /\ Stands(v)
         \/ v.did = NoId /\ v.oid # NoId /\ \E a \in acts : CastOn(v, a)
    /\ \A a \in acts : a.op = "pattern" /\ a.did # NoId => \E v \in votes : a \in SameVotes(v)
    /\ \A a \in acts : a.op = "observation" => \E v \in votes : CastOn(v, a)

StreamInv == StreamRows /\ ActsAreKnown /\ ActivitiesAreActs /\ VotesAreActs

\* The initial state: nothing was done.
LEMMA StreamBegins == StreamInit => StreamInv
  <1> SUFFICES ASSUME StreamInit PROVE StreamInv
    OBVIOUS
  <1>1. StreamRows
    BY DEF StreamInit, StreamRows, Dids
  <1>2. ActsAreKnown
    BY FS_EmptySet DEF StreamInit, ActsAreKnown
  <1>3. ActivitiesAreActs /\ VotesAreActs
    BY DEF StreamInit, ActivitiesAreActs, VotesAreActs
  <1> QED BY <1>1, <1>2, <1>3 DEF StreamInv

\* Numbers are no charts.
LEMMA ChartsAreNoNumbers == NoId \notin Patterns /\ \A n \in Nat : n \notin Patterns
  BY StreamsAreBounded DEF NoId

\* A row that is added leaves the others.
LEMMA RowIsAdded ==
    ASSUME NEW d, NEW w, discovered' = Add(d, w)
    PROVE  /\ Dids' = Dids \cup {d} /\ discovered'[d] = w
           /\ \A e \in Dids : e # d => discovered'[e] = discovered[e]
  BY DEF Add, Dids

\* The first view of a chart adds its row and nothing else.
LEMMA DiscoverStep ==
    ASSUME StreamInv, NEW u \in People, NEW d \in Patterns, DiscoverPattern(u, d)
    PROVE  StreamInv'
  <1>1. /\ Dids' = Dids \cup {d} /\ discovered'[d] = u /\ d \notin Dids
        /\ \A e \in Dids : discovered'[e] = discovered[e]
        /\ UNCHANGED <<observations, votes, activities, clock, acts>>
    BY RowIsAdded DEF DiscoverPattern
  <1>2. StreamRows'
    BY <1>1 DEF StreamInv, StreamRows
  <1>3. ActsAreKnown'
    BY <1>1 DEF StreamInv, ActsAreKnown, Observation
  <1>4. ActivitiesAreActs'
    BY <1>1 DEF StreamInv, ActivitiesAreActs
  <1>5. VotesAreActs'
    <2>1. \A v : SameVotes(v)' = SameVotes(v)
      BY <1>1 DEF SameVotes
    <2>2. \A v : Stands(v)' = Stands(v)
      BY <2>1 DEF Stands
    <2>3. \A v, a : CastOn(v, a)' = CastOn(v, a)
      BY DEF CastOn
    <2>4. \A v \in votes :
             \/ v.did \in Dids' \ Patterns /\ v.oid = NoId
             \/ v.did \in Patterns /\ v.oid = NoId /\ Stands(v)
             \/ v.did = NoId /\ v.oid # NoId /\ \E a \in acts : CastOn(v, a)
      BY <1>1 DEF StreamInv, VotesAreActs
    <2>5. /\ \A a \in acts : a.op = "pattern" /\ a.did # NoId => \E v \in votes : a \in SameVotes(v)
          /\ \A a \in acts : a.op = "observation" => \E v \in votes : CastOn(v, a)
          /\ votes \subseteq Voted
      BY DEF StreamInv, VotesAreActs
    <2> QED BY <1>1, <2>1, <2>2, <2>3, <2>4, <2>5 DEF VotesAreActs
  <1> QED BY <1>2, <1>3, <1>4, <1>5 DEF StreamInv

\* An observation that is deleted takes nothing else with it.
LEMMA DeleteStep ==
    ASSUME StreamInv, NEW row \in observations, DeleteObservation(row)
    PROVE  StreamInv'
  <1>1. /\ observations' \subseteq observations /\ Dids' = Dids
        /\ UNCHANGED <<discovered, votes, activities, clock, acts>>
    BY DEF DeleteObservation, Dids
  <1>2. StreamRows'
    BY <1>1 DEF StreamInv, StreamRows
  <1>3. ActsAreKnown'
    <2>1. \A o : Observation(o)' \subseteq Observation(o)
      BY <1>1 DEF Observation
    <2> QED BY <1>1, <2>1 DEF StreamInv, ActsAreKnown
  <1>4. ActivitiesAreActs'
    BY <1>1 DEF StreamInv, ActivitiesAreActs
  <1>5. VotesAreActs'
    BY <1>1 DEF StreamInv, VotesAreActs, SameVotes, Stands, CastOn
  <1> QED BY <1>2, <1>3, <1>4, <1>5 DEF StreamInv

\* The act that is noted, with the time it has.
LEMMA ActIsNoted ==
    ASSUME StreamInv, NEW u \in People, NEW op \in ActOps, NEW d \in Patterns \cup Nat,
           NEW o \in Nat, NEW up \in BOOLEAN, NEW w \in People \cup {Nobody},
           Act(u, op, d, o, up, w)
    PROVE  \E act \in Acted :
             /\ act.by = u /\ act.op = op /\ act.did = d /\ act.oid = o /\ act.up = up
             /\ act.owner = w /\ act.at = clock /\ clock' = clock + 1
             /\ acts' = acts \cup {act} /\ IsFiniteSet(acts') /\ acts' \subseteq Acted
             /\ \A a \in acts : a.at < clock
             /\ \A a, b \in acts' : a.at = b.at => a = b
  <1> DEFINE act == [by |-> u, op |-> op, did |-> d, oid |-> o, up |-> up, owner |-> w,
                     at |-> clock]
  <1>1. clock \in Nat /\ acts \subseteq Acted /\ IsFiniteSet(acts)
        /\ \A a \in acts : a.at \in 1..clock - 1
    BY DEF StreamInv, StreamRows, ActsAreKnown
  <1>2. act \in Acted
    BY <1>1 DEF Acted
  <1>3. acts' = acts \cup {act} /\ clock' = clock + 1
    BY DEF Act
  <1>4. /\ act.by = u /\ act.op = op /\ act.did = d /\ act.oid = o /\ act.up = up
        /\ act.owner = w /\ act.at = clock
    OBVIOUS
  <1> HIDE DEF act
  <1>5. IsFiniteSet(acts \cup {act})
    BY <1>1, FS_AddElement
  <1>6. \A a \in acts : a.at < clock
    BY <1>1
  <1>7. \A a, b \in acts' : a.at = b.at => a = b
    BY <1>1, <1>3, <1>4, <1>6 DEF StreamInv, ActsAreKnown
  <1> QED BY <1>1, <1>2, <1>3, <1>4, <1>5, <1>6, <1>7

\* What an activity is, once the act it is about is noted.
LEMMA ActivityIsNoted ==
    ASSUME StreamInv, NEW act \in Acted, acts' = acts \cup {act}, act.at = clock, NEW type,
           type = ActionOf(act),
           activities' = activities \cup {Activity(act.by, type, act.did, act.oid)}
    PROVE  ActivitiesAreActs'
  <1>1. Activity(act.by, type, act.did, act.oid) = ActivityOf(act)
    BY DEF Activity, ActivityOf
  <1>2. \A a : ActivityOf(a)' = ActivityOf(a)
    BY DEF ActivityOf, ActionOf
  <1> QED BY <1>1, <1>2 DEF StreamInv, ActivitiesAreActs

\* A comment adds its activity and an observation with an id of its own.
LEMMA CommentStep ==
    ASSUME StreamInv, NEW u \in People, NEW d \in Dids, Comment(u, d)
    PROVE  StreamInv'
  <1>1. /\ d \in Patterns \cup Nat /\ discovered[d] \in People \cup {Nobody} /\ clock \in Nat \ {0}
        /\ NoId \in Nat /\ "comment" \in ActOps
    BY DEF StreamInv, StreamRows, NoId, ActOps
  <1>2. PICK up \in BOOLEAN : Act(u, "comment", d, NoId, up, discovered[d])
    <2>1. TRUE \in BOOLEAN /\ Act(u, "comment", d, NoId, TRUE, discovered[d])
      BY DEF Comment
    <2> QED BY <2>1
  <1>3. PICK act \in Acted :
             /\ act.by = u /\ act.op = "comment" /\ act.did = d /\ act.oid = NoId /\ act.up = up
             /\ act.owner = discovered[d] /\ act.at = clock /\ clock' = clock + 1
             /\ acts' = acts \cup {act} /\ IsFiniteSet(acts') /\ acts' \subseteq Acted
             /\ \A a \in acts : a.at < clock
             /\ \A a, b \in acts' : a.at = b.at => a = b
    BY <1>1, <1>2, ActIsNoted
  <1>4. PICK row : /\ row = [oid |-> clock, uid |-> u, did |-> d]
                   /\ observations' = observations \cup {row}
                   /\ row.oid = clock /\ row.uid = u /\ row.did = d
    <2> DEFINE row == [oid |-> clock, uid |-> u, did |-> d]
    <2>1. observations' = observations \cup {row}
      BY DEF Comment
    <2>2. row.oid = clock /\ row.uid = u /\ row.did = d
      OBVIOUS
    <2> QED BY <2>1, <2>2
  <1>5. UNCHANGED <<discovered, votes>> /\ Dids' = Dids
    BY DEF Comment, Dids
  <1>6. StreamRows'
    BY <1>1, <1>3, <1>4, <1>5 DEF StreamInv, StreamRows
  <1>7. ActsAreKnown'
    <2>1. ASSUME NEW a \in acts, a.op = "observation"
          PROVE  Observation(a.oid)' = Observation(a.oid)
      <3>1. a.oid \in 1..clock - 1
        BY <2>1 DEF StreamInv, ActsAreKnown
      <3> QED BY <1>1, <1>4, <3>1 DEF Observation
    <2>2. ASSUME NEW a \in acts PROVE a.oid \in 1..clock - 1 => a.oid \in 1..clock' - 1
      BY <1>1, <1>3
    <2>3. \A a \in acts' : a.at \in 1..clock' - 1
      BY <1>1, <1>3 DEF StreamInv, ActsAreKnown
    <2> QED BY <1>3, <1>5, <2>1, <2>2, <2>3 DEF StreamInv, ActsAreKnown
  <1>8. ActivitiesAreActs'
    <2>1. activities' = activities \cup {Activity(act.by, "c", act.did, act.oid)}
      BY <1>3 DEF Comment
    <2>2. ActionOf(act) = "c"
      BY <1>3 DEF ActionOf
    <2> QED BY <1>3, <2>1, <2>2, ActivityIsNoted
  <1>9. VotesAreActs'
    <2>1. \A v : SameVotes(v)' = SameVotes(v)
      BY <1>3 DEF SameVotes
    <2>2. \A v : Stands(v)' = Stands(v)
      BY <2>1 DEF Stands
    <2>3. \A v, a : CastOn(v, a)' = CastOn(v, a)
      BY DEF CastOn
    <2>4. ASSUME NEW a \in acts' PROVE a.op = "comment" \/ a \in acts
      BY <1>3
    <2> QED BY <1>3, <1>5, <2>1, <2>2, <2>3, <2>4 DEF StreamInv, VotesAreActs
  <1> QED BY <1>6, <1>7, <1>8, <1>9 DEF StreamInv

\* A vote on an observation adds its activity and its row.
LEMMA VoteStep ==
    ASSUME StreamInv, NEW u \in People, NEW row \in observations, NEW up \in BOOLEAN,
           VoteOnObservation(u, row, up)
    PROVE  StreamInv'
  <1>1. /\ NoId \in Patterns \cup Nat /\ row.oid \in Nat /\ row.oid \in 1..clock - 1
        /\ row.uid \in People /\ clock \in Nat \ {0} /\ "observation" \in ActOps
        /\ NoId \in Nat /\ row.oid # NoId
    BY DEF StreamInv, StreamRows, NoId, ActOps
  <1>2. Act(u, "observation", NoId, row.oid, up, row.uid)
    BY DEF VoteOnObservation
  <1>3. PICK act \in Acted :
             /\ act.by = u /\ act.op = "observation" /\ act.did = NoId /\ act.oid = row.oid
             /\ act.up = up /\ act.owner = row.uid /\ act.at = clock /\ clock' = clock + 1
             /\ acts' = acts \cup {act} /\ IsFiniteSet(acts') /\ acts' \subseteq Acted
             /\ \A a \in acts : a.at < clock
             /\ \A a, b \in acts' : a.at = b.at => a = b
    BY <1>1, <1>2, ActIsNoted
  <1>4. PICK vote \in Voted :
             /\ votes' = votes \cup {vote} /\ vote.uid = u /\ vote.did = NoId
             /\ vote.oid = row.oid /\ vote.up = up /\ vote.at = clock
    <2> DEFINE vote == [uid |-> u, did |-> NoId, oid |-> row.oid, up |-> up, at |-> clock]
    <2>1. vote \in Voted /\ votes' = votes \cup {vote}
      BY <1>1 DEF Voted, VoteOnObservation
    <2>2. vote.uid = u /\ vote.did = NoId /\ vote.oid = row.oid /\ vote.up = up /\ vote.at = clock
      OBVIOUS
    <2> HIDE DEF vote
    <2> QED BY <2>1, <2>2
  <1>5. UNCHANGED <<discovered, observations>> /\ Dids' = Dids /\ \A o : Observation(o)' = Observation(o)
    BY DEF VoteOnObservation, Dids, Observation
  <1>6. StreamRows'
    BY <1>1, <1>3, <1>5 DEF StreamInv, StreamRows
  <1>7. ActsAreKnown'
    <2>1. \A other \in Observation(row.oid) : other = row
      BY DEF StreamInv, StreamRows, Observation
    <2>2. \A n \in 1..clock - 1 : n \in 1..clock' - 1
      BY <1>1, <1>3
    <2>3. \A a \in acts' : a.at \in 1..clock' - 1
      BY <1>1, <1>3 DEF StreamInv, ActsAreKnown
    <2>4. ASSUME NEW a \in acts
          PROVE /\ a.op = "comment" =>
                     a.oid = NoId /\ a.did \in Dids' /\ a.owner = discovered'[a.did]
                /\ a.op = "pattern" =>
                     /\ a.oid = NoId
                     /\ \/ a.did = NoId /\ a.owner = Nobody
                        \/ a.did \in Dids' \cap Patterns /\ a.owner = discovered'[a.did]
                /\ a.op = "observation" =>
                     /\ a.did = NoId /\ a.oid \in 1..clock' - 1 /\ a.owner \in People
                     /\ \A other \in Observation(a.oid)' : other.uid = a.owner
      BY <1>5, <2>2 DEF StreamInv, ActsAreKnown
    <2>5. /\ act.did = NoId /\ act.oid \in 1..clock' - 1 /\ act.owner \in People
          /\ \A other \in Observation(act.oid)' : other.uid = act.owner
      BY <1>1, <1>3, <1>5, <2>1, <2>2
    <2> QED BY <1>3, <2>3, <2>4, <2>5 DEF ActsAreKnown
  <1>8. ActivitiesAreActs'
    <2>1. activities' = activities
                          \cup {Activity(act.by, IF up THEN "co" ELSE "do", act.did, act.oid)}
      BY <1>3 DEF VoteOnObservation
    <2>2. ActionOf(act) = IF up THEN "co" ELSE "do"
      BY <1>3 DEF ActionOf
    <2> QED BY <1>3, <2>1, <2>2, ActivityIsNoted
  <1>9. VotesAreActs'
    <2>1. \A v : SameVotes(v)' = SameVotes(v)
      BY <1>3 DEF SameVotes
    <2>2. \A v : Stands(v)' = Stands(v)
      BY <2>1 DEF Stands
    <2>3. \A v, a : CastOn(v, a)' = CastOn(v, a)
      BY DEF CastOn
    <2>4. CastOn(vote, act)
      BY <1>3, <1>4 DEF CastOn
    <2>5. vote.did = NoId /\ vote.oid # NoId
      BY <1>1, <1>4
    <2> QED BY <1>3, <1>4, <1>5, <2>1, <2>2, <2>3, <2>4, <2>5 DEF StreamInv, VotesAreActs
  <1> QED BY <1>6, <1>7, <1>8, <1>9 DEF StreamInv

\* A vote on a discovered chart adds the row of the voter, or turns it.
LEMMA VoteOnChartStep ==
    ASSUME StreamInv, NEW u \in People, NEW d \in Patterns, NEW up \in BOOLEAN,
           VoteOnPattern(u, d, up), d \in Dids
    PROVE  StreamInv'
  <1> DEFINE mine == {v \in votes : v.did = d /\ v.uid = u}
             type == IF up THEN "cc" ELSE "dc"
  <1>1. /\ d \in Patterns \cup Nat /\ NoId \in Nat /\ "pattern" \in ActOps
        /\ discovered[d] \in People \cup {Nobody} /\ clock \in Nat \ {0} /\ d # NoId
    BY ChartsAreNoNumbers DEF StreamInv, StreamRows, NoId, ActOps
  <1>2. /\ Act(u, "pattern", d, NoId, up, discovered[d])
        /\ activities' = activities \cup {Activity(u, type, d, NoId)}
        /\ UNCHANGED <<discovered, observations>> /\ Dids' = Dids
        /\ votes' = IF mine = {}
                    THEN votes \cup {[uid |-> u, did |-> d, oid |-> NoId, up |-> up, at |-> clock]}
                    ELSE {IF v \in mine THEN [v EXCEPT !.up = up] ELSE v : v \in votes}
    BY DEF VoteOnPattern, Dids
  <1>3. PICK act \in Acted :
             /\ act.by = u /\ act.op = "pattern" /\ act.did = d /\ act.oid = NoId
             /\ act.up = up /\ act.owner = discovered[d] /\ act.at = clock /\ clock' = clock + 1
             /\ acts' = acts \cup {act} /\ IsFiniteSet(acts') /\ acts' \subseteq Acted
             /\ \A a \in acts : a.at < clock
             /\ \A a, b \in acts' : a.at = b.at => a = b
    BY <1>1, <1>2, ActIsNoted
  <1>4. \A v, a : CastOn(v, a)' = CastOn(v, a)
    BY DEF CastOn
  <1>5. \A o : Observation(o)' = Observation(o)
    BY <1>2 DEF Observation
  <1>6. StreamRows'
    BY <1>1, <1>2, <1>3 DEF StreamInv, StreamRows
  <1>7. ActsAreKnown'
    <2>1. \A n \in 1..clock - 1 : n \in 1..clock' - 1
      BY <1>1, <1>3
    <2>2. \A a \in acts' : a.at \in 1..clock' - 1
      BY <1>1, <1>3 DEF StreamInv, ActsAreKnown
    <2> QED BY <1>1, <1>2, <1>3, <1>5, <2>1, <2>2 DEF StreamInv, ActsAreKnown
  <1>8. ActivitiesAreActs'
    <2>1. activities' = activities \cup {Activity(act.by, type, act.did, act.oid)}
      BY <1>2, <1>3
    <2>2. ActionOf(act) = type
      BY <1>3 DEF ActionOf
    <2> QED BY <1>3, <2>1, <2>2, ActivityIsNoted
  <1>9. ASSUME NEW v \in Voted, ~(v.uid = u /\ v.did = d)
        PROVE  SameVotes(v)' = SameVotes(v) /\ Stands(v)' = Stands(v)
    <2>1. SameVotes(v)' = SameVotes(v)
      BY <1>3, <1>9 DEF SameVotes
    <2> QED BY <2>1 DEF Stands
  <1>10. ASSUME NEW v, v.uid = u, v.did = d
         PROVE  SameVotes(v)' = SameVotes(v) \cup {act}
    BY <1>3, <1>10 DEF SameVotes
  <1>11. VotesAreActs'
    <2>0. /\ votes \subseteq Voted
          /\ \A v \in votes :
               \/ v.did \in Dids \ Patterns /\ v.oid = NoId
               \/ v.did \in Patterns /\ v.oid = NoId /\ Stands(v)
               \/ v.did = NoId /\ v.oid # NoId /\ \E a \in acts : CastOn(v, a)
          /\ \A a \in acts : a.op = "pattern" /\ a.did # NoId => \E v \in votes : a \in SameVotes(v)
          /\ \A a \in acts : a.op = "observation" =>
               a.oid # NoId /\ \E v \in votes : CastOn(v, a)
      BY <1>1 DEF StreamInv, VotesAreActs, ActsAreKnown, NoId
    <2>1. CASE mine = {}
      <3>0. PICK vote : vote = [uid |-> u, did |-> d, oid |-> NoId, up |-> up, at |-> clock]
        OBVIOUS
      <3>1. vote \in Voted /\ votes' = votes \cup {vote}
        BY <1>1, <1>2, <2>1, <3>0 DEF Voted
      <3>2. vote.uid = u /\ vote.did = d /\ vote.oid = NoId /\ vote.up = up /\ vote.at = clock
        BY <3>0
      <3>3. SameVotes(vote) = {}
        BY <1>1, <2>0, <2>1, <3>2 DEF SameVotes
      <3>4. SameVotes(vote)' = {act}
        BY <1>10, <3>2, <3>3
      <3>5. Stands(vote)'
        BY <1>1, <1>3, <3>2, <3>4 DEF Stands
      <3>6. \A v \in votes : ~(v.uid = u /\ v.did = d)
        BY <2>1
      <3>7. ASSUME NEW v \in votes'
            PROVE  \/ v.did \in Dids' \ Patterns /\ v.oid = NoId
                   \/ v.did \in Patterns /\ v.oid = NoId /\ Stands(v)'
                   \/ v.did = NoId /\ v.oid # NoId /\ \E a \in acts' : CastOn(v, a)'
        BY <1>2, <1>3, <1>4, <1>9, <2>0, <3>1, <3>2, <3>5, <3>6
      <3>8. \A a \in acts' : a.op = "pattern" /\ a.did # NoId =>
               \E v \in votes' : a \in SameVotes(v)'
        BY <1>3, <1>9, <2>0, <3>1, <3>4, <3>6
      <3>9. \A a \in acts' : a.op = "observation" => \E v \in votes' : CastOn(v, a)'
        BY <1>3, <1>4, <2>0, <3>1
      <3>10. votes' \subseteq Voted
        BY <2>0, <3>1
      <3> QED BY <3>7, <3>8, <3>9, <3>10 DEF VotesAreActs
    <2>2. CASE mine # {}
      <3> DEFINE turned(v) == [v EXCEPT !.up = up]
      <3>1. votes' = {IF v \in mine THEN turned(v) ELSE v : v \in votes}
        BY <1>2, <2>2
      <3>2. ASSUME NEW v \in votes
            PROVE  /\ turned(v) \in Voted /\ turned(v).uid = v.uid /\ turned(v).did = v.did
                   /\ turned(v).oid = v.oid /\ turned(v).at = v.at /\ turned(v).up = up
        BY <2>0 DEF Voted
      <3> HIDE DEF turned
      <3>3. ASSUME NEW v \in mine
            PROVE  turned(v).oid = NoId /\ Stands(turned(v))' /\ act \in SameVotes(turned(v))'
        <4>1. v \in votes /\ v.did = d /\ v.uid = u
          OBVIOUS
        <4>2. v.oid = NoId /\ Stands(v)
          BY <1>1, <2>0, <4>1
        <4>3. PICK f, l \in SameVotes(v) :
                 /\ f.at = v.at /\ l.up = v.up
                 /\ \A c \in SameVotes(v) : f.at <= c.at /\ c.at <= l.at
          BY <4>2 DEF Stands
        <4>4. SameVotes(turned(v))' = SameVotes(v) \cup {act}
          <5>1. SameVotes(turned(v)) = SameVotes(v)
            BY <3>2, <4>1 DEF SameVotes
          <5> QED BY <1>10, <3>2, <4>1, <5>1
        <4>5. f \in acts /\ f.at \in Nat /\ SameVotes(v) \subseteq acts
          BY <4>3 DEF SameVotes, StreamInv, ActsAreKnown
        <4>6. \A c \in SameVotes(v) : c.at \in Nat /\ c.at < clock
          BY <1>3, <4>5 DEF StreamInv, ActsAreKnown
        <4>7. \A c \in SameVotes(turned(v))' : f.at <= c.at /\ c.at <= act.at
          BY <1>1, <1>3, <4>3, <4>4, <4>5, <4>6
        <4>8. f.at = turned(v).at /\ act.up = turned(v).up
          BY <1>3, <3>2, <4>1, <4>3
        <4>9. Stands(turned(v))'
          BY <4>3, <4>4, <4>7, <4>8 DEF Stands
        <4> QED BY <3>2, <4>1, <4>2, <4>4, <4>9
      <3>4. ASSUME NEW v \in votes \ mine
            PROVE  /\ v \in Voted /\ v \in votes' /\ SameVotes(v)' = SameVotes(v)
                   /\ Stands(v)' = Stands(v)
        BY <1>9, <2>0, <3>1
      <3>5. ASSUME NEW w \in votes'
            PROVE  /\ w \in Voted
                   /\ \/ w.did \in Dids' \ Patterns /\ w.oid = NoId
                      \/ w.did \in Patterns /\ w.oid = NoId /\ Stands(w)'
                      \/ w.did = NoId /\ w.oid # NoId /\ \E a \in acts' : CastOn(w, a)'
        <4>1. PICK v \in votes : w = IF v \in mine THEN turned(v) ELSE v
          BY <3>1
        <4>2. CASE v \in mine
          <5>1. w = turned(v) /\ v.did = d
            BY <4>1, <4>2
          <5> QED BY <3>2, <3>3, <4>2, <5>1
        <4>3. CASE v \notin mine
          <5>1. w = v
            BY <4>1, <4>3
          <5> QED BY <1>2, <1>3, <1>4, <2>0, <3>4, <4>3, <5>1
        <4> QED BY <4>2, <4>3
      <3>6. ASSUME NEW a \in acts', a.op = "pattern", a.did # NoId
            PROVE  \E v \in votes' : a \in SameVotes(v)'
        <4>1. CASE a = act
          <5>1. PICK v \in mine : TRUE
            BY <2>2
          <5>2. turned(v) \in votes'
            BY <3>1, <5>1
          <5> QED BY <3>3, <4>1, <5>1, <5>2
        <4>2. CASE a # act
          <5>1. PICK v \in votes : a \in SameVotes(v)
            BY <1>3, <2>0, <3>6, <4>2
          <5>2. CASE v \in mine
            <6>1. turned(v) \in votes' /\ turned(v).uid = v.uid /\ turned(v).did = v.did
              BY <3>1, <3>2, <5>2
            <6>2. a \in SameVotes(turned(v))'
              BY <1>3, <5>1, <6>1 DEF SameVotes
            <6> QED BY <6>1, <6>2
          <5>3. CASE v \notin mine
            BY <3>4, <5>1, <5>3
          <5> QED BY <5>2, <5>3
        <4> QED BY <4>1, <4>2
      <3>7. ASSUME NEW a \in acts', a.op = "observation"
            PROVE  \E v \in votes' : CastOn(v, a)'
        <4>1. a \in acts
          BY <1>3, <3>7
        <4>2. PICK v \in votes : CastOn(v, a) /\ a.oid # NoId
          BY <2>0, <3>7, <4>1
        <4>3. v \notin mine
          <5>1. v.oid # NoId
            BY <4>2 DEF CastOn
          <5> QED BY <1>1, <2>0, <5>1
        <4> QED BY <1>4, <3>4, <4>2, <4>3
      <3> QED BY <3>5, <3>6, <3>7 DEF VotesAreActs
    <2> QED BY <2>1, <2>2
  <1> QED BY <1>6, <1>7, <1>8, <1>11 DEF StreamInv

\* A vote on a chart that nobody has discovered adds a row of no chart.
LEMMA VoteOnNothingStep ==
    ASSUME StreamInv, NEW u \in People, NEW d \in Patterns, NEW up \in BOOLEAN,
           VoteOnPattern(u, d, up), d \notin Dids
    PROVE  StreamInv'
  <1> DEFINE type == IF up THEN "cc" ELSE "dc"
             mine == {v \in votes : v.did = clock /\ v.uid = u}
  <1>1. /\ NoId \in Patterns \cup Nat /\ NoId \in Nat /\ "pattern" \in ActOps
        /\ Nobody \in People \cup {Nobody} /\ clock \in Nat \ {0} /\ clock # NoId
        /\ clock \notin Dids /\ clock \notin Patterns
    BY ChartsAreNoNumbers DEF StreamInv, StreamRows, NoId, ActOps
  <1>2. /\ Act(u, "pattern", NoId, NoId, up, Nobody)
        /\ activities' = activities \cup {Activity(u, type, NoId, NoId)}
        /\ discovered' = Add(clock, Nobody) /\ UNCHANGED observations
        /\ votes' = IF mine = {}
                    THEN votes \cup {[uid |-> u, did |-> clock, oid |-> NoId, up |-> up, at |-> clock]}
                    ELSE {IF v \in mine THEN [v EXCEPT !.up = up] ELSE v : v \in votes}
    BY DEF VoteOnPattern
  <1>3. /\ Dids' = Dids \cup {clock} /\ discovered'[clock] = Nobody
        /\ \A e \in Dids : discovered'[e] = discovered[e]
    BY <1>1, <1>2, RowIsAdded
  <1>4. PICK act \in Acted :
             /\ act.by = u /\ act.op = "pattern" /\ act.did = NoId /\ act.oid = NoId
             /\ act.up = up /\ act.owner = Nobody /\ act.at = clock /\ clock' = clock + 1
             /\ acts' = acts \cup {act} /\ IsFiniteSet(acts') /\ acts' \subseteq Acted
             /\ \A a \in acts : a.at < clock
             /\ \A a, b \in acts' : a.at = b.at => a = b
    BY <1>1, <1>2, ActIsNoted
  <1>5. /\ votes \subseteq Voted
        /\ \A v \in votes :
             \/ v.did \in Dids \ Patterns /\ v.oid = NoId
             \/ v.did \in Patterns /\ v.oid = NoId /\ Stands(v)
             \/ v.did = NoId /\ v.oid # NoId /\ \E a \in acts : CastOn(v, a)
        /\ \A a \in acts : a.op = "pattern" /\ a.did # NoId => \E v \in votes : a \in SameVotes(v)
        /\ \A a \in acts : a.op = "observation" => \E v \in votes : CastOn(v, a)
    BY DEF StreamInv, VotesAreActs
  <1>6. mine = {}
    BY <1>1, <1>5
  <1>7. PICK vote \in Voted :
             /\ votes' = votes \cup {vote} /\ vote.did = clock /\ vote.oid = NoId
    <2> DEFINE vote == [uid |-> u, did |-> clock, oid |-> NoId, up |-> up, at |-> clock]
    <2>1. vote \in Voted /\ votes' = votes \cup {vote}
      BY <1>1, <1>2, <1>6 DEF Voted
    <2>2. vote.did = clock /\ vote.oid = NoId
      OBVIOUS
    <2> HIDE DEF vote
    <2> QED BY <2>1, <2>2
  <1>8. StreamRows'
    <2>1. \A n \in 1..clock - 1 : n \in 1..clock' - 1
      BY <1>1, <1>4
    <2>2. clock \in 1..clock' - 1 /\ clock' \in Nat \ {0}
      BY <1>1, <1>4
    <2> QED BY <1>2, <1>3, <2>1, <2>2 DEF StreamInv, StreamRows
  <1>9. ActsAreKnown'
    <2>1. \A n \in 1..clock - 1 : n \in 1..clock' - 1
      BY <1>1, <1>4
    <2>2. \A a \in acts' : a.at \in 1..clock' - 1
      BY <1>1, <1>4 DEF StreamInv, ActsAreKnown
    <2>3. \A o : Observation(o)' = Observation(o)
      BY <1>2 DEF Observation
    <2> QED BY <1>1, <1>3, <1>4, <2>1, <2>2, <2>3 DEF StreamInv, ActsAreKnown
  <1>10. ActivitiesAreActs'
    <2>1. activities' = activities \cup {Activity(act.by, type, act.did, act.oid)}
      BY <1>2, <1>4
    <2>2. ActionOf(act) = type
      BY <1>4 DEF ActionOf
    <2> QED BY <1>4, <2>1, <2>2, ActivityIsNoted
  <1>11. VotesAreActs'
    <2>1. ASSUME NEW v, v.did # NoId PROVE SameVotes(v)' = SameVotes(v) /\ Stands(v)' = Stands(v)
      <3>1. SameVotes(v)' = SameVotes(v)
        BY <1>4, <2>1 DEF SameVotes
      <3> QED BY <3>1 DEF Stands
    <2>2. \A v, a : CastOn(v, a)' = CastOn(v, a)
      BY DEF CastOn
    <2>3. ASSUME NEW v \in votes'
          PROVE  \/ v.did \in Dids' \ Patterns /\ v.oid = NoId
                 \/ v.did \in Patterns /\ v.oid = NoId /\ Stands(v)'
                 \/ v.did = NoId /\ v.oid # NoId /\ \E a \in acts' : CastOn(v, a)'
      BY <1>1, <1>3, <1>4, <1>5, <1>7, <2>1, <2>2, ChartsAreNoNumbers
    <2>4. \A a \in acts' : a.op = "pattern" /\ a.did # NoId =>
             \E v \in votes' : a \in SameVotes(v)'
      <3>1. ASSUME NEW a \in acts', a.op = "pattern", a.did # NoId
            PROVE  \E v \in votes' : a \in SameVotes(v)'
        <4>1. PICK v \in votes : a \in SameVotes(v)
          BY <1>4, <1>5, <3>1
        <4>2. v.did # NoId
          BY <3>1, <4>1 DEF SameVotes
        <4> QED BY <1>7, <2>1, <4>1, <4>2
      <3> QED BY <3>1
    <2>5. \A a \in acts' : a.op = "observation" => \E v \in votes' : CastOn(v, a)'
      BY <1>4, <1>5, <1>7, <2>2
    <2> QED BY <1>5, <1>7, <2>3, <2>4, <2>5 DEF VotesAreActs
  <1> QED BY <1>8, <1>9, <1>10, <1>11 DEF StreamInv

\* Every step keeps the invariant.
LEMMA StreamStep == StreamInv /\ [StreamNext]_streamVars => StreamInv'
  <1> SUFFICES ASSUME StreamInv, [StreamNext]_streamVars PROVE StreamInv'
    OBVIOUS
  <1>u. CASE UNCHANGED streamVars
    BY <1>u DEF streamVars, StreamInv, StreamRows, ActsAreKnown, ActivitiesAreActs, VotesAreActs,
                Dids, Observation, SameVotes, Stands, CastOn, ActivityOf, ActionOf
  <1>1. ASSUME NEW u \in People, NEW d \in Patterns, DiscoverPattern(u, d) PROVE StreamInv'
    BY <1>1, DiscoverStep
  <1>2. ASSUME NEW u \in People, NEW d \in Dids, Comment(u, d) PROVE StreamInv'
    BY <1>2, CommentStep
  <1>3. ASSUME NEW u \in People, NEW d \in Patterns, NEW up \in BOOLEAN, VoteOnPattern(u, d, up)
        PROVE  StreamInv'
    BY <1>3, VoteOnChartStep, VoteOnNothingStep
  <1>4. ASSUME NEW u \in People, NEW row \in observations, NEW up \in BOOLEAN,
               VoteOnObservation(u, row, up)
        PROVE  StreamInv'
    BY <1>4, VoteStep
  <1>5. ASSUME NEW row \in observations, DeleteObservation(row) PROVE StreamInv'
    BY <1>5, DeleteStep
  <1> QED BY <1>u, <1>1, <1>2, <1>3, <1>4, <1>5 DEF StreamNext

-----------------------------------------------------------------------------
(***************************************************************************)
(* ActivityStream: the streams.                                            *)
(***************************************************************************)

\* There are k newest entries, however many k is.
LEMMA NewestExist ==
    ASSUME NEW S, IsFiniteSet(S), \A e \in S : e.at \in Nat, NEW n \in 0..Cardinality(S)
    PROVE  \E T \in kSubset(n, S) : \A e \in T, f \in S \ T : e.at >= f.at
  <1> DEFINE Found(k) == \E T \in kSubset(k, S) : \A e \in T, f \in S \ T : e.at >= f.at
             Bad == {k \in 0..Cardinality(S) : ~Found(k)}
  <1>0. Cardinality(S) \in Nat
    BY FS_CardinalityType
  <1>1. Found(0)
    <2>1. {} \in kSubset(0, S)
      BY FS_EmptySet DEF kSubset
    <2> QED BY <2>1
  <1>2. ASSUME NEW k \in 0..Cardinality(S), k < Cardinality(S), Found(k) PROVE Found(k + 1)
    <2>1. PICK T \in kSubset(k, S) : \A e \in T, f \in S \ T : e.at >= f.at
      BY <1>2
    <2>2. T \in SUBSET S /\ Cardinality(T) = k /\ IsFiniteSet(T)
      BY <2>1, FS_Subset DEF kSubset
    <2>3. S \ T # {} /\ IsFiniteSet(S \ T)
      <3>1. S \ T = {} => S = T
        BY <2>2
      <3>2. S # T
        BY <1>0, <1>2, <2>2
      <3>3. IsFiniteSet(S \ T)
        BY FS_Difference
      <3> QED BY <3>1, <3>2, <3>3
    <2> DEFINE when == [e \in S |-> e.at]
               times == {when[e] : e \in S \ T}
    <2>4. IsFiniteSet(times) /\ times # {} /\ times \subseteq Nat
      <3>1. IsFiniteSet(times)
        <4> HIDE DEF when
        <4> QED BY <2>3, ImageIsFinite
      <3> QED BY <2>3, <3>1
    <2>5. PICK t \in times : \A m \in times : m <= t
      <3> HIDE DEF times
      <3> QED BY <2>4, GreatestNumber
    <2>6. PICK x \in S \ T : x.at = t
      BY <2>5
    <2>7. \A f \in S \ T : x.at >= f.at
      BY <2>5, <2>6
    <2>8. T \cup {x} \in kSubset(k + 1, S)
      <3>1. Cardinality(T \cup {x}) = k + 1
        BY <2>2, <2>6, FS_AddElement
      <3> QED BY <2>2, <2>6, <3>1 DEF kSubset
    <2>9. \A e \in T \cup {x}, f \in S \ (T \cup {x}) : e.at >= f.at
      BY <2>1, <2>6, <2>7
    <2> QED BY <2>8, <2>9
  <1> HIDE DEF Found
  <1>3. Bad = {}
    <2> SUFFICES ASSUME Bad # {} PROVE FALSE
      OBVIOUS
    <2>1. Bad \subseteq Nat
      BY <1>0
    <2>2. PICK k \in Bad : \A m \in Bad : k <= m
      <3> HIDE DEF Bad
      <3> QED BY <2>1, LeastNumber
    <2>3. k \in 1..Cardinality(S) /\ k - 1 \in 0..Cardinality(S) /\ k - 1 < Cardinality(S)
      BY <1>0, <1>1, <2>2
    <2>4. Found(k - 1)
      BY <2>2, <2>3
    <2>5. Found(k - 1 + 1) /\ k - 1 + 1 = k
      BY <1>2, <2>3, <2>4
    <2> QED BY <2>2, <2>5
  <1>4. Found(n)
    BY <1>3
  <1> QED BY <1>4 DEF Found

\* What was done to somebody, of a comment or of a vote on an observation.
LEMMA OnceIsNotTurned ==
    ASSUME StreamInv, NEW a \in acts, a.op # "pattern"
    PROVE  Entry("got", ActionOf(Turned(a)), a.by, Turned(a).at)
             = Entry("got", ActionOf(a), a.by, a.at)
  <1> DEFINE same == {b \in acts : /\ b.op = "pattern" /\ a.op = "pattern"
                                   /\ b.by = a.by /\ b.did = a.did} \cup {a}
  <1>1. same = {a}
    OBVIOUS
  <1>2. a \in Acted /\ a.at \in Nat
    BY DEF StreamInv, ActsAreKnown, Acted
  <1>3. (CHOOSE b \in same : \A c \in same : c.at <= b.at) = a
    BY <1>1, <1>2
  <1>4. Min({b.at : b \in same}) = a.at
    <2>1. {b.at : b \in same} = {a.at} /\ {a.at} \subseteq Int
      BY <1>1, <1>2
    <2>2. Min({a.at}) = a.at
      BY <1>2, <2>1, LeastIs
    <2> QED BY <2>1, <2>2
  <1>5. Turned(a) = [a EXCEPT !.at = a.at]
    BY <1>3, <1>4 DEF Turned
  <1>6. /\ Turned(a).at = a.at /\ Turned(a).op = a.op /\ Turned(a).up = a.up
    BY <1>2, <1>5 DEF Acted
  <1>7. ActionOf(Turned(a)) = ActionOf(a)
    BY <1>6 DEF ActionOf
  <1> QED BY <1>6, <1>7

\* Of a vote on a chart: the row that stands for it and for those that turned it.
LEMMA VoteIsTurned ==
    ASSUME StreamInv, NEW v \in votes, Stands(v), NEW a \in SameVotes(v)
    PROVE  Entry("got", ActionOf(Turned(a)), a.by, Turned(a).at)
             = Entry("got", IF v.up THEN "cc" ELSE "dc", v.uid, v.at)
  <1> DEFINE same == {b \in acts : /\ b.op = "pattern" /\ a.op = "pattern"
                                   /\ b.by = a.by /\ b.did = a.did} \cup {a}
  <1>1. same = SameVotes(v) /\ a.by = v.uid /\ a.op = "pattern"
    BY DEF SameVotes
  <1>2. PICK f, l \in SameVotes(v) :
          /\ f.at = v.at /\ l.up = v.up
          /\ \A c \in SameVotes(v) : f.at <= c.at /\ c.at <= l.at
    BY DEF Stands
  <1>3. \A c \in SameVotes(v) : c \in acts /\ c.op = "pattern" /\ c \in Acted /\ c.at \in Nat
    BY DEF SameVotes, StreamInv, ActsAreKnown, Acted
  <1>4. (CHOOSE b \in same : \A c \in same : c.at <= b.at) = l
    <2>1. \A b \in same : (\A c \in same : c.at <= b.at) => b = l
      <3>1. ASSUME NEW b \in same, \A c \in same : c.at <= b.at PROVE b = l
        <4>1. l.at <= b.at /\ b.at <= l.at /\ l.at \in Nat /\ b.at \in Nat
          BY <1>1, <1>2, <1>3, <3>1
        <4>2. l.at = b.at
          BY <4>1
        <4> QED BY <1>1, <1>2, <1>3, <4>2 DEF StreamInv, ActsAreKnown
      <3> QED BY <3>1
    <2>2. l \in same /\ \A c \in same : c.at <= l.at
      BY <1>1, <1>2
    <2> QED BY <2>1, <2>2
  <1>5. Min({b.at : b \in same}) = f.at
    <2>1. {b.at : b \in same} \subseteq Int /\ f.at \in {b.at : b \in same}
          /\ \A m \in {b.at : b \in same} : f.at <= m
      BY <1>1, <1>2, <1>3
    <2> QED BY <2>1, LeastIs
  <1>6. Turned(a) = [l EXCEPT !.at = f.at]
    BY <1>4, <1>5 DEF Turned
  <1>7. l \in Acted /\ l.op = "pattern"
    BY <1>2, <1>3
  <1>8. Turned(a).at = v.at /\ Turned(a).op = "pattern" /\ Turned(a).up = v.up
    BY <1>2, <1>6, <1>7 DEF Acted
  <1>9. ActionOf(Turned(a)) = IF v.up THEN "cc" ELSE "dc"
    BY <1>8 DEF ActionOf
  <1> QED BY <1>1, <1>8, <1>9

Got(a) == Entry("got", ActionOf(Turned(a)), a.by, Turned(a).at)

\* The row of an observation is the only one of its id.
LEMMA RowOfObservation ==
    ASSUME StreamInv, NEW o, NEW row \in Observation(o)
    PROVE  Observation(o) = {row} /\ (CHOOSE other \in Observation(o) : TRUE) = row
           /\ o = row.oid /\ o # NoId /\ row \in observations
  <1>1. row \in observations /\ row.oid = o /\ o \in 1..clock - 1
    BY DEF Observation, StreamInv, StreamRows
  <1>2. Observation(o) = {row}
    BY <1>1 DEF Observation, StreamInv, StreamRows
  <1>3. o # NoId
    BY <1>1 DEF NoId
  <1> QED BY <1>1, <1>2, <1>3

\* A vote on a row with a discoverer is a vote on a chart, cast by an act on it.
LEMMA VoteOnOwn ==
    ASSUME StreamInv, NEW u \in People, NEW v \in votes, v.did \in Dids, discovered[v.did] = u
    PROVE  Stands(v) /\ SameVotes(v) # {} /\ \A a \in SameVotes(v) : a.owner = u
  <1>1. v.did \in Patterns /\ v.did # NoId
    BY ChartsAreNoNumbers, StreamsAreBounded DEF StreamInv, StreamRows, NoId
  <1>2. Stands(v)
    BY <1>1 DEF StreamInv, VotesAreActs
  <1>3. SameVotes(v) # {}
    BY <1>2 DEF Stands
  <1>4. \A a \in SameVotes(v) : a.owner = u
    BY <1>1 DEF SameVotes, StreamInv, ActsAreKnown
  <1> QED BY <1>2, <1>3, <1>4

\* What happened to u was done to them.
LEMMA HappenedIsDeserved ==
    ASSUME StreamInv, NEW u \in People
    PROVE  Happened(u) \subseteq {Got(a) : a \in {b \in acts : b.owner = u}}
  <1>1. ASSUME NEW v \in votes, v.did \in Dids, discovered[v.did] = u
        PROVE  \E a \in acts : /\ a.owner = u
                               /\ Got(a) = Entry("got", IF v.up THEN "cc" ELSE "dc", v.uid, v.at)
    <2>1. Stands(v) /\ SameVotes(v) # {} /\ \A a \in SameVotes(v) : a.owner = u
      BY <1>1, VoteOnOwn
    <2>2. PICK a \in SameVotes(v) : a.owner = u
      BY <2>1
    <2>3. Got(a) = Entry("got", IF v.up THEN "cc" ELSE "dc", v.uid, v.at)
      BY <2>1, VoteIsTurned DEF Got
    <2> QED BY <2>2, <2>3 DEF SameVotes
  <1>2. ASSUME NEW v \in votes, NEW row \in Observation(v.oid), row.uid = u
        PROVE  \E a \in acts : /\ a.owner = u
                               /\ Got(a) = Entry("got", IF v.up THEN "co" ELSE "do", v.uid, v.at)
    <2>1. v.oid # NoId
      BY RowOfObservation
    <2>2. PICK a \in acts : CastOn(v, a)
      BY <2>1 DEF StreamInv, VotesAreActs
    <2>3. a.owner = u
      BY <1>2, <2>2 DEF CastOn, StreamInv, ActsAreKnown
    <2>4. Got(a) = Entry("got", ActionOf(a), a.by, a.at)
      BY <2>2, OnceIsNotTurned DEF CastOn, Got
    <2>5. ActionOf(a) = IF v.up THEN "co" ELSE "do"
      BY <2>2 DEF CastOn, ActionOf
    <2> QED BY <2>2, <2>3, <2>4, <2>5 DEF CastOn
  <1>3. ASSUME NEW c \in activities, c.type = "c", discovered[c.did] = u
        PROVE  \E a \in acts : a.owner = u /\ Got(a) = Entry("got", "c", c.uid, c.at)
    <2>1. PICK a \in acts : c = ActivityOf(a)
      BY DEF StreamInv, ActivitiesAreActs
    <2>2. a.op = "comment" /\ c.uid = a.by /\ c.at = a.at /\ c.did = a.did /\ ActionOf(a) = "c"
      BY <1>3, <2>1 DEF ActivityOf, ActionOf
    <2>3. a.owner = u
      BY <1>3, <2>2 DEF StreamInv, ActsAreKnown
    <2>4. Got(a) = Entry("got", ActionOf(a), a.by, a.at)
      BY <2>2, OnceIsNotTurned DEF Got
    <2> QED BY <2>2, <2>3, <2>4
  <1> QED BY <1>1, <1>2, <1>3 DEF Happened

\* What u is shown to have done was done.
LEMMA InstigatedIsDeserved ==
    ASSUME StreamInv, NEW u
    PROVE  Instigated(u) \subseteq {Entry("did", ActionOf(a), u, a.at) : a \in {b \in acts : b.by = u}}
  <1>1. ASSUME NEW c \in Read(u)
        PROVE  \E a \in acts : a.by = u /\ c.type = ActionOf(a) /\ c.at = a.at
    <2>1. c \in activities /\ c.uid = u
      BY DEF Read
    <2>2. PICK a \in acts : c = ActivityOf(a)
      BY <2>1 DEF StreamInv, ActivitiesAreActs
    <2>3. c.uid = a.by /\ c.type = ActionOf(a) /\ c.at = a.at
      BY <2>2 DEF ActivityOf
    <2> QED BY <2>1, <2>3
  <1> QED BY <1>1 DEF Instigated

\* An own act that is not shown comes before one on something that is not there.
LEMMA NotInstigated ==
    ASSUME StreamInv, NEW u, NEW a \in acts, a.by = u,
           Entry("did", ActionOf(a), u, a.at) \notin Instigated(u)
    PROVE  \E b \in acts : b.by = u /\ Gone(b) /\ b.at >= a.at
  <1>1. ActivityOf(a) \in activities
    BY DEF StreamInv, ActivitiesAreActs
  <1>2. PICK c : c = ActivityOf(a)
    OBVIOUS
  <1>3. c \in activities /\ c.uid = u /\ c.type = ActionOf(a) /\ c.at = a.at
    BY <1>1, <1>2 DEF ActivityOf
  <1>4. c \notin Read(u)
    BY <1>3 DEF Instigated
  <1>5. PICK e \in activities : e.uid = u /\ e.at >= c.at /\ About(e) \notin Dids
    BY <1>3, <1>4 DEF Read
  <1>6. PICK b \in acts : e = ActivityOf(b)
    BY <1>5 DEF StreamInv, ActivitiesAreActs
  <1>7. b.by = u /\ b.at >= a.at /\ e.did = b.did /\ e.oid = b.oid
    BY <1>3, <1>5, <1>6 DEF ActivityOf
  <1>8. Gone(b)
    <2>1. b.op \in ActOps
      BY DEF StreamInv, ActsAreKnown, Acted
    <2>2. CASE b.op \in {"comment", "pattern"}
      <3>1. b.oid = NoId
        BY <2>2 DEF StreamInv, ActsAreKnown
      <3>2. b.did \notin Dids
        BY <1>5, <1>7, <3>1 DEF About
      <3> QED BY <2>2, <3>2 DEF Gone, StreamInv, ActsAreKnown
    <2>3. CASE b.op = "observation"
      <3>1. b.oid # NoId
        BY <2>3 DEF StreamInv, ActsAreKnown, NoId
      <3>2. ASSUME NEW row \in Observation(b.oid) PROVE FALSE
        <4>1. (CHOOSE other \in Observation(b.oid) : TRUE) = row /\ row \in observations
          BY RowOfObservation
        <4>2. About(e) = row.did
          BY <1>7, <3>1, <4>1 DEF About
        <4> QED BY <1>5, <4>1, <4>2 DEF StreamInv, StreamRows
      <3> QED BY <2>3, <3>2 DEF Gone
    <2> QED BY <2>1, <2>2, <2>3 DEF ActOps
  <1> QED BY <1>7, <1>8

\* An act of somebody else that is not shown was a vote on an observation that
\* is not there.
LEMMA NotHappened ==
    ASSUME StreamInv, NEW u \in People, NEW a \in acts, a.owner = u, Got(a) \notin Happened(u)
    PROVE  Gone(a) /\ Turned(a).at = a.at
  <1>1. a.op \in ActOps /\ u # Nobody
    BY StreamsAreBounded DEF StreamInv, ActsAreKnown, Acted
  <1>2. CASE a.op = "comment"
    <2>1. a.did \in Dids /\ discovered[a.did] = u
      BY <1>2 DEF StreamInv, ActsAreKnown
    <2>2. ActivityOf(a) \in activities
      BY DEF StreamInv, ActivitiesAreActs
    <2>3. PICK c : c = ActivityOf(a)
      OBVIOUS
    <2>4. c \in activities /\ c.uid = a.by /\ c.at = a.at /\ c.did = a.did /\ c.type = "c"
      BY <1>2, <2>2, <2>3 DEF ActivityOf, ActionOf
    <2>5. Entry("got", "c", c.uid, c.at) \in Happened(u)
      BY <2>1, <2>4 DEF Happened
    <2>6. Got(a) = Entry("got", ActionOf(a), a.by, a.at) /\ ActionOf(a) = "c"
      BY <1>2, OnceIsNotTurned DEF Got, ActionOf
    <2> QED BY <2>4, <2>5, <2>6
  <1>3. CASE a.op = "pattern"
    <2>1. a.did \in Dids \cap Patterns /\ discovered[a.did] = u /\ a.did # NoId
      BY <1>1, <1>3, ChartsAreNoNumbers DEF StreamInv, ActsAreKnown
    <2>2. PICK v \in votes : a \in SameVotes(v)
      BY <1>3, <2>1 DEF StreamInv, VotesAreActs
    <2>3. v.did = a.did
      BY <2>2 DEF SameVotes
    <2>4. Stands(v)
      BY <2>1, <2>3, VoteOnOwn
    <2>5. Entry("got", IF v.up THEN "cc" ELSE "dc", v.uid, v.at) \in Happened(u)
      BY <2>1, <2>3 DEF Happened
    <2>6. Got(a) = Entry("got", IF v.up THEN "cc" ELSE "dc", v.uid, v.at)
      BY <2>2, <2>4, VoteIsTurned DEF Got
    <2> QED BY <2>5, <2>6
  <1>4. CASE a.op = "observation"
    <2>1. PICK v \in votes : CastOn(v, a)
      BY <1>4 DEF StreamInv, VotesAreActs
    <2>2. Got(a) = Entry("got", ActionOf(a), a.by, a.at)
      BY <1>4, OnceIsNotTurned DEF Got
    <2>3. ActionOf(a) = IF v.up THEN "co" ELSE "do"
      BY <2>1 DEF CastOn, ActionOf
    <2>4. ASSUME NEW row \in Observation(a.oid) PROVE FALSE
      <3>1. row \in Observation(v.oid) /\ row.uid = u
        BY <1>4, <2>1 DEF CastOn, StreamInv, ActsAreKnown
      <3>2. Entry("got", IF v.up THEN "co" ELSE "do", v.uid, v.at) \in Happened(u)
        BY <3>1 DEF Happened
      <3> QED BY <2>1, <2>2, <2>3, <3>2 DEF CastOn
    <2>5. Turned(a).at = a.at
      BY <2>2 DEF Got, Entry
    <2> QED BY <1>4, <2>4, <2>5 DEF Gone
  <1> QED BY <1>1, <1>2, <1>3, <1>4 DEF ActOps

\* Whose request panics had to do with a row that has no chart.
LEMMA FailsForNoChart ==
    ASSUME StreamInv, NEW u \in People, Fails(u)
    PROVE  \E a \in acts : u \in {a.by, a.owner} /\ Chartless(About(a))
  <1>1. ASSUME NEW c \in Read(u), Chartless(About(c))
        PROVE  \E a \in acts : u \in {a.by, a.owner} /\ Chartless(About(a))
    <2>1. c \in activities /\ c.uid = u
      BY DEF Read
    <2>2. PICK a \in acts : c = ActivityOf(a)
      BY <2>1 DEF StreamInv, ActivitiesAreActs
    <2>3. c.uid = a.by /\ c.did = a.did /\ c.oid = a.oid
      BY <2>2 DEF ActivityOf
    <2>4. About(c) = About(a)
      BY <2>3 DEF About
    <2> QED BY <1>1, <2>1, <2>3, <2>4
  <1>2. ASSUME NEW v \in votes, NEW row \in Observation(v.oid), row.uid = u, Chartless(row.did)
        PROVE  \E a \in acts : u \in {a.by, a.owner} /\ Chartless(About(a))
    <2>1. v.oid # NoId /\ (CHOOSE other \in Observation(v.oid) : TRUE) = row
      BY RowOfObservation
    <2>2. PICK a \in acts : CastOn(v, a)
      BY <2>1 DEF StreamInv, VotesAreActs
    <2>3. a.oid = v.oid /\ a.owner = u
      BY <1>2, <2>2 DEF CastOn, StreamInv, ActsAreKnown
    <2>4. About(a) = row.did
      BY <2>1, <2>3 DEF About
    <2> QED BY <1>2, <2>3, <2>4
  <1> QED BY <1>1, <1>2 DEF Fails

\* What a user has done and what happened to them is a finite set of entries.
LEMMA EntriesAreFinite ==
    ASSUME StreamInv, NEW u \in People
    PROVE  /\ IsFiniteSet(Happened(u) \cup Instigated(u))
           /\ \A e \in Happened(u) \cup Instigated(u) : e.at \in Nat
  <1> DEFINE own == {b \in acts : b.by = u}
             theirs == {b \in acts : b.owner = u}
             did == [a \in acts |-> Entry("did", ActionOf(a), u, a.at)]
             got == [a \in acts |-> Got(a)]
  <1>1. own \in SUBSET acts /\ theirs \in SUBSET acts /\ IsFiniteSet(acts)
    BY DEF StreamInv, ActsAreKnown
  <1>2. IsFiniteSet(own) /\ IsFiniteSet(theirs)
    <2> HIDE DEF own, theirs
    <2> QED BY <1>1, FS_Subset
  <1>3. IsFiniteSet({did[a] : a \in own} \cup {got[a] : a \in theirs})
    <2> HIDE DEF own, theirs, did, got
    <2>1. IsFiniteSet({did[a] : a \in own})
      BY <1>2, ImageIsFinite
    <2>2. IsFiniteSet({got[a] : a \in theirs})
      BY <1>2, ImageIsFinite
    <2> QED BY <2>1, <2>2, FS_Union
  <1>4. Happened(u) \cup Instigated(u) \in SUBSET ({did[a] : a \in own} \cup {got[a] : a \in theirs})
    BY HappenedIsDeserved, InstigatedIsDeserved
  <1>5. IsFiniteSet(Happened(u) \cup Instigated(u))
    <2> HIDE DEF own, theirs, did, got
    <2> QED BY <1>3, <1>4, FS_Subset
  <1>6. /\ \A a \in acts : a.at \in Nat
        /\ \A v \in votes : v.at \in Nat
        /\ \A c \in activities : c.at \in Nat
    <2>1. \A a \in acts : a.at \in Nat
      BY DEF StreamInv, ActsAreKnown, Acted
    <2> QED BY <2>1 DEF StreamInv, VotesAreActs, Voted, ActivitiesAreActs, ActivityOf
  <1>7. \A e \in Happened(u) : e.at \in Nat
    BY <1>6 DEF Happened, Entry
  <1>8. \A e \in Instigated(u) : e.at \in Nat
    BY <1>6 DEF Instigated, Entry, Read
  <1> QED BY <1>5, <1>7, <1>8

\* What the invariant says of a stream.
LEMMA NewestAreShown == StreamInv => StreamIsNewest
  <1> SUFFICES ASSUME StreamInv, NEW u \in People
               PROVE  /\ Streams(u) = {} => \E a \in acts : u \in {a.by, a.owner} /\ Chartless(About(a))
                      /\ \A stream \in Streams(u) :
                           /\ stream \subseteq Deserved(u)
                           /\ \A e \in Deserved(u) \ stream :
                                \/ Cardinality(stream) = Newest /\ \A f \in stream : f.at >= e.at
                                \/ e.side = "did" /\ \E a \in acts : a.by = u /\ Gone(a) /\ a.at >= e.at
                                \/ e.side = "got" /\ \E a \in acts : a.at = e.at /\ Gone(a)
    BY DEF StreamIsNewest
  <1> DEFINE S == Happened(u) \cup Instigated(u)
             n == Min({Newest, Cardinality(S)})
  <1>1. IsFiniteSet(S) /\ Cardinality(S) \in Nat /\ \A e \in S : e.at \in Nat
    BY EntriesAreFinite, FS_CardinalityType
  <1>2. n \in 0..Cardinality(S) /\ (n # Cardinality(S) => n = Newest)
    <2>0. PICK c \in Nat : c = Cardinality(S)
      BY <1>1
    <2>1. Newest \in Nat /\ {Newest, c} \subseteq Int
      BY StreamsAreBounded
    <2>2. CASE Newest <= c
      <3>1. Min({Newest, c}) = Newest
        BY <2>1, <2>2, LeastIs
      <3> QED BY <2>0, <2>1, <2>2, <3>1
    <2>3. CASE c < Newest
      <3>1. Min({Newest, c}) = c
        BY <2>1, <2>3, LeastIs
      <3> QED BY <2>0, <2>1, <2>3, <3>1
    <2> QED BY <2>1, <2>2, <2>3
  <1>3. First(S) = {T \in kSubset(n, S) : \A e \in T, f \in S \ T : e.at >= f.at}
    BY DEF First
  <1>4. Deserved(u) = {Entry("did", ActionOf(a), u, a.at) : a \in {b \in acts : b.by = u}}
                        \cup {Got(a) : a \in {b \in acts : b.owner = u}}
    BY DEF Deserved, Got
  <1>5. S \subseteq Deserved(u)
    BY <1>4, HappenedIsDeserved, InstigatedIsDeserved
  <1>6. ASSUME NEW e \in Deserved(u) \ S
        PROVE  \/ e.side = "did" /\ \E a \in acts : a.by = u /\ Gone(a) /\ a.at >= e.at
               \/ e.side = "got" /\ \E a \in acts : a.at = e.at /\ Gone(a)
    <2>1. ASSUME NEW a \in acts, a.by = u, e = Entry("did", ActionOf(a), u, a.at)
          PROVE  e.side = "did" /\ \E b \in acts : b.by = u /\ Gone(b) /\ b.at >= e.at
      <3>1. e.side = "did" /\ e.at = a.at
        BY <2>1 DEF Entry
      <3>2. \E b \in acts : b.by = u /\ Gone(b) /\ b.at >= a.at
        BY <1>6, <2>1, NotInstigated
      <3> QED BY <3>1, <3>2
    <2>2. ASSUME NEW a \in acts, a.owner = u, e = Got(a)
          PROVE  e.side = "got" /\ \E b \in acts : b.at = e.at /\ Gone(b)
      <3>1. e.side = "got" /\ e.at = Turned(a).at
        BY <2>2 DEF Got, Entry
      <3>2. Gone(a) /\ Turned(a).at = a.at
        BY <1>6, <2>2, NotHappened
      <3> QED BY <3>1, <3>2
    <2> QED BY <1>4, <1>6, <2>1, <2>2
  <1> HIDE DEF S, n
  <1>7. Streams(u) = IF Fails(u) THEN {} ELSE First(S)
    BY DEF Streams, S
  <1>8. First(S) # {}
    BY <1>1, <1>2, <1>3, NewestExist
  <1>9. Streams(u) = {} => \E a \in acts : u \in {a.by, a.owner} /\ Chartless(About(a))
    BY <1>7, <1>8, FailsForNoChart
  <1>10. ASSUME NEW stream \in Streams(u)
         PROVE  /\ stream \subseteq Deserved(u)
                /\ \A e \in Deserved(u) \ stream :
                     \/ Cardinality(stream) = Newest /\ \A f \in stream : f.at >= e.at
                     \/ e.side = "did" /\ \E a \in acts : a.by = u /\ Gone(a) /\ a.at >= e.at
                     \/ e.side = "got" /\ \E a \in acts : a.at = e.at /\ Gone(a)
    <2>1. /\ stream \in SUBSET S /\ Cardinality(stream) = n
          /\ \A e \in stream, f \in S \ stream : e.at >= f.at
      BY <1>3, <1>7 DEF kSubset
    <2>2. ASSUME NEW e \in S \ stream
          PROVE  Cardinality(stream) = Newest /\ \A f \in stream : f.at >= e.at
      <3>1. Cardinality(stream) # Cardinality(S)
        BY <1>1, <2>1, <2>2, FS_Subset
      <3> QED BY <1>2, <2>1, <2>2, <3>1
    <2> QED BY <1>5, <1>6, <2>1, <2>2
  <1> QED BY <1>9, <1>10

\* Whatever is done, and whatever is deleted meanwhile, a stream shows the newest
\* acts as they were done and leaves out only what StreamIsNewest names.
THEOREM StreamShowsNewest == StreamSpec => []StreamIsNewest
  BY StreamBegins, StreamStep, NewestAreShown, PTL DEF StreamSpec

-----------------------------------------------------------------------------
(***************************************************************************)
(* Paging: the charts shown so far are as many as their buttons say, and   *)
(* none of them twice.                                                     *)
(***************************************************************************)
\* what a list is made of: its charts in the order in which they came to be
\* there, wherever they are in it
Numbered(s) == IsInjective(s) /\ \A k \in DOMAIN s : s[k] \in 1..Len(s)

PageTypes ==
    /\ kind \in {"related", "correlated"} /\ open \in Shelves \cup {NoShelf}
    /\ list \in [Shelves -> Seq(Ids)]
    /\ \A t \in Shelves : Numbered(list[t]) /\ Len(list[t]) <= Max(Lengths) + bounds.added
    /\ bounds \in [opened : Nat, added : 0..Additions]
    /\ shown \in [Ids -> Nat]
    /\ offset \in Nat /\ max \in Nat /\ count \in Nat /\ kept \in Nat /\ started \in Nat
    /\ late \subseteq Nat /\ state \subseteq {"grown", "refused", "panic"}

\* nothing of the page is there yet
Bare == offset = 0 /\ max = 0 /\ \A i \in Ids : shown[i] = 0

\* The first request of a page is under way, or has brought nothing; later ones
\* ask for no more than was left of the list, which has grown since if anything.
PageStages ==
    open # NoShelf =>
        /\ open \in Shelves /\ started > 0
        /\ \/ Bare /\ count = started /\ state \subseteq {"grown"}
           \/ Bare /\ count = 0
           \/ /\ 0 < max /\ max <= Total /\ started <= offset
              /\ count > 0 => offset + count <= max /\ count <= Step
              /\ "grown" \notin state => max = Total
              /\ state \subseteq {"grown"}

\* PagesTile, part by part
Reached == Min({offset, max})
Skipped == IF started > Most /\ offset >= started THEN Most + 1..started ELSE {}
OnPage(f) == FoldFunction(+, 0, f)
FailuresTile ==
    /\ "refused" \in state => kind = "correlated" /\ max = 0
    /\ "panic" \in state => kind = "correlated" /\ started > Most /\ max = 0
RelatedTile == kind = "related" => OnPage(shown) = Reached
CorrelatedTile ==
    kind = "correlated" /\ "grown" \notin state =>
        \A k \in DOMAIN list[open] :
          shown[list[open][k]] = IF k <= Reached /\ k \notin Skipped THEN 1 ELSE 0
Tiled == open # NoShelf => FailuresTile /\ RelatedTile /\ CorrelatedTile

PagesInv == PageTypes /\ PageStages /\ Tiled

-----------------------------------------------------------------------------
(***************************************************************************)
(* Paging: lists.                                                          *)
(***************************************************************************)

\* There are finitely many ids.
LEMMA IdsAreFinite ==
    /\ Max(Lengths) \in Nat /\ \A n \in Lengths : n <= Max(Lengths)
    /\ Ids = 1..Max(Lengths) + Additions /\ IsFiniteSet(Ids) /\ Ids \subseteq Nat
  <1>1. Max(Lengths) \in Nat /\ \A n \in Lengths : n <= Max(Lengths)
    BY PagesAreBounded, FirstAndLast
  <1>2. Max(Lengths) + Additions \in Int /\ 1 \in Int
    BY <1>1, PagesAreBounded
  <1>3. IsFiniteSet(Ids)
    BY <1>2, FS_Interval DEF Ids
  <1>4. Ids \subseteq Nat
    BY <1>2 DEF Ids
  <1> QED BY <1>1, <1>3, <1>4 DEF Ids

\* A list has as many charts as it is long.
LEMMA ChartsOfList ==
    ASSUME NEW s \in Seq(Ids), Numbered(s)
    PROVE  IsFiniteSet(Range(s)) /\ Cardinality(Range(s)) = Len(s) /\ Range(s) \subseteq Ids
  <1>1. Len(s) \in Nat /\ DOMAIN s = 1..Len(s) /\ \A k \in 1..Len(s) : s[k] \in Ids
    OBVIOUS
  <1>2. IsFiniteSet(1..Len(s)) /\ Cardinality(1..Len(s)) = Len(s)
    <2>1. PICK n \in Nat : n = Len(s)
      BY <1>1
    <2>2. n \in Int /\ 1 \in Int
      BY <2>1
    <2>3. IsFiniteSet(1..n) /\ Cardinality(1..n) = IF 1 > n THEN 0 ELSE n - 1 + 1
      BY <2>2, FS_Interval
    <2> QED BY <2>1, <2>3
  <1>3. s \in Surjection(1..Len(s), Range(s)) /\ s \in Injection(1..Len(s), Range(s))
    <2>1. s = [k \in 1..Len(s) |-> s[k]]
      OBVIOUS
    <2>2. s \in [1..Len(s) -> Range(s)]
      BY <1>1, <2>1 DEF Range
    <2> QED BY <1>1, <2>2 DEF Numbered, Surjection, Injection, Range
  <1>4. IsFiniteSet(Range(s)) /\ Cardinality(Range(s)) = Len(s)
    BY <1>2, <1>3, FS_Surjection
  <1> QED BY <1>1, <1>4 DEF Range

\* s with another element put in after its k-th
PutAfter(s, k, e) == SubSeq(s, 1, k) \o <<e>> \o SubSeq(s, k + 1, Len(s))

\* What a sequence is that has another element put in.
LEMMA ElementIsPut ==
    ASSUME NEW S, NEW s \in Seq(S), NEW k \in 0..Len(s), NEW e \in S
    PROVE  /\ PutAfter(s, k, e) \in Seq(S) /\ Len(PutAfter(s, k, e)) = Len(s) + 1
           /\ \A i \in 1..Len(s) + 1 :
                PutAfter(s, k, e)[i] = IF i <= k THEN s[i] ELSE IF i = k + 1 THEN e ELSE s[i - 1]
  <1> DEFINE w == PutAfter(s, k, e)
             n == Len(s)
  <1>1. n \in Nat
    OBVIOUS
  <1> HIDE DEF n
  <1>2. n \in Int /\ k \in Int /\ 0 <= k /\ k <= n /\ 1 \in Int /\ k + 1 \in Int
    BY <1>1 DEF n
  <1>3. \A i \in 1..n : s[i] \in S
    BY DEF n
  <1> DEFINE a == SubSeq(s, 1, k)
             b == <<e>>
             c == SubSeq(s, k + 1, n)
  <1>4. a \in Seq(S) /\ Len(a) = k /\ \A i \in 1..k : a[i] = s[i]
    <2>1. \A i \in 1..k : s[i] \in S
      BY <1>2, <1>3
    <2>2. /\ a \in Seq(S) /\ Len(a) = IF 1 <= k THEN k - 1 + 1 ELSE 0
          /\ \A i \in 1..k - 1 + 1 : a[i] = s[1 + i - 1]
      BY <1>2, <2>1, SubSeqProperties
    <2> HIDE DEF a
    <2> QED BY <1>2, <2>2
  <1>5. c \in Seq(S) /\ Len(c) = n - k /\ \A i \in 1..n - k : c[i] = s[i + k]
    <2>1. \A i \in k + 1..n : s[i] \in S
      BY <1>2, <1>3
    <2>2. /\ c \in Seq(S) /\ Len(c) = IF k + 1 <= n THEN n - (k + 1) + 1 ELSE 0
          /\ \A i \in 1..n - (k + 1) + 1 : c[i] = s[k + 1 + i - 1]
      BY <1>2, <2>1, SubSeqProperties
    <2> HIDE DEF c
    <2> QED BY <1>2, <2>2
  <1>6. b \in Seq(S) /\ Len(b) = 1 /\ b[1] = e
    OBVIOUS
  <1>7. w = (a \o b) \o c
    BY DEF PutAfter, n
  <1> HIDE DEF a, b, c, w
  <1> DEFINE d == a \o b
  <1>8. d \in Seq(S) /\ Len(d) = k + 1 /\ \A i \in 1..k + 1 : d[i] = IF i <= k THEN s[i] ELSE e
    <2>1. /\ d \in Seq(S) /\ Len(d) = Len(a) + Len(b)
          /\ \A i \in 1..Len(a) + Len(b) : d[i] = IF i <= Len(a) THEN a[i] ELSE b[i - Len(a)]
      BY <1>4, <1>6, ConcatProperties
    <2> HIDE DEF d
    <2> QED BY <1>2, <1>4, <1>6, <2>1
  <1> HIDE DEF d
  <1>9. /\ w \in Seq(S) /\ Len(w) = Len(d) + Len(c)
        /\ \A i \in 1..Len(d) + Len(c) : w[i] = IF i <= Len(d) THEN d[i] ELSE c[i - Len(d)]
    <2>1. w = d \o c
      BY <1>7 DEF d
    <2>2. /\ d \o c \in Seq(S) /\ Len(d \o c) = Len(d) + Len(c)
          /\ \A i \in 1..Len(d) + Len(c) : (d \o c)[i] = IF i <= Len(d) THEN d[i] ELSE c[i - Len(d)]
      BY <1>5, <1>8, ConcatProperties
    <2> QED BY <2>1, <2>2
  <1>10. Len(d) + Len(c) = n + 1
    BY <1>2, <1>5, <1>8
  <1>11. ASSUME NEW i \in 1..n + 1
         PROVE  w[i] = IF i <= k THEN s[i] ELSE IF i = k + 1 THEN e ELSE s[i - 1]
    <2>1. w[i] = IF i <= k + 1 THEN d[i] ELSE c[i - (k + 1)]
      BY <1>8, <1>9, <1>10
    <2>2. CASE i <= k + 1
      <3>1. i \in 1..k + 1
        BY <2>2
      <3>2. d[i] = IF i <= k THEN s[i] ELSE e
        BY <1>8, <3>1
      <3> QED BY <2>1, <2>2, <3>2
    <2>3. CASE i > k + 1
      <3>1. i - (k + 1) \in 1..n - k /\ i - (k + 1) + k = i - 1
        BY <1>2, <2>3
      <3> QED BY <1>2, <1>5, <2>1, <2>3, <3>1
    <2> QED BY <1>2, <2>2, <2>3
  <1>12. w \in Seq(S) /\ Len(w) = n + 1
    BY <1>9, <1>10
  <1> QED BY <1>11, <1>12 DEF w, n

\* A chart that is put anywhere into a list has the next number.
LEMMA ChartIsPut ==
    ASSUME NEW s \in Seq(Ids), Numbered(s), NEW k \in 0..Len(s), Len(s) + 1 \in Ids
    PROVE  /\ PutAfter(s, k, Len(s) + 1) \in Seq(Ids) /\ Numbered(PutAfter(s, k, Len(s) + 1))
           /\ Len(PutAfter(s, k, Len(s) + 1)) = Len(s) + 1
  <1>1. PICK n \in Nat : n = Len(s)
    OBVIOUS
  <1>2. k \in Int /\ 0 <= k /\ k <= n /\ DOMAIN s = 1..n
    BY <1>1
  <1> DEFINE w == PutAfter(s, k, n + 1)
  <1>3. /\ w \in Seq(Ids) /\ Len(w) = n + 1
        /\ \A i \in 1..n + 1 : w[i] = IF i <= k THEN s[i] ELSE IF i = k + 1 THEN n + 1 ELSE s[i - 1]
    <2>1. n + 1 \in Ids
      BY <1>1
    <2> HIDE DEF w
    <2>2. w = PutAfter(s, k, n + 1)
      BY DEF w
    <2>3. PICK e \in Ids : e = Len(s) + 1
      BY <2>1
    <2>4. PutAfter(s, k, e) \in Seq(Ids) /\ Len(PutAfter(s, k, e)) = Len(s) + 1
      BY ElementIsPut
    <2>5. \A i \in 1..Len(s) + 1 :
            PutAfter(s, k, e)[i] = IF i <= k THEN s[i] ELSE IF i = k + 1 THEN e ELSE s[i - 1]
      BY ElementIsPut
    <2> QED BY <1>1, <2>2, <2>3, <2>4, <2>5
  <1> HIDE DEF w
  <1>4. DOMAIN w = 1..n + 1
    BY <1>3
  <1>5. \A i \in 1..n : s[i] \in 1..n
    BY <1>1, <1>2 DEF Numbered
  <1> DEFINE place(m) == IF m <= k THEN m ELSE m - 1
  <1>6. ASSUME NEW i \in 1..n + 1, i # k + 1
        PROVE  place(i) \in 1..n /\ w[i] = s[place(i)] /\ w[i] \in 1..n
    <2>1. place(i) \in 1..n /\ w[i] = s[place(i)]
      <3>1. CASE i <= k
        BY <1>2, <1>3, <3>1
      <3>2. CASE i > k
        BY <1>2, <1>3, <1>6, <3>2
      <3> QED BY <1>2, <3>1, <3>2
    <2> HIDE DEF place
    <2> QED BY <1>5, <2>1
  <1>7. w[k + 1] = n + 1
    <2>1. k + 1 \in 1..n + 1 /\ ~(k + 1 <= k)
      BY <1>2
    <2> QED BY <1>3, <2>1
  <1> HIDE DEF place
  <1>8. \A i \in DOMAIN w : w[i] \in 1..Len(w)
    <2>1. \A m \in 1..n : m \in 1..n + 1
      OBVIOUS
    <2>2. n + 1 \in 1..n + 1
      OBVIOUS
    <2>3. ASSUME NEW i \in 1..n + 1 PROVE w[i] \in 1..n + 1
      BY <1>6, <1>7, <2>1, <2>2
    <2> QED BY <1>3, <1>4, <2>3
  <1>9. ASSUME NEW i \in DOMAIN w, NEW j \in DOMAIN w, w[i] = w[j] PROVE i = j
    <2>1. \A p, q \in 1..n : s[p] = s[q] => p = q
      BY <1>2 DEF Numbered, IsInjective
    <2>2. n + 1 \notin 1..n
      OBVIOUS
    <2>3. CASE i = k + 1 \/ j = k + 1
      BY <1>4, <1>6, <1>7, <1>9, <2>2, <2>3
    <2>4. CASE i # k + 1 /\ j # k + 1
      <3>1. place(i) = place(j)
        <4>1. place(i) \in 1..n /\ w[i] = s[place(i)] /\ place(j) \in 1..n /\ w[j] = s[place(j)]
          BY <1>4, <1>6, <2>4
        <4> QED BY <1>9, <2>1, <4>1
      <3> QED BY <1>2, <1>4, <2>4, <3>1 DEF place
    <2> QED BY <2>3, <2>4
  <1>10. Numbered(w)
    BY <1>8, <1>9 DEF Numbered, IsInjective
  <1> QED BY <1>1, <1>3, <1>10 DEF w

-----------------------------------------------------------------------------
(***************************************************************************)
(* Paging: steps.                                                          *)
(***************************************************************************)

\* The parts are the whole.
LEMMA TilesAreTiles == Tiled <=> PagesTile
  BY DEF Tiled, PagesTile, FailuresTile, RelatedTile, CorrelatedTile, Reached, Skipped, OnPage

\* How often charts are shown, as the sum that DataProofs is about.
LEMMA ShownIsSumOn ==
    ASSUME NEW f \in [Ids -> Nat]
    PROVE  OnPage(f) = SumOn(f, Ids)
  <1> DEFINE Written(g) == [s \in SUBSET Ids |->
                           IF s = {} THEN 0 ELSE f[Pick(s)] + g[s \ {Pick(s)}]]
  <1>1. DOMAIN f = Ids
    OBVIOUS
  <1>2. OnPage(f) = (CHOOSE g : g = Written(g))[Ids]
    BY <1>1 DEF OnPage, FoldFunction, FoldFunctionOnSet, MapThenFoldSet, Pick
  <1>3. ASSUME NEW g PROVE g = Written(g) <=> Sums(g, f, Ids)
    BY DEF Sums
  <1> HIDE DEF Written
  <1>4. IsFiniteSet(Ids) /\ \A i \in Ids : f[i] \in Int
    BY IdsAreFinite
  <1>5. \E g : Sums(g, f, Ids)
    BY <1>4, SumsExist
  <1>6. PICK g : g = (CHOOSE a : a = Written(a)) /\ Sums(g, f, Ids)
    BY <1>3, <1>5
  <1>7. PICK k : k = (CHOOSE a : Sums(a, f, Ids)) /\ Sums(k, f, Ids)
    BY <1>5
  <1>8. g[Ids] = k[Ids]
    BY <1>4, <1>6, <1>7, SumsAgree
  <1> QED BY <1>2, <1>6, <1>7, <1>8 DEF SumOn

\* When nothing is shown, the sum is zero; a page adds as many as it has.
LEMMA ShownAddsUp ==
    ASSUME NEW f \in [Ids -> Nat]
    PROVE  /\ OnPage(f) \in Int
           /\ (\A i \in Ids : f[i] = 0) => OnPage(f) = 0
           /\ \A page \in SUBSET Ids, h \in [Ids -> Nat] :
                (\A i \in Ids : h[i] = f[i] + IF i \in page THEN 1 ELSE 0)
                => OnPage(h) = OnPage(f) + Cardinality(page)
  <1>1. IsFiniteSet(Ids) /\ \A i \in Ids : f[i] \in Int
    BY IdsAreFinite
  <1>2. OnPage(f) = SumOn(f, Ids)
    BY ShownIsSumOn
  <1>3. SumOn(f, Ids) \in Int
    BY <1>1, SumFacts
  <1>4. (\A i \in Ids : f[i] = 0) => SumOn(f, Ids) = 0
    BY <1>1, SumOfZeros
  <1>5. ASSUME NEW page \in SUBSET Ids, NEW h \in [Ids -> Nat],
               \A i \in Ids : h[i] = f[i] + IF i \in page THEN 1 ELSE 0
        PROVE  OnPage(h) = OnPage(f) + Cardinality(page)
    <2>1. SumOn(h, Ids) = SumOn(f, Ids) + Cardinality(page \cap Ids)
      BY <1>1, <1>5, SumOfOnesMore
    <2>2. page \cap Ids = page
      OBVIOUS
    <2>3. OnPage(h) = SumOn(h, Ids)
      BY ShownIsSumOn
    <2> QED BY <1>2, <2>1, <2>2, <2>3
  <1> QED BY <1>2, <1>3, <1>4, <1>5

\* The list that is open.
LEMMA OpenList ==
    ASSUME PageTypes, open \in Shelves
    PROVE  /\ Total \in Nat /\ list[open] \in Seq(Ids) /\ Numbered(list[open])
           /\ DOMAIN list[open] = 1..Total
           /\ \A k \in 1..Total : list[open][k] \in Ids
           /\ \A j, k \in 1..Total : list[open][j] = list[open][k] => j = k
  <1>1. list[open] \in Seq(Ids) /\ Numbered(list[open])
    BY DEF PageTypes
  <1>2. Total \in Nat /\ DOMAIN list[open] = 1..Total /\ \A k \in 1..Total : list[open][k] \in Ids
    BY <1>1 DEF Total
  <1> QED BY <1>1, <1>2 DEF Numbered, IsInjective

\* All lists are there from the start, and nothing of any.
LEMMA PagesBegin == PagingInit => PagesInv
  <1> SUFFICES ASSUME PagingInit PROVE PagesInv
    OBVIOUS
  <1>1. PICK sizes \in [Shelves -> Lengths] : list = [t \in Shelves |-> [k \in 1..sizes[t] |-> k]]
    BY DEF PagingInit
  <1>2. ASSUME NEW t \in Shelves
        PROVE  list[t] \in Seq(Ids) /\ Numbered(list[t]) /\ Len(list[t]) <= Max(Lengths)
    <2>1. PICK n \in Nat : n = sizes[t] /\ n <= Max(Lengths)
      BY IdsAreFinite, PagesAreBounded
    <2>2. list[t] = [k \in 1..n |-> k]
      BY <1>1, <2>1
    <2>3. \A k \in 1..n : k \in Ids
      BY <2>1, IdsAreFinite, PagesAreBounded
    <2>4. list[t] \in Seq(Ids) /\ Len(list[t]) = n /\ DOMAIN list[t] = 1..n
      BY <2>2, <2>3
    <2>5. \A k \in 1..n : list[t][k] = k
      BY <2>2
    <2> QED BY <2>1, <2>4, <2>5 DEF Numbered, IsInjective
  <1>3. list \in [Shelves -> Seq(Ids)]
    BY <1>1, <1>2
  <1>4. bounds \in [opened : Nat, added : 0..Additions] /\ bounds.added = 0
    BY PagesAreBounded DEF PagingInit
  <1>5. \A t \in Shelves : Len(list[t]) <= Max(Lengths) + bounds.added
    BY <1>2, <1>4, IdsAreFinite
  <1>6. PageTypes
    BY <1>2, <1>3, <1>4, <1>5 DEF PagingInit, PageTypes
  <1> QED BY <1>6 DEF PagesInv, PagingInit, PageStages, Tiled

\* A table that is opened starts with nothing.
LEMMA OpenTableStep ==
    ASSUME PagesInv, NEW t \in Shelves, OpenTable(t)
    PROVE  PagesInv'
  <1>1. PageTypes
    BY DEF PagesInv
  <1>2. bounds' \in [opened : Nat, added : 0..Additions] /\ bounds'.added = bounds.added
    <2>1. bounds \in [opened : Nat, added : 0..Additions]
      BY <1>1 DEF PageTypes
    <2>2. bounds' = [bounds EXCEPT !.opened = bounds.opened + 1]
      BY DEF OpenTable
    <2> QED BY <2>1, <2>2
  <1>3. late' \subseteq Nat
    BY <1>1 DEF PageTypes, OpenTable
  <1>4. count' \in Nat /\ count' > 0 /\ started' = count'
    BY <1>1, PagesAreBounded DEF PageTypes, OpenTable
  <1>5. shown' \in [Ids -> Nat] /\ \A i \in Ids : shown'[i] = 0
    BY DEF OpenTable
  <1>6. \A u \in Shelves : Len(list'[u]) <= Max(Lengths) + bounds'.added
    BY <1>1, <1>2 DEF PageTypes, OpenTable
  <1>7. PageTypes'
    BY <1>1, <1>2, <1>3, <1>4, <1>5, <1>6 DEF PageTypes, OpenTable
  <1>8. PageStages'
    BY <1>4, <1>5 DEF PageStages, Bare, OpenTable
  <1>9. OnPage(shown') = 0
    BY <1>5, ShownAddsUp
  <1>10. offset' = 0 /\ max' = 0 /\ state' = {} /\ open' = t
    BY DEF OpenTable
  <1>11. Min({0, 0}) = 0
    BY LesserIs
  <1>12. ASSUME NEW k \in DOMAIN list'[t] PROVE shown'[list'[t][k]] = 0 /\ ~(k <= 0)
    <2>1. list'[t] \in Seq(Ids)
      BY <1>7 DEF PageTypes
    <2>2. k \in 1..Len(list'[t]) /\ list'[t][k] \in Ids
      BY <2>1, <1>12
    <2>3. Len(list'[t]) \in Nat
      BY <2>1
    <2> QED BY <1>5, <2>2, <2>3
  <1>13. Reached' = 0
    BY <1>10, <1>11 DEF Reached
  <1>14. CorrelatedTile'
    BY <1>10, <1>12, <1>13 DEF CorrelatedTile
  <1>15. Tiled'
    BY <1>9, <1>10, <1>13, <1>14 DEF Tiled, FailuresTile, RelatedTile
  <1> QED BY <1>7, <1>8, <1>15 DEF PagesInv

\* What the page is to be, if the list stays.
LEMMA TiledStays ==
    ASSUME Tiled, UNCHANGED <<kind, list, open, shown, offset, max, started>>,
           \/ state' = state
           \/ FailuresTile' /\ state' \cup {"panic", "refused"} = state \cup {"panic", "refused"}
    PROVE  Tiled'
  <1>1. Reached' = Reached /\ Skipped' = Skipped
    BY DEF Reached, Skipped
  <1>2. Tiled /\ open # NoShelf => RelatedTile' /\ CorrelatedTile'
    <2>1. "grown" \in state' <=> "grown" \in state
      OBVIOUS
    <2> QED BY <1>1, <2>1 DEF Tiled, RelatedTile, CorrelatedTile
  <1>3. open # NoShelf => FailuresTile'
    BY DEF Tiled, FailuresTile
  <1> QED BY <1>2, <1>3 DEF Tiled

\* Only what is left of the list is asked for.
LEMMA ShowMoreStep ==
    ASSUME PagesInv, ShowMore
    PROVE  PagesInv'
  <1>1. /\ open # NoShelf /\ count = 0 /\ (\E i \in Ids : shown[i] > 0) /\ offset < max
        /\ offset \in Nat /\ max \in Nat /\ Step \in Nat /\ Step > 0 /\ PageStages
    BY PagesAreBounded DEF PagesInv, PageTypes, ShowMore
  <1>2. ~Bare /\ started > 0
    BY <1>1 DEF Bare, PageStages
  <1>3. count' = IF max - offset <= Step THEN max - offset ELSE Step
    <2>1. Min({max - offset, Step}) = IF max - offset <= Step THEN max - offset ELSE Step
      BY <1>1, LesserIs
    <2> QED BY <2>1 DEF ShowMore
  <1>4. count' \in Nat /\ offset + count' <= max /\ count' <= Step
    BY <1>1, <1>3
  <1>5. PageTypes'
    BY <1>4 DEF PagesInv, PageTypes, ShowMore
  <1>6. PageStages'
    BY <1>1, <1>2, <1>4 DEF PageStages, Bare, ShowMore, Total
  <1>7. Tiled'
    BY TiledStays DEF PagesInv, ShowMore
  <1> QED BY <1>5, <1>6, <1>7 DEF PagesInv

\* An answer to a page that was left does nothing to the one that is open.
LEMMA LateAnswerStep ==
    ASSUME PagesInv, LateAnswer
    PROVE  PagesInv'
  <1>1. PageTypes'
    <2>1. kept' \in Nat /\ late' \subseteq Nat
      BY DEF PagesInv, PageTypes, LateAnswer
    <2> QED BY <2>1 DEF PagesInv, PageTypes, LateAnswer
  <1>2. PageStages'
    BY DEF PagesInv, PageStages, Bare, LateAnswer, Total
  <1>3. Tiled'
    BY TiledStays DEF PagesInv, LateAnswer
  <1> QED BY <1>1, <1>2, <1>3 DEF PagesInv

\* A request after the first is neither refused nor past the end of the list.
LEMMA LaterRequest ==
    ASSUME PagesInv, open # NoShelf, count > 0, ~Bare
    PROVE  /\ ~Refused(kind, offset, count, Total)
           /\ PageEnd(kind, offset, count, Total) = offset + count
           /\ offset + count <= max /\ max <= Total
           /\ started > 0 /\ started <= offset /\ count <= Step /\ offset < max
           /\ ("grown" \notin state => max = Total) /\ state \subseteq {"grown"}
  <1>1. /\ open \in Shelves /\ offset \in Nat /\ max \in Nat /\ count \in Nat /\ started \in Nat
        /\ PageTypes
    BY DEF PagesInv, PageTypes, PageStages
  <1>2. /\ 0 < max /\ max <= Total /\ started <= offset /\ started > 0
        /\ offset + count <= max /\ count <= Step
        /\ ("grown" \notin state => max = Total) /\ state \subseteq {"grown"}
    BY <1>1 DEF PagesInv, PageStages
  <1>3. Total \in Nat
    BY <1>1, OpenList
  <1>4. Step \in Nat /\ Most \in Nat /\ Step <= Most
    BY PagesAreBounded
  <1>5. offset # 0 /\ ~(count > Most)
    BY <1>1, <1>2, <1>4
  <1>6. ~Refused(kind, offset, count, Total)
    BY <1>1, <1>2, <1>3 DEF Refused
  <1>7. PageEnd(kind, offset, count, Total) = offset + count
    BY <1>5 DEF PageEnd
  <1> QED BY <1>1, <1>2, <1>6, <1>7

\* What the first request of a page finds.
LEMMA FirstRequest ==
    ASSUME PagesInv, open # NoShelf, count > 0, Bare
    PROVE  /\ offset = 0 /\ max = 0 /\ count = started /\ state \subseteq {"grown"}
           /\ Refused(kind, offset, count, Total) <=> kind = "correlated" /\ Total = 0
           /\ PageEnd(kind, offset, count, Total) =
                IF kind = "correlated" /\ count > Most THEN Most
                ELSE IF count > Total THEN Total ELSE count
  <1>1. /\ open \in Shelves /\ count \in Nat /\ PageTypes /\ offset = 0 /\ max = 0
    BY DEF PagesInv, PageTypes, PageStages, Bare
  <1>2. count = started /\ state \subseteq {"grown"}
    BY <1>1 DEF PagesInv, PageStages, Bare
  <1>3. Total \in Nat /\ Most \in Nat
    BY <1>1, OpenList, PagesAreBounded
  <1>4. Refused(kind, offset, count, Total) <=> kind = "correlated" /\ Total = 0
    BY <1>1, <1>3 DEF Refused
  <1>5. PageEnd(kind, offset, count, Total) =
          IF kind = "correlated" /\ count > Most THEN Most
          ELSE IF count > Total THEN Total ELSE count
    <2>1. /\ offset = 0 /\ 0 + Most = Most /\ 0 + count = count /\ count # 0
          /\ (count > Total \/ ~(count > Total))
      BY <1>1, <1>3
    <2>2. CASE kind = "correlated" /\ count > Most
      BY <2>1, <2>2 DEF PageEnd
    <2>3. CASE ~(kind = "correlated" /\ count > Most) /\ count > Total
      BY <2>1, <2>3 DEF PageEnd
    <2>4. CASE ~(kind = "correlated" /\ count > Most) /\ ~(count > Total)
      BY <2>1, <2>4 DEF PageEnd
    <2> QED BY <2>2, <2>3, <2>4
  <1> QED BY <1>1, <1>2, <1>4, <1>5

\* Only the first request of a page is refused, of a table without correlated charts.
LEMMA RefuseStep ==
    ASSUME PagesInv, Refuse
    PROVE  PagesInv'
  <1>1. open # NoShelf /\ count > 0 /\ Refused(kind, offset, count, Total)
    BY DEF Refuse
  <1>2. Bare
    BY <1>1, LaterRequest
  <1>3. kind = "correlated" /\ max = 0 /\ state \subseteq {"grown"}
    BY <1>1, <1>2, FirstRequest
  <1>4. PageTypes'
    BY <1>3 DEF PagesInv, PageTypes, Refuse
  <1>5. PageStages'
    BY <1>2 DEF PagesInv, PageStages, Bare, Refuse
  <1>6. FailuresTile'
    BY <1>3 DEF FailuresTile, Refuse
  <1>7. Tiled'
    BY <1>6, TiledStays DEF PagesInv, Refuse
  <1> QED BY <1>4, <1>5, <1>7 DEF PagesInv

\* Only the first request of a page may run past the end, if it asks for more than
\* there may be on a page.
LEMMA PanickedStep ==
    ASSUME PagesInv, Panicked
    PROVE  PagesInv'
  <1>1. open # NoShelf /\ count > 0 /\ PageEnd(kind, offset, count, Total) > Total
    BY DEF Panicked
  <1>2. /\ PageTypes /\ open \in Shelves /\ Total \in Nat /\ count \in Nat /\ offset \in Nat
        /\ max \in Nat /\ Most \in Nat
    BY <1>1, OpenList, PagesAreBounded DEF PagesInv, PageTypes, PageStages
  <1>3. Bare
    <2>1. ~Bare => PageEnd(kind, offset, count, Total) = offset + count
                   /\ offset + count <= max /\ max <= Total
      BY <1>1, LaterRequest
    <2> QED BY <1>1, <1>2, <2>1
  <1>4. /\ kind = "correlated" /\ count > Most /\ max = 0 /\ count = started
        /\ state \subseteq {"grown"}
    <2>1. /\ PageEnd(kind, offset, count, Total) =
                IF kind = "correlated" /\ count > Most THEN Most
                ELSE IF count > Total THEN Total ELSE count
          /\ max = 0 /\ count = started /\ state \subseteq {"grown"}
      BY <1>1, <1>3, FirstRequest
    <2> QED BY <1>1, <1>2, <2>1
  <1>5. PageTypes'
    BY <1>4 DEF PagesInv, PageTypes, Panicked
  <1>6. PageStages'
    BY <1>3 DEF PagesInv, PageStages, Bare, Panicked
  <1>7. FailuresTile'
    BY <1>4 DEF FailuresTile, Panicked
  <1>8. Tiled'
    BY <1>7, TiledStays DEF PagesInv, Panicked
  <1> QED BY <1>5, <1>6, <1>8 DEF PagesInv

\* A chart that comes to be in a list leaves the others their numbers; what is
\* said of correlated charts is no longer said of the list that is open.
LEMMA GrowStep ==
    ASSUME PagesInv, NEW t \in Shelves, Grow(t)
    PROVE  PagesInv'
  <1>1. PageTypes /\ list \in [Shelves -> Seq(Ids)] /\ Numbered(list[t]) /\ Len(list[t]) \in Nat
    BY DEF PagesInv, PageTypes
  <1>2. PICK k \in 0..Len(list[t]) :
          list' = [list EXCEPT ![t] = PutAfter(list[t], k, Len(list[t]) + 1)]
    <2>1. \E k \in IF kind = "related" THEN {0} ELSE 0..Len(list[t]) :
            list' = [list EXCEPT ![t] =
              SubSeq(list[t], 1, k) \o <<Len(list[t]) + 1>> \o SubSeq(list[t], k + 1, Len(list[t]))]
      BY DEF Grow
    <2>2. 0 \in 0..Len(list[t])
      BY <1>1
    <2> QED BY <2>1, <2>2 DEF PutAfter
  <1>3. bounds.added \in Nat /\ bounds.added < Additions /\ Additions \in Nat
        /\ bounds' = [bounds EXCEPT !.added = bounds.added + 1]
        /\ bounds \in [opened : Nat, added : 0..Additions]
    BY <1>1, PagesAreBounded DEF PageTypes, Grow
  <1>4. bounds' \in [opened : Nat, added : 0..Additions] /\ bounds'.added = bounds.added + 1
    BY <1>3
  <1>5. Len(list[t]) + 1 \in Ids
    <2>1. Len(list[t]) <= Max(Lengths) + bounds.added
      BY <1>1 DEF PageTypes
    <2> QED BY <1>1, <1>3, <2>1, IdsAreFinite
  <1>6. /\ list'[t] \in Seq(Ids) /\ Numbered(list'[t]) /\ Len(list'[t]) = Len(list[t]) + 1
    BY <1>1, <1>2, <1>5, ChartIsPut
  <1>7. \A u \in Shelves : u # t => list'[u] = list[u]
    BY <1>1, <1>2
  <1>8. list' \in [Shelves -> Seq(Ids)]
    BY <1>1, <1>2, <1>6
  <1>9. \A u \in Shelves : Numbered(list'[u]) /\ Len(list'[u]) <= Max(Lengths) + bounds'.added
    <2>1. Max(Lengths) \in Nat
      BY IdsAreFinite
    <2>2. ASSUME NEW u \in Shelves
          PROVE  Numbered(list[u]) /\ Len(list[u]) <= Max(Lengths) + bounds.added
                 /\ Len(list[u]) \in Nat
      BY <1>1 DEF PageTypes
    <2>3. ASSUME NEW u \in Shelves, u = t
          PROVE  Numbered(list'[u]) /\ Len(list'[u]) <= Max(Lengths) + bounds'.added
      BY <1>3, <1>4, <1>6, <2>1, <2>2, <2>3
    <2>4. ASSUME NEW u \in Shelves, u # t
          PROVE  Numbered(list'[u]) /\ Len(list'[u]) <= Max(Lengths) + bounds'.added
      BY <1>3, <1>4, <1>7, <2>1, <2>2, <2>4
    <2> QED BY <2>3, <2>4
  <1>10. PageTypes'
    BY <1>4, <1>8, <1>9 DEF PagesInv, PageTypes, Grow
  <1>11. ASSUME open # NoShelf PROVE Total \in Nat /\ Total' \in Nat /\ Total <= Total'
                                    /\ (open # t => Total' = Total)
    <2>1. open \in Shelves /\ open' = open
      BY <1>11 DEF PagesInv, PageStages, Grow
    <2>2. open # t => Total' = Total
      BY <1>7, <2>1 DEF Total
    <2>3. Total \in Nat
      BY <1>1, <2>1, OpenList
    <2>4. open = t => Total' = Total + 1
      BY <1>6, <2>1 DEF Total
    <2> QED BY <2>2, <2>3, <2>4
  <1>12. /\ state' = IF t = open THEN state \cup {"grown"} ELSE state
         /\ UNCHANGED <<kind, open, shown, offset, max, count, started>>
    BY DEF Grow
  <1>13. PageStages'
    <2>1. open # NoShelf /\ max \in Nat /\ max <= Total => max <= Total'
      BY <1>11
    <2>2. max \in Nat
      BY <1>1 DEF PageTypes
    <2> QED BY <1>11, <1>12, <2>1, <2>2 DEF PagesInv, PageStages, Bare
  <1>14. Tiled'
    <2>1. open # NoShelf => open \in Shelves
      BY DEF PagesInv, PageStages
    <2>2. Reached' = Reached /\ Skipped' = Skipped
      BY <1>12 DEF Reached, Skipped
    <2>3. open # NoShelf => FailuresTile' /\ RelatedTile'
      BY <1>12, <2>2 DEF PagesInv, Tiled, FailuresTile, RelatedTile
    <2>4. open # NoShelf => CorrelatedTile'
      <3>1. CASE t = open
        BY <1>12, <3>1 DEF CorrelatedTile
      <3>2. CASE t # open
        BY <1>7, <1>12, <2>1, <2>2, <3>2 DEF PagesInv, Tiled, CorrelatedTile
      <3> QED BY <3>1, <3>2
    <2> QED BY <1>12, <2>3, <2>4 DEF Tiled
  <1> QED BY <1>10, <1>13, <1>14 DEF PagesInv

\* A page of related charts has as many as it is to have, one of correlated ones
\* those of its places.
LEMMA PagesAre ==
    ASSUME PageTypes, open \in Shelves, NEW page \in Pages,
           NEW last, last = PageEnd(kind, offset, count, Total), last \in Nat
    PROVE  /\ page \subseteq Ids /\ IsFiniteSet(page)
           /\ kind = "related" => Cardinality(page) = last - offset
           /\ kind = "correlated" =>
                \A k \in 1..Total : list[open][k] \in page <=> offset + 1 <= k /\ k <= last
  <1>1. /\ Total \in Nat /\ list[open] \in Seq(Ids) /\ Numbered(list[open]) /\ offset \in Nat
        /\ \A k \in 1..Total : list[open][k] \in Ids
        /\ \A j, k \in 1..Total : list[open][j] = list[open][k] => j = k
    BY OpenList DEF PageTypes
  <1>2. CASE kind = "related"
    <2>1. page \in {s \in SUBSET Range(list[open]) : Cardinality(s) = last - offset}
      BY <1>2 DEF Pages, kSubset
    <2>2. Range(list[open]) \subseteq Ids
      BY <1>1, ChartsOfList
    <2>3. page \subseteq Ids
      BY <2>1, <2>2
    <2> QED BY <1>2, <2>1, <2>3, IdsAreFinite, FS_Subset
  <1>3. CASE kind = "correlated"
    <2>1. page = {list[open][k] : k \in offset + 1..Min({last, Total})}
      BY <1>3 DEF Pages
    <2>2. Min({last, Total}) = IF last <= Total THEN last ELSE Total
      BY <1>1, LesserIs
    <2>3. \A k : k \in offset + 1..Min({last, Total}) <=>
                   k \in 1..Total /\ offset + 1 <= k /\ k <= last
      BY <1>1, <2>2
    <2>4. page \subseteq Ids
      BY <1>1, <2>1, <2>3
    <2>5. ASSUME NEW k \in 1..Total
          PROVE  list[open][k] \in page <=> offset + 1 <= k /\ k <= last
      <3>1. list[open][k] \in page => k \in offset + 1..Min({last, Total})
        <4>1. ASSUME list[open][k] \in page PROVE k \in offset + 1..Min({last, Total})
          <5>1. PICK j \in offset + 1..Min({last, Total}) : list[open][k] = list[open][j]
            BY <2>1, <4>1
          <5>2. j = k
            BY <1>1, <2>3, <5>1
          <5> QED BY <5>1, <5>2
        <4> QED BY <4>1
      <3>2. k \in offset + 1..Min({last, Total}) => list[open][k] \in page
        BY <2>1
      <3> QED BY <2>3, <3>1, <3>2
    <2> QED BY <1>3, <2>4, <2>5, IdsAreFinite, FS_Subset
  <1>4. kind \in {"related", "correlated"}
    BY DEF PageTypes
  <1> QED BY <1>2, <1>3, <1>4

\* What an answer leaves, in general.
LEMMA AnswerTypes ==
    ASSUME PagesInv, Answer
    PROVE  /\ PageTypes' /\ Total' = Total
           /\ PageTypes /\ open \in Shelves /\ count > 0
           /\ Total \in Nat /\ count \in Nat /\ offset \in Nat /\ max \in Nat /\ started \in Nat
           /\ Most \in Nat /\ Most > 0
  <1>1. PageTypes /\ open \in Shelves /\ count > 0
    BY DEF PagesInv, PageStages, Answer
  <1>2. Total \in Nat /\ count \in Nat /\ offset \in Nat /\ max \in Nat /\ started \in Nat
    BY <1>1, OpenList DEF PageTypes
  <1>3. offset + count \in Nat
    BY <1>2
  <1>4. offset' \in Nat /\ max' \in Nat /\ kept' \in Nat
    BY <1>1, <1>2, <1>3 DEF PageTypes, Answer
  <1>5. shown' \in [Ids -> Nat]
    <2>1. PICK page : shown' = [i \in Ids |-> shown[i] + IF i \in page THEN 1 ELSE 0]
      BY DEF Answer
    <2>2. \A i \in Ids : shown[i] \in Nat
      BY <1>1 DEF PageTypes
    <2> QED BY <2>1, <2>2
  <1>6. PageTypes'
    BY <1>1, <1>4, <1>5 DEF PageTypes, Answer
  <1> QED BY <1>1, <1>2, <1>6, PagesAreBounded DEF Answer, Total

\* The first answer shows the first charts.
LEMMA FirstAnswer ==
    ASSUME PagesInv, Answer, Bare
    PROVE  PagesInv'
  <1>1. /\ PageTypes' /\ Total' = Total
        /\ PageTypes /\ open \in Shelves /\ count > 0
        /\ Total \in Nat /\ count \in Nat /\ offset \in Nat /\ max \in Nat /\ started \in Nat
        /\ Most \in Nat /\ Most > 0
    BY AnswerTypes
  <1>2. PICK last : last = PageEnd(kind, offset, count, Total)
    OBVIOUS
  <1>3. open # NoShelf /\ ~Refused(kind, offset, count, Total)
    BY DEF Answer
  <1>4. /\ offset = 0 /\ max = 0 /\ count = started /\ state \subseteq {"grown"}
        /\ ~(kind = "correlated" /\ Total = 0)
        /\ last = IF kind = "correlated" /\ count > Most THEN Most
                  ELSE IF count > Total THEN Total ELSE count
    BY <1>1, <1>2, <1>3, FirstRequest
  <1>5. last \in Nat
    BY <1>1, <1>4
  <1>6. PICK page \in Pages :
          /\ shown' = [i \in Ids |-> shown[i] + IF i \in page THEN 1 ELSE 0]
          /\ IF page = {} THEN UNCHANGED <<offset, max, kept>>
             ELSE max' = Total /\ offset' = offset + count /\ kept' = offset'
    BY DEF Answer
  <1>7. /\ page \subseteq Ids /\ IsFiniteSet(page)
        /\ kind = "related" => Cardinality(page) = last - offset
        /\ kind = "correlated" =>
             \A k \in 1..Total : list[open][k] \in page <=> offset + 1 <= k /\ k <= last
    BY <1>1, <1>2, <1>5, PagesAre
  <1>8. shown \in [Ids -> Nat] /\ \A i \in Ids : shown[i] = 0
    BY <1>1 DEF PageTypes, Bare
  <1>9. /\ UNCHANGED <<kind, list, open, state, started>> /\ count' = 0
    BY DEF Answer
  <1>10. page = {} <=> Total = 0
    <2>1. page = {} <=> Cardinality(page) = 0
      BY <1>7, FS_EmptySet
    <2>2. CASE kind = "related"
      BY <1>1, <1>4, <1>7, <2>1, <2>2
    <2>3. CASE kind = "correlated"
      <3>1. Total > 0 /\ 1 \in 1..Total /\ 1 <= last
        BY <1>1, <1>4, <2>3
      <3>2. list[open][1] \in page
        BY <1>4, <1>7, <2>3, <3>1
      <3> QED BY <3>1, <3>2
    <2> QED BY <1>1, <2>2, <2>3 DEF PageTypes
  <1>11. OnPage(shown') = Cardinality(page)
    <2>1. OnPage(shown) = 0 /\ page \in SUBSET Ids /\ shown' \in [Ids -> Nat]
      BY <1>1, <1>7, <1>8, ShownAddsUp DEF PageTypes
    <2>2. \A i \in Ids : shown'[i] = shown[i] + IF i \in page THEN 1 ELSE 0
      BY <1>6
    <2>3. OnPage(shown') = OnPage(shown) + Cardinality(page)
      BY <1>8, <2>1, <2>2, ShownAddsUp
    <2>4. Cardinality(page) \in Nat
      BY <1>7, FS_CardinalityType
    <2> QED BY <2>1, <2>3, <2>4
  <1>12. FailuresTile'
    BY <1>4, <1>9 DEF FailuresTile
  <1>13. CASE Total = 0
    <2>1. page = {} /\ offset' = 0 /\ max' = 0 /\ kind = "related"
      BY <1>1, <1>4, <1>6, <1>10, <1>13 DEF PageTypes
    <2>2. \A i \in Ids : shown'[i] = 0
      BY <1>6, <1>8, <2>1
    <2>3. PageStages'
      BY <1>1, <1>4, <1>9, <2>1, <2>2 DEF PageStages, Bare, PagesInv
    <2>4. Reached' = 0 /\ OnPage(shown') = 0
      <3>1. Min({0, 0}) = 0
        BY LesserIs
      <3> QED BY <1>11, <2>1, <3>1, FS_EmptySet DEF Reached
    <2>5. Tiled'
      BY <1>9, <1>12, <2>1, <2>4 DEF Tiled, RelatedTile, CorrelatedTile
    <2> QED BY <1>1, <2>3, <2>5 DEF PagesInv
  <1>14. CASE Total # 0
    <2>1. max' = Total /\ offset' = count /\ Total > 0
      BY <1>1, <1>4, <1>6, <1>10, <1>14
    <2>2. PageStages'
      BY <1>1, <1>4, <1>9, <2>1 DEF PageStages, PagesInv
    <2>3. Reached' = IF count <= Total THEN count ELSE Total
      <3>1. Min({count, Total}) = IF count <= Total THEN count ELSE Total
        BY <1>1, LesserIs
      <3> QED BY <2>1, <3>1 DEF Reached
    <2>4. RelatedTile'
      BY <1>1, <1>4, <1>7, <1>9, <1>11, <2>3 DEF RelatedTile
    <2>5. ASSUME kind = "correlated", NEW k \in 1..Total
          PROVE  shown'[list[open][k]] = IF k <= Reached' /\ k \notin Skipped' THEN 1 ELSE 0
      <3>1. list[open][k] \in Ids
        BY <1>1, OpenList
      <3>2. shown'[list[open][k]] = IF list[open][k] \in page THEN 1 ELSE 0
        BY <1>6, <1>8, <3>1
      <3>3. list[open][k] \in page <=> k <= last
        BY <1>4, <1>7, <2>5
      <3>4. Skipped' = IF count > Most THEN Most + 1..count ELSE {}
        BY <1>1, <1>4, <1>9, <2>1 DEF Skipped
      <3>5. k <= last <=> k <= Reached' /\ k \notin Skipped'
        BY <1>1, <1>4, <2>3, <2>5, <3>4
      <3> QED BY <3>2, <3>3, <3>5
    <2>6. DOMAIN list[open] = 1..Total
      BY <1>1, OpenList
    <2>7. CorrelatedTile'
      BY <1>9, <2>5, <2>6 DEF CorrelatedTile
    <2>8. Tiled'
      BY <1>12, <2>4, <2>7 DEF Tiled
    <2> QED BY <1>1, <2>2, <2>8 DEF PagesInv
  <1> QED BY <1>13, <1>14

\* A later answer shows the next ones.
LEMMA LaterAnswer ==
    ASSUME PagesInv, Answer, ~Bare
    PROVE  PagesInv'
  <1>1. /\ PageTypes' /\ Total' = Total
        /\ PageTypes /\ open \in Shelves /\ count > 0
        /\ Total \in Nat /\ count \in Nat /\ offset \in Nat /\ max \in Nat /\ started \in Nat
        /\ Most \in Nat /\ Most > 0
    BY AnswerTypes
  <1>2. open # NoShelf /\ Tiled
    BY DEF Answer, PagesInv
  <1>3. /\ PageEnd(kind, offset, count, Total) = offset + count
        /\ offset + count <= max /\ max <= Total
        /\ started > 0 /\ started <= offset /\ offset < max
        /\ ("grown" \notin state => max = Total) /\ state \subseteq {"grown"}
    BY <1>1, <1>2, LaterRequest
  <1>4. PICK last \in Nat : last = PageEnd(kind, offset, count, Total) /\ last = offset + count
    BY <1>1, <1>3
  <1>5. PICK page \in Pages :
          /\ shown' = [i \in Ids |-> shown[i] + IF i \in page THEN 1 ELSE 0]
          /\ IF page = {} THEN UNCHANGED <<offset, max, kept>>
             ELSE max' = Total /\ offset' = offset + count /\ kept' = offset'
    BY DEF Answer
  <1>6. /\ page \subseteq Ids /\ IsFiniteSet(page)
        /\ kind = "related" => Cardinality(page) = last - offset
        /\ kind = "correlated" =>
             \A k \in 1..Total : list[open][k] \in page <=> offset + 1 <= k /\ k <= last
    BY <1>1, <1>4, PagesAre
  <1>7. UNCHANGED <<kind, list, open, state, started>> /\ count' = 0
    BY DEF Answer
  <1>8. page # {}
    <2>1. CASE kind = "related"
      <3>1. Cardinality(page) > 0
        BY <1>1, <1>4, <1>6, <2>1
      <3> QED BY <3>1, FS_EmptySet
    <2>2. CASE kind = "correlated"
      <3>1. offset + 1 \in 1..Total /\ offset + 1 <= last
        BY <1>1, <1>3, <1>4
      <3> QED BY <1>6, <2>2, <3>1
    <2> QED BY <1>1, <2>1, <2>2 DEF PageTypes
  <1>9. max' = Total /\ offset' = last
    BY <1>4, <1>5, <1>8
  <1>10. Reached = offset /\ Reached' = last
    <2>1. Min({offset, max}) = offset /\ Min({last, Total}) = last
      BY <1>1, <1>3, <1>4, LesserIs
    <2> QED BY <1>9, <2>1 DEF Reached
  <1>11. PageStages'
    BY <1>1, <1>3, <1>4, <1>7, <1>9 DEF PageStages, PagesInv
  <1>12. FailuresTile'
    BY <1>3, <1>7 DEF FailuresTile
  <1>13. RelatedTile'
    <2>1. page \in SUBSET Ids /\ shown \in [Ids -> Nat] /\ shown' \in [Ids -> Nat]
      BY <1>1, <1>6 DEF PageTypes
    <2>2. \A i \in Ids : shown'[i] = shown[i] + IF i \in page THEN 1 ELSE 0
      BY <1>5
    <2>3. OnPage(shown') = OnPage(shown) + Cardinality(page)
      BY <2>1, <2>2, ShownAddsUp
    <2>4. kind = "related" => OnPage(shown) = offset
      BY <1>2, <1>10 DEF Tiled, RelatedTile
    <2>5. kind = "related" => OnPage(shown') = last
      BY <1>1, <1>4, <1>6, <2>3, <2>4
    <2> QED BY <1>7, <1>10, <2>5 DEF RelatedTile
  <1>14. ASSUME kind = "correlated", "grown" \notin state, NEW k \in 1..Total
         PROVE  shown'[list[open][k]] = IF k <= Reached' /\ k \notin Skipped' THEN 1 ELSE 0
    <2>1. list[open][k] \in Ids /\ DOMAIN list[open] = 1..Total
      BY <1>1, OpenList
    <2>2. shown[list[open][k]] = IF k <= offset /\ k \notin Skipped THEN 1 ELSE 0
      BY <1>2, <1>10, <1>14, <2>1 DEF Tiled, CorrelatedTile
    <2>3. shown'[list[open][k]] = shown[list[open][k]] + IF list[open][k] \in page THEN 1 ELSE 0
      BY <1>5, <2>1
    <2>4. list[open][k] \in page <=> offset + 1 <= k /\ k <= last
      BY <1>6, <1>14
    <2>5. Skipped' = Skipped /\ (k > offset => k \notin Skipped)
      BY <1>1, <1>3, <1>4, <1>7, <1>9 DEF Skipped
    <2>6. CASE k <= offset
      BY <1>1, <1>4, <1>10, <2>2, <2>3, <2>4, <2>5, <2>6
    <2>7. CASE k > offset
      BY <1>1, <1>4, <1>10, <2>2, <2>3, <2>4, <2>5, <2>7
    <2> QED BY <1>1, <2>6, <2>7
  <1>15. DOMAIN list[open] = 1..Total
    BY <1>1, OpenList
  <1>16. CorrelatedTile'
    BY <1>7, <1>14, <1>15 DEF CorrelatedTile
  <1>17. Tiled'
    BY <1>12, <1>13, <1>16 DEF Tiled
  <1> QED BY <1>1, <1>11, <1>17 DEF PagesInv

\* Every step of a page keeps what it is.
LEMMA PagingStep ==
    ASSUME PagesInv, [PagingNext]_pagingVars
    PROVE  PagesInv'
  <1>1. ASSUME NEW t \in Shelves, OpenTable(t) PROVE PagesInv'
    BY <1>1, OpenTableStep
  <1>2. ASSUME NEW t \in Shelves, Grow(t) PROVE PagesInv'
    BY <1>2, GrowStep
  <1>3. CASE ShowMore
    BY <1>3, ShowMoreStep
  <1>4. CASE Answer
    BY <1>4, FirstAnswer, LaterAnswer
  <1>5. CASE Refuse
    BY <1>5, RefuseStep
  <1>6. CASE Panicked
    BY <1>6, PanickedStep
  <1>7. CASE LateAnswer
    BY <1>7, LateAnswerStep
  <1>8. CASE UNCHANGED pagingVars
    <2>1. PageTypes' /\ PageStages'
      BY <1>8 DEF PagesInv, PageTypes, PageStages, Bare, Total, pagingVars
    <2>2. Tiled'
      BY <1>8, TiledStays DEF PagesInv, pagingVars
    <2> QED BY <2>1, <2>2 DEF PagesInv
  <1> QED BY <1>1, <1>2, <1>3, <1>4, <1>5, <1>6, <1>7, <1>8 DEF PagingNext

\* The pages of a list are what the browser shows of it: PagesTile, of lists of any
\* length and pages of any size, however often tables are opened, charts are added
\* and answers come late.
THEOREM PagesTileTheLists == PagingSpec => []PagesTile
  <1>1. PagingSpec => []PagesInv
    <2>1. PagingInit => PagesInv
      BY PagesBegin
    <2>2. PagesInv /\ [PagingNext]_pagingVars => PagesInv'
      BY PagingStep
    <2> QED BY <2>1, <2>2, PTL DEF PagingSpec
  <1>2. PagesInv => PagesTile
    BY TilesAreTiles DEF PagesInv
  <1> QED BY <1>1, <1>2, PTL

-----------------------------------------------------------------------------
(***************************************************************************)
(* AdminTable: the page shown is the one asked for.                        *)
(***************************************************************************)
\* a request for a page, as the browser and the handler have it
Asked(r) ==
    /\ r \in [id : {r.id}, offset : Nat, by : {r.by}, only : {r.only}, list : Seq(1..newest),
              count : Nat, stage : {"list", "count", "page", "error"}]
    /\ r.stage = "page" => r.offset <= Len(r.list)

\* a deletion, or an edit
Sent(d) == d \in [id : {d.id}, entry : 1..newest, result : {"none", "success", "error"}]

AdminTypes ==
    /\ screen \in {"observations", "users"} /\ newest \in Nat /\ entries \subseteq 1..newest
    /\ pageNumber \in Nat \ {0} /\ flaggedOnly \in BOOLEAN /\ pageTotal \in Nat
    /\ tableRows \in Seq(1..newest) /\ gone \subseteq 1..newest
    /\ \A r \in requests : Asked(r)
    /\ \A d \in submitted : Sent(d)

\* what was deleted here, or is about to be called so, does not come back
GoneInv ==
    /\ gone \cap entries = {}
    /\ \A d \in submitted : screen = "observations" /\ d.result = "success" => d.entry \notin entries

\* Users only come to be more, so that no page of theirs is asked for that starts
\* past the last.
InReach(r) ==
    /\ ~r.only /\ r.count <= Cardinality(entries)
    /\ r.offset = 0 \/ r.offset < Cardinality(entries)
    /\ r.stage \in {"count", "page"} => r.offset = 0 \/ r.offset < Len(r.list)

UsersInv ==
    screen = "users" =>
        /\ ~flaggedOnly /\ pageTotal <= Cardinality(entries)
        /\ pageNumber = 1 \/ (pageNumber - 1) * PerPage < Cardinality(entries)
        /\ \A r \in requests : InReach(r)

\* A request that met no other is the only one, for the page that the table is
\* empty for, and has found nothing that is gone.
Alone(r) ==
    /\ requests = {r} /\ r.offset = (pageNumber - 1) * PerPage
    /\ r.stage \in {"count", "page"} => \A k \in DOMAIN r.list : r.list[k] \notin gone

CleanInv == clean /\ requests # {} => tableRows = <<>> /\ \E r : Alone(r)

AdminInv == AdminTypes /\ GoneInv /\ UsersInv /\ CleanInv /\ PageIsTrue

\* The rows that a query finds, in order, are as many as there are.
LEMMA RowsAreSorted ==
    ASSUME AdminTypes, NEW r \in requests
    PROVE  /\ Sorted(r) \in Seq(Filtered(r)) /\ Len(Sorted(r)) = Cardinality(Filtered(r))
           /\ Cardinality(Filtered(r)) \in Nat /\ Cardinality(Filtered(r)) <= Cardinality(entries)
           /\ Filtered(r) \subseteq entries
  <1>1. IsFiniteSet(entries) /\ entries \subseteq Nat
    <2>1. 1 \in Int /\ newest \in Int /\ entries \subseteq 1..newest
      BY DEF AdminTypes
    <2>2. IsFiniteSet(1..newest)
      BY <2>1, FS_Interval
    <2>3. IsFiniteSet(entries)
      BY <2>1, <2>2, FS_Subset
    <2> QED BY <2>1, <2>3
  <1>2. Filtered(r) \subseteq entries
    BY DEF Filtered
  <1>3. /\ IsFiniteSet(Filtered(r)) /\ Filtered(r) \subseteq Nat
        /\ Cardinality(Filtered(r)) \in Nat /\ Cardinality(Filtered(r)) <= Cardinality(entries)
    BY <1>1, <1>2, FS_Subset, FS_CardinalityType
  <1> DEFINE found == Filtered(r)
             n == Cardinality(found)
             InOrder(s) == \A i, j \in DOMAIN s : i < j => IF r.by = "id" THEN s[i] < s[j] ELSE s[i] > s[j]
  <1>4. PICK s \in [1..n -> found] : \A i, j \in DOMAIN s : i < j => s[i] < s[j]
    BY <1>3, OrderExists
  <1>5. \E t \in [1..n -> found] : InOrder(t)
    <2>1. CASE r.by = "id"
      BY <1>4, <2>1
    <2>2. CASE r.by # "id"
      <3> HIDE DEF found, n
      <3> DEFINE t == [i \in 1..n |-> s[n + 1 - i]]
      <3>1. n \in Nat
        BY <1>3 DEF n, found
      <3>2. ASSUME NEW i \in 1..n PROVE n + 1 - i \in 1..n /\ s[n + 1 - i] \in found
        BY <1>4, <3>1
      <3>3. t \in [1..n -> found]
        BY <3>2
      <3>4. ASSUME NEW i \in 1..n, NEW j \in 1..n, i < j PROVE t[i] > t[j]
        <4>1. n + 1 - j < n + 1 - i /\ n + 1 - j \in DOMAIN s /\ n + 1 - i \in DOMAIN s
          BY <1>4, <3>1, <3>4
        <4>2. s[n + 1 - j] < s[n + 1 - i]
          BY <1>4, <4>1
        <4>3. s[n + 1 - i] \in Nat /\ s[n + 1 - j] \in Nat
          BY <1>3, <3>2 DEF found
        <4> QED BY <4>2, <4>3
      <3>5. DOMAIN t = 1..n
        OBVIOUS
      <3> HIDE DEF t
      <3>6. InOrder(t)
        BY <2>2, <3>4, <3>5
      <3> QED BY <3>3, <3>6
    <2> QED BY <2>1, <2>2
  <1>6. Sorted(r) = CHOOSE t \in [1..n -> found] : InOrder(t)
    BY DEF Sorted
  <1> HIDE DEF InOrder, found, n
  <1>7. Sorted(r) \in [1..n -> found] /\ n \in Nat
    BY <1>3, <1>5, <1>6 DEF n, found
  <1>8. Sorted(r) \in Seq(found) /\ Len(Sorted(r)) = n
    BY <1>7
  <1> QED BY <1>2, <1>3, <1>8 DEF found, n

\* A page has no more rows than fit on it, all from the list; it is empty only if
\* nothing of the list is left there.
LEMMA PageIsCut ==
    ASSUME NEW S, NEW s \in Seq(S), NEW o \in Nat, o <= Len(s)
    PROVE  /\ Cut(s, o) \in Seq(S) /\ Len(Cut(s, o)) <= PerPage
           /\ Cut(s, o) = SubSeq(s, o + 1, Min({o + PerPage, Len(s)}))
           /\ Cut(s, o) = <<>> => o = Len(s)
           /\ \A k \in DOMAIN Cut(s, o) : \E j \in DOMAIN s : Cut(s, o)[k] = s[j]
  <1>1. PICK n \in Nat : n = Len(s)
    OBVIOUS
  <1>2. PerPage \in Nat \ {0}
    BY AdminBounded
  <1>3. Min({o + PerPage, n}) = IF o + PerPage > n THEN n ELSE o + PerPage
    <2>1. Min({o + PerPage, n}) = IF o + PerPage <= n THEN o + PerPage ELSE n
      BY <1>1, <1>2, LesserIs
    <2> QED BY <1>1, <1>2, <2>1
  <1>4. PICK e \in Nat : e = IF o + PerPage > n THEN n ELSE o + PerPage
    <2>1. (IF o + PerPage > n THEN n ELSE o + PerPage) \in Nat
      BY <1>1, <1>2
    <2> QED BY <2>1
  <1>5. Cut(s, o) = SubSeq(s, o + 1, e)
    BY <1>1, <1>4 DEF Cut
  <1>6. o <= e /\ e <= n /\ e <= o + PerPage /\ (e = o => o = n)
    BY <1>1, <1>2, <1>4
  <1>7. /\ SubSeq(s, o + 1, e) \in Seq(S) /\ Len(SubSeq(s, o + 1, e)) = e - o
        /\ \A k \in 1..e - o : SubSeq(s, o + 1, e)[k] = s[o + k]
    <2>1. o + 1 \in Int /\ e \in Int /\ \A i \in o + 1..e : s[i] \in S
      BY <1>1, <1>6
    <2>2. /\ SubSeq(s, o + 1, e) \in Seq(S)
          /\ Len(SubSeq(s, o + 1, e)) = IF o + 1 <= e THEN e - (o + 1) + 1 ELSE 0
          /\ \A i \in 1..e - (o + 1) + 1 : SubSeq(s, o + 1, e)[i] = s[o + 1 + i - 1]
      BY <2>1, SubSeqProperties
    <2> QED BY <1>6, <2>2
  <1>8. \A k \in 1..e - o : o + k \in DOMAIN s
    BY <1>1, <1>6
  <1> DEFINE c == SubSeq(s, o + 1, e)
  <1> HIDE DEF c
  <1>9. DOMAIN c = 1..e - o /\ (c = <<>> => e - o = 0)
    <2>1. c \in Seq(S) /\ Len(c) = e - o
      BY <1>7 DEF c
    <2>2. DOMAIN c = 1..Len(c) /\ (c = <<>> => Len(c) = 0)
      BY <2>1
    <2> QED BY <2>1, <2>2
  <1>10. \A k \in DOMAIN c : \E j \in DOMAIN s : c[k] = s[j]
    BY <1>7, <1>8, <1>9 DEF c
  <1>11. Cut(s, o) = c /\ e = Min({o + PerPage, n}) /\ e - o <= PerPage
    BY <1>2, <1>3, <1>4, <1>5, <1>6 DEF c
  <1>12. c = <<>> => o = n
    BY <1>6, <1>9
  <1>13. c \in Seq(S) /\ Len(c) <= PerPage
    BY <1>7, <1>11 DEF c
  <1>14. c = SubSeq(s, o + 1, Min({o + PerPage, Len(s)}))
    BY <1>1, <1>11 DEF c
  <1>15. (c = <<>> => o = Len(s)) /\ \A k \in DOMAIN c : \E j \in DOMAIN s : c[k] = s[j]
    BY <1>1, <1>10, <1>12
  <1> QED BY <1>11, <1>13, <1>14, <1>15

\* Of a table that is not longer than a page, everything is on the screen.
LEMMA FirstOfTable ==
    ASSUME NEW S, NEW s \in Seq(S)
    PROVE  /\ SubSeq(s, 1, Min({PerPage, Len(s)})) \in Seq(S)
           /\ Len(s) <= PerPage => SubSeq(s, 1, Min({PerPage, Len(s)})) = s
  <1>1. PICK n \in Nat : n = Len(s)
    OBVIOUS
  <1>2. PerPage \in Nat \ {0}
    BY AdminBounded
  <1>3. Min({PerPage, n}) = IF PerPage <= n THEN PerPage ELSE n
    BY <1>1, <1>2, LesserIs
  <1>4. PICK e \in Nat : e = Min({PerPage, n}) /\ e <= n /\ (n <= PerPage => e = n)
    <2>1. Min({PerPage, n}) \in Nat /\ Min({PerPage, n}) <= n
      BY <1>1, <1>2, <1>3
    <2>2. n <= PerPage => Min({PerPage, n}) = n
      BY <1>1, <1>2, <1>3
    <2> QED BY <2>1, <2>2
  <1>5. SubSeq(s, 1, e) \in Seq(S)
    <2>1. e \in Nat /\ e <= n
      BY <1>4
    <2>2. 1 \in Int /\ e \in Int /\ \A i \in 1..e : s[i] \in S
      BY <1>1, <2>1
    <2> QED BY <2>2, SubSeqProperties
  <1>6. SubSeq(s, 1, n) = s
    BY <1>1
  <1> QED BY <1>1, <1>4, <1>5, <1>6

\* A sequence of a part is one of the whole.
LEMMA SeqWidens ==
    ASSUME NEW S, NEW T, S \subseteq T, NEW s \in Seq(S)
    PROVE  s \in Seq(T)
  OBVIOUS

\* How many rows there are is a number.
LEMMA RowsAreFinite ==
    ASSUME AdminTypes
    PROVE  IsFiniteSet(entries) /\ Cardinality(entries) \in Nat
  <1>1. 1 \in Int /\ newest \in Int /\ entries \subseteq 1..newest
    BY DEF AdminTypes
  <1>2. IsFiniteSet(1..newest)
    BY <1>1, FS_Interval
  <1>3. IsFiniteSet(entries)
    BY <1>1, <1>2, FS_Subset
  <1> QED BY <1>3, FS_CardinalityType

\* What a request for a page finds when it is asked.
LEMMA UpdateKeeps ==
    ASSUME AdminTypes, NEW number \in Nat \ {0}, NEW by, NEW only \in BOOLEAN,
           NEW others \in SUBSET requests, Update(number, by, only, others), UNCHANGED newest
    PROVE  /\ pageNumber' = number /\ flaggedOnly' = only /\ tableRows' \in Seq(1..newest')
           /\ requests' = others \cup {Request(others, number, by, only)}
           /\ Asked(Request(others, number, by, only))
           /\ \A r \in requests' \ others : /\ r.only = only /\ r.count = 0 /\ r.stage = "list"
                                          /\ r.offset = (number - 1) * PerPage
           /\ CleanInv' /\ PageIsTrue'
  <1> DEFINE asked == Request(others, number, by, only)
  <1>1. /\ pageNumber' = number /\ flaggedOnly' = only /\ tableRows' = <<>>
        /\ requests' = others \cup {asked} /\ clean' = (others = {})
    BY DEF Update
  <1>2. (number - 1) * PerPage \in Nat
    <2>1. number - 1 \in Nat /\ PerPage \in Nat
      BY AdminBounded
    <2> QED BY <2>1, Multiples
  <1>3. /\ asked.only = only /\ asked.count = 0 /\ asked.stage = "list"
        /\ asked.offset = (number - 1) * PerPage
    BY DEF Request
  <1>4. Asked(asked)
    <2>1. asked = [id |-> Unused(others), offset |-> (number - 1) * PerPage, by |-> by,
                 only |-> only, list |-> <<>>, count |-> 0, stage |-> "list"]
      BY DEF Request
    <2>2. <<>> \in Seq(1..newest) /\ 0 \in Nat
      OBVIOUS
    <2> HIDE DEF asked
    <2>3. asked \in [id : {asked.id}, offset : Nat, by : {asked.by}, only : {asked.only}, list : Seq(1..newest),
                   count : Nat, stage : {"list", "count", "page", "error"}]
      BY <1>2, <2>1, <2>2
    <2> QED BY <1>3, <2>3 DEF Asked
  <1> HIDE DEF asked
  <1>6. CleanInv'
    <2>1. others = {} => Alone(asked)'
      BY <1>1, <1>3 DEF Alone
    <2> QED BY <1>1, <2>1 DEF CleanInv
  <1>7. PageIsTrue'
    BY <1>1 DEF PageIsTrue
  <1>8. tableRows' \in Seq(1..newest')
    BY <1>1
  <1> QED BY <1>1, <1>3, <1>4, <1>6, <1>7, <1>8 DEF asked

\* A request that asks for a page of users that there is keeps that there is one.
LEMMA UpdateKeepsUsers ==
    ASSUME AdminTypes, UsersInv, NEW number \in Nat \ {0}, NEW by, NEW only \in BOOLEAN,
           NEW others \in SUBSET requests, Update(number, by, only, others),
           UNCHANGED <<newest, screen, entries>>,
           screen = "users" => /\ ~only /\ pageTotal' <= Cardinality(entries)
                               /\ number = 1 \/ (number - 1) * PerPage < Cardinality(entries)
    PROVE  UsersInv'
  <1> SUFFICES ASSUME screen = "users" PROVE UsersInv'
    BY DEF UsersInv
  <1>1. /\ pageNumber' = number /\ flaggedOnly' = only
        /\ \A r \in requests' \ others : /\ r.only = only /\ r.count = 0 /\ r.stage = "list"
                                       /\ r.offset = (number - 1) * PerPage
    <2>1. newest' = newest
      OBVIOUS
    <2> QED BY <2>1, UpdateKeeps
  <1>2. Cardinality(entries) \in Nat
    BY RowsAreFinite
  <1>3. number = 1 => (number - 1) * PerPage = 0
    BY AdminBounded, SMT
  <1>4. ASSUME NEW r \in requests' PROVE InReach(r)'
    <2>1. CASE r \in others
      BY <2>1 DEF UsersInv, InReach
    <2>2. CASE r \notin others
      BY <1>1, <1>2, <1>3, <2>2 DEF InReach
    <2> QED BY <2>1, <2>2
  <1> QED BY <1>1, <1>4 DEF UsersInv

\* A step of the handler of a request changes that request alone.
LEMMA HandlerStep ==
    ASSUME AdminInv, NEW r \in requests, NEW s, Becomes(r, s), SameScreen,
           UNCHANGED <<entries, newest, submitted>>, Asked(s), s.offset = r.offset,
           screen = "users" => InReach(s),
           s.stage \in {"count", "page"} =>
             \A k \in DOMAIN s.list : \/ s.list[k] \in entries
                                      \/ r.stage = "count" /\ s.list = r.list
    PROVE  AdminInv'
  <1>1. /\ requests' = (requests \ {r}) \cup {s}
        /\ UNCHANGED <<screen, pageNumber, orderBy, flaggedOnly, pageTotal, tableRows, clean, reply, gone>>
    BY DEF Becomes, SameScreen, query
  <1>2. AdminTypes'
    BY <1>1 DEF AdminInv, AdminTypes, Asked, Sent
  <1>3. GoneInv'
    BY <1>1 DEF AdminInv, GoneInv
  <1>4. UsersInv'
    BY <1>1 DEF AdminInv, UsersInv, InReach
  <1>5. ASSUME clean PROVE tableRows = <<>> /\ Alone(s)'
    <2>1. tableRows = <<>>
      BY <1>5 DEF AdminInv, CleanInv
    <2>2. PICK q : Alone(q)
      BY <1>5 DEF AdminInv, CleanInv
    <2>3. q = r
      BY <2>2 DEF Alone
    <2>4. requests' = {s}
      BY <1>1, <2>2, <2>3 DEF Alone
    <2>5. ASSUME s.stage \in {"count", "page"}, NEW k \in DOMAIN s.list PROVE s.list[k] \notin gone
      BY <2>2, <2>3, <2>5 DEF Alone, AdminInv, GoneInv
    <2> QED BY <1>1, <2>1, <2>2, <2>3, <2>4, <2>5 DEF Alone
  <1>6. CleanInv'
    BY <1>1, <1>5 DEF CleanInv
  <1>7. PageIsTrue'
    BY <1>1 DEF PageIsTrue
  <1> QED BY <1>2, <1>3, <1>4, <1>6, <1>7 DEF AdminInv

\* The list is of rows that are there.
LEMMA ReadListStep ==
    ASSUME AdminInv, NEW r \in requests, ReadList(r)
    PROVE  AdminInv'
  <1> DEFINE s == [r EXCEPT !.list = Sorted(r), !.stage = "count"]
  <1>1. AdminTypes /\ Asked(r)
    BY DEF AdminInv, AdminTypes
  <1>2. /\ Sorted(r) \in Seq(Filtered(r)) /\ Len(Sorted(r)) = Cardinality(Filtered(r))
        /\ Filtered(r) \subseteq entries
    BY <1>1, RowsAreSorted
  <1>3. PICK rows1 : rows1 = Sorted(r)
    OBVIOUS
  <1>4. rows1 \in Seq(1..newest) /\ \A k \in DOMAIN rows1 : rows1[k] \in entries
    <2>1. rows1 \in Seq(Filtered(r)) /\ Filtered(r) \subseteq 1..newest
      BY <1>1, <1>2, <1>3 DEF AdminTypes
    <2>2. \A k \in 1..Len(rows1) : rows1[k] \in entries /\ rows1[k] \in 1..newest
      BY <1>2, <2>1
    <2>3. rows1 \in Seq(1..newest)
      BY <2>1, SeqWidens
    <2>4. DOMAIN rows1 = 1..Len(rows1)
      BY <2>1
    <2> QED BY <2>2, <2>3, <2>4
  <1>5. /\ s.list = rows1 /\ s.stage = "count" /\ s.offset = r.offset /\ s.count = r.count
        /\ s.only = r.only
        /\ s \in [id : {s.id}, offset : Nat, by : {s.by}, only : {s.only}, list : Seq(1..newest),
                  count : Nat, stage : {"list", "count", "page", "error"}]
    BY <1>1, <1>3, <1>4 DEF Asked
  <1>6. Becomes(r, s) /\ SameScreen /\ UNCHANGED <<entries, newest, submitted>>
    BY DEF ReadList
  <1> HIDE DEF s
  <1>7. Asked(s)
    BY <1>5 DEF Asked
  <1>8. screen = "users" => InReach(s)
    <2>1. screen = "users" => InReach(r) /\ Filtered(r) = entries
      BY DEF AdminInv, UsersInv, InReach, Filtered
    <2>2. screen = "users" => Len(rows1) = Cardinality(entries)
      BY <1>2, <1>3, <2>1
    <2> QED BY <1>5, <2>1, <2>2 DEF InReach
  <1> QED BY <1>4, <1>5, <1>6, <1>7, <1>8, HandlerStep

\* A query that fails leaves nothing of the page.
LEMMA ListFailsStep ==
    ASSUME AdminInv, NEW r \in requests, ListFails(r)
    PROVE  AdminInv'
  <1> DEFINE s == [r EXCEPT !.stage = "error"]
  <1>1. Asked(r)
    BY DEF AdminInv, AdminTypes
  <1>2. /\ s.stage = "error" /\ s.offset = r.offset /\ s.count = r.count /\ s.only = r.only
        /\ s \in [id : {s.id}, offset : Nat, by : {s.by}, only : {s.only}, list : Seq(1..newest),
                  count : Nat, stage : {"list", "count", "page", "error"}]
    BY <1>1 DEF Asked
  <1>3. Becomes(r, s) /\ SameScreen /\ UNCHANGED <<entries, newest, submitted>>
    BY DEF ListFails
  <1> HIDE DEF s
  <1>4. Asked(s)
    BY <1>2 DEF Asked
  <1>5. screen = "users" => InReach(s)
    BY <1>2 DEF AdminInv, UsersInv, InReach
  <1> QED BY <1>2, <1>3, <1>4, <1>5, HandlerStep

\* A page starts in its list, or is answered with an error.
LEMMA ReadCountStep ==
    ASSUME AdminInv, NEW r \in requests, ReadCount(r)
    PROVE  AdminInv'
  <1>1. AdminTypes /\ Asked(r) /\ r.stage = "count" /\ Cardinality(Filtered(r)) \in Nat
        /\ Cardinality(Filtered(r)) <= Cardinality(entries)
    BY RowsAreSorted DEF AdminInv, AdminTypes, ReadCount
  <1> DEFINE end == IF r.offset > Len(r.list) THEN "error" ELSE "page"
  <1>0. PICK st : st = end
    OBVIOUS
  <1>2. PICK n \in {r.count, Cardinality(Filtered(r))} : Becomes(r, [r EXCEPT !.count = n, !.stage = st])
    <2>1. [r EXCEPT !.stage = st] = [r EXCEPT !.count = r.count, !.stage = st]
      BY <1>1 DEF Asked
    <2>2. \/ Becomes(r, [r EXCEPT !.count = Cardinality(Filtered(r)), !.stage = st])
          \/ Becomes(r, [r EXCEPT !.stage = st])
      BY <1>0 DEF ReadCount
    <2>3. \/ Becomes(r, [r EXCEPT !.count = Cardinality(Filtered(r)), !.stage = st])
          \/ Becomes(r, [r EXCEPT !.count = r.count, !.stage = st])
      BY <2>1, <2>2
    <2> QED BY <2>3, Zenon
  <1>3. n \in Nat /\ st \in {"error", "page"} /\ r.list \in Seq(1..newest) /\ r.offset \in Nat
    BY <1>0, <1>1, <1>2 DEF Asked
  <1>4. st = "page" => r.offset <= Len(r.list)
    BY <1>0, <1>3
  <1> DEFINE s == [r EXCEPT !.count = n, !.stage = st]
  <1>5. /\ s.stage = st /\ s.offset = r.offset /\ s.count = n /\ s.only = r.only /\ s.list = r.list
        /\ s \in [id : {s.id}, offset : Nat, by : {s.by}, only : {s.only}, list : Seq(1..newest),
                  count : Nat, stage : {"list", "count", "page", "error"}]
    BY <1>1, <1>3 DEF Asked
  <1>6. Becomes(r, s) /\ SameScreen /\ UNCHANGED <<entries, newest, submitted>>
    BY <1>2 DEF ReadCount
  <1> HIDE DEF s
  <1>7. Asked(s)
    BY <1>4, <1>5 DEF Asked
  <1>8. screen = "users" => InReach(s)
    <2>1. screen = "users" => InReach(r)
      BY DEF AdminInv, UsersInv
    <2> QED BY <1>1, <1>2, <1>5, <2>1 DEF InReach
  <1> QED BY <1>1, <1>5, <1>6, <1>7, <1>8, HandlerStep

\* What is asked for stays what it is while there come to be more rows.
LEMMA MoreAreTyped ==
    ASSUME AdminTypes, newest' \in Nat, newest <= newest'
    PROVE  /\ 1..newest \subseteq 1..newest' /\ gone \subseteq 1..newest' /\ tableRows \in Seq(1..newest')
           /\ \A r \in requests : Asked(r)'
           /\ \A d \in submitted : Sent(d)'
  <1>1. 1..newest \subseteq 1..newest'
    BY DEF AdminTypes
  <1>2. tableRows \in Seq(1..newest')
    BY <1>1, SeqWidens DEF AdminTypes
  <1>3. ASSUME NEW r \in requests PROVE Asked(r)'
    <2>1. Asked(r) /\ r.list \in Seq(1..newest)
      BY DEF AdminTypes, Asked
    <2>2. r.list \in Seq(1..newest')
      BY <1>1, <2>1, SeqWidens
    <2> QED BY <2>1, <2>2 DEF Asked
  <1>4. ASSUME NEW d \in submitted PROVE Sent(d)'
    BY <1>1 DEF AdminTypes, Sent
  <1> QED BY <1>1, <1>2, <1>3, <1>4 DEF AdminTypes

\* A deletion leaves what was found before, of users there are none.
LEMMA CarryStep ==
    ASSUME AdminInv, NEW d \in submitted, Carry(d)
    PROVE  AdminInv'
  <1>1. UNCHANGED <<screen, pageNumber, orderBy, flaggedOnly, pageTotal, tableRows, clean, reply, gone,
                    newest, requests>>
    BY DEF Carry, SameScreen, query
  <1>2. AdminTypes /\ Sent(d)
    BY DEF AdminInv, AdminTypes
  <1>3. entries' \subseteq entries /\ (screen = "users" => entries' = entries)
    BY <1>2 DEF Carry, AdminTypes
  <1>4. PICK result \in {"success", "error"} :
          /\ submitted' = (submitted \ {d}) \cup {[d EXCEPT !.result = result]}
          /\ screen = "observations" /\ result = "success" => d.entry \notin entries'
    BY DEF Carry, Settles
  <1>5. PICK e : e = [d EXCEPT !.result = result]
    OBVIOUS
  <1>6. e.entry = d.entry /\ e.result = result /\ Sent(e)
    BY <1>2, <1>5 DEF Sent
  <1>7. AdminTypes'
    BY <1>1, <1>2, <1>3, <1>4, <1>5, <1>6 DEF AdminTypes, Asked, Sent
  <1>8. GoneInv'
    BY <1>1, <1>3, <1>4, <1>5, <1>6 DEF AdminInv, GoneInv
  <1>9. UsersInv'
    BY <1>1, <1>3 DEF AdminInv, UsersInv, InReach
  <1>10. CleanInv' /\ PageIsTrue'
    BY <1>1 DEF AdminInv, CleanInv, Alone, PageIsTrue, OnScreen
  <1> QED BY <1>7, <1>8, <1>9, <1>10 DEF AdminInv

\* A new row has a number that no row had, and others may go.
LEMMA ChangeStep ==
    ASSUME AdminInv, NEW n \in Nat, Change(n)
    PROVE  AdminInv'
  <1>1. UNCHANGED <<screen, pageNumber, orderBy, flaggedOnly, pageTotal, tableRows, clean, reply, gone,
                    requests, submitted>>
    BY DEF Change, SameScreen, query
  <1>2. AdminTypes /\ newest \in Nat
    BY DEF AdminInv, AdminTypes
  <1>3. \/ newest' = newest + 1 /\ entries' = entries \cup {newest + 1}
        \/ newest' = newest /\ entries' \subseteq entries /\ screen = "observations"
    BY DEF Change
  <1>4. newest' \in Nat /\ newest <= newest' /\ entries' \subseteq 1..newest'
    <2>1. entries \subseteq 1..newest
      BY <1>2 DEF AdminTypes
    <2>2. CASE newest' = newest + 1 /\ entries' = entries \cup {newest + 1}
      <3>1. 1..newest \subseteq 1..newest + 1 /\ newest + 1 \in 1..newest + 1
        BY <1>2
      <3> QED BY <1>2, <2>1, <2>2, <3>1
    <2>3. CASE newest' = newest /\ entries' \subseteq entries
      BY <1>2, <2>1, <2>3
    <2> QED BY <1>3, <2>2, <2>3
  <1>5. AdminTypes'
    <2>1. /\ gone' \subseteq 1..newest' /\ tableRows' \in Seq(1..newest')
          /\ \A r \in requests : Asked(r)'
          /\ \A d \in submitted : Sent(d)'
      BY <1>1, <1>2, <1>4, MoreAreTyped
    <2> QED BY <1>1, <1>2, <1>4, <2>1 DEF AdminTypes
  <1>6. ASSUME NEW e \in 1..newest, e \notin entries PROVE e \notin entries'
    <2>1. e # newest + 1
      BY <1>2
    <2> QED BY <1>3, <1>6, <2>1
  <1>7. GoneInv'
    <2>1. gone' \cap entries' = {}
      BY <1>1, <1>2, <1>6 DEF AdminInv, GoneInv, AdminTypes
    <2>2. ASSUME NEW d \in submitted, screen = "observations", d.result = "success"
          PROVE  d.entry \notin entries'
      <3>1. d.entry \in 1..newest /\ d.entry \notin entries
        BY <1>2, <2>2 DEF AdminInv, GoneInv, AdminTypes, Sent
      <3> QED BY <1>6, <3>1
    <2> QED BY <1>1, <2>1, <2>2 DEF GoneInv
  <1>8. UsersInv'
    <2> SUFFICES ASSUME screen = "users" PROVE UsersInv'
      BY <1>1 DEF UsersInv
    <2>1. entries \subseteq entries' /\ IsFiniteSet(entries')
      <3>1. newest' \in Int /\ 1 \in Int
        BY <1>4
      <3>2. IsFiniteSet(1..newest')
        BY <3>1, FS_Interval
      <3>3. IsFiniteSet(entries')
        BY <1>4, <3>2, FS_Subset
      <3> QED BY <1>3, <3>3
    <2>2. Cardinality(entries) <= Cardinality(entries')
      BY <2>1, FS_Subset
    <2>3. Cardinality(entries) \in Nat /\ Cardinality(entries') \in Nat
      BY <1>2, <2>1, RowsAreFinite, FS_CardinalityType
    <2>4. (pageNumber - 1) * PerPage \in Nat /\ pageTotal \in Nat
      <3>1. pageNumber - 1 \in Nat /\ PerPage \in Nat
        BY <1>2, AdminBounded DEF AdminTypes
      <3> QED BY <1>2, <3>1, Multiples DEF AdminTypes
    <2>5. ASSUME NEW r \in requests PROVE InReach(r)'
      <3>1. Asked(r) /\ r.offset \in Nat /\ r.count \in Nat /\ InReach(r)
        BY <1>2 DEF AdminTypes, Asked, AdminInv, UsersInv
      <3> QED BY <2>2, <2>3, <3>1 DEF InReach
    <2> QED BY <1>1, <2>2, <2>3, <2>4, <2>5 DEF AdminInv, UsersInv
  <1>9. CleanInv' /\ PageIsTrue'
    BY <1>1 DEF AdminInv, CleanInv, Alone, PageIsTrue, OnScreen
  <1> QED BY <1>5, <1>7, <1>8, <1>9 DEF AdminInv

\* A click that asks for a page.
LEMMA AskingStep ==
    ASSUME AdminInv, NEW number \in Nat \ {0}, NEW by, NEW only \in BOOLEAN,
           NEW others \in SUBSET requests, Update(number, by, only, others),
           UNCHANGED <<screen, entries, newest>>,
           screen = "users" => /\ ~only /\ pageTotal' <= Cardinality(entries)
                               /\ number = 1 \/ (number - 1) * PerPage < Cardinality(entries),
           pageTotal' \in Nat, submitted' \subseteq submitted,
           gone' \subseteq gone \cup {d.entry : d \in {e \in submitted : e.result = "success"}},
           gone' \subseteq gone \/ screen = "observations"
    PROVE  AdminInv'
  <1>1. AdminTypes /\ UsersInv /\ GoneInv /\ newest' = newest
    BY DEF AdminInv
  <1>2. /\ pageNumber' = number /\ flaggedOnly' = only /\ tableRows' \in Seq(1..newest')
        /\ requests' = others \cup {Request(others, number, by, only)}
        /\ Asked(Request(others, number, by, only))
        /\ CleanInv' /\ PageIsTrue'
    BY <1>1, UpdateKeeps
  <1>3. UsersInv'
    BY <1>1, UpdateKeepsUsers
  <1>4. gone' \subseteq 1..newest
    BY <1>1 DEF AdminTypes, Sent
  <1>5. AdminTypes'
    BY <1>1, <1>2, <1>4 DEF AdminTypes, Asked, Sent
  <1>6. GoneInv'
    BY <1>1 DEF GoneInv
  <1> QED BY <1>2, <1>3, <1>5, <1>6 DEF AdminInv

\* Only pages that the table is known to have are asked for.
LEMMA ChangePageStep ==
    ASSUME AdminInv, NEW number \in Nat, ChangePage(number)
    PROVE  AdminInv'
  <1>1. /\ number \in 1..TotalPages /\ Update(number, orderBy, flaggedOnly, requests)
        /\ UNCHANGED <<screen, entries, newest, pageTotal, submitted, gone>>
    BY DEF ChangePage
  <1>2. AdminTypes /\ pageTotal \in Nat /\ flaggedOnly \in BOOLEAN
    BY DEF AdminInv, AdminTypes
  <1>3. number \in Nat \ {0} /\ number <= TotalPages
    BY <1>1
  <1>4. (number - 1) * PerPage < pageTotal /\ (number - 1) * PerPage \in Nat
    <2>1. PerPage \in Nat \ {0} /\ number - 1 \in Nat /\ pageTotal + PerPage - 1 \in Nat
      BY <1>2, <1>3, AdminBounded
    <2>2. TotalPages \in Nat /\ TotalPages * PerPage <= pageTotal + PerPage - 1
      BY <2>1, Division DEF TotalPages
    <2>3. number - 1 < TotalPages
      BY <1>3, <2>2
    <2>4. (number - 1) * PerPage + PerPage <= TotalPages * PerPage /\ (number - 1) * PerPage \in Nat
      BY <2>1, <2>2, <2>3, Multiples
    <2>5. TotalPages * PerPage \in Nat
      BY <2>1, <2>2, Multiples
    <2> QED BY <1>2, <2>1, <2>2, <2>4, <2>5
  <1>5. screen = "users" => /\ ~flaggedOnly /\ pageTotal <= Cardinality(entries)
                            /\ (number - 1) * PerPage < Cardinality(entries)
    <2>1. Cardinality(entries) \in Nat
      BY <1>2, RowsAreFinite
    <2> QED BY <1>2, <1>4, <2>1 DEF AdminInv, UsersInv
  <1> QED BY <1>1, <1>2, <1>3, <1>5, AskingStep

\* The other clicks ask for the page that is open, or for the first one.
LEMMA ClickSteps ==
    ASSUME AdminInv, (\E only \in BOOLEAN : SetFilter(only)) \/ (\E by \in {"id", "other"} : OrderBy(by))
    PROVE  AdminInv'
  <1>1. AdminTypes /\ pageTotal \in Nat /\ flaggedOnly \in BOOLEAN /\ pageNumber \in Nat \ {0}
    BY DEF AdminInv, AdminTypes
  <1>2. screen = "users" => ~flaggedOnly /\ pageTotal <= Cardinality(entries)
    BY DEF AdminInv, UsersInv
  <1>3. ASSUME NEW only \in BOOLEAN, SetFilter(only) PROVE AdminInv'
    <2>1. /\ screen # "users" /\ Update(pageNumber, orderBy, only, requests)
          /\ UNCHANGED <<screen, entries, newest, pageTotal, submitted, gone>>
      BY <1>3 DEF SetFilter
    <2> QED BY <1>1, <2>1, AskingStep
  <1>4. ASSUME NEW by \in {"id", "other"}, OrderBy(by) PROVE AdminInv'
    <2>1. /\ Update(1, by, flaggedOnly, requests)
          /\ UNCHANGED <<screen, entries, newest, pageTotal, submitted, gone>>
      BY <1>4 DEF OrderBy
    <2> QED BY <1>1, <1>2, <2>1, AskingStep
  <1> QED BY <1>3, <1>4

\* A dialog is of a row that was on the screen.
LEMMA SubmitStep ==
    ASSUME AdminInv, NEW n, Submit(n)
    PROVE  AdminInv'
  <1>1. /\ submitted' = submitted \cup {[id |-> Unused(submitted), entry |-> n, result |-> "none"]}
        /\ UNCHANGED <<screen, entries, newest, pageNumber, orderBy, flaggedOnly, pageTotal, tableRows,
                       requests, clean, reply, gone>>
    BY DEF Submit, query
  <1>2. AdminTypes /\ tableRows \in Seq(1..newest)
    BY DEF AdminInv, AdminTypes
  <1>3. n \in 1..newest
    <2>1. ASSUME NEW k \in DOMAIN OnScreen, OnScreen[k] = n PROVE n \in 1..newest
      <3>1. OnScreen \in Seq(1..newest)
        BY <1>2, FirstOfTable DEF OnScreen
      <3>2. k \in 1..Len(OnScreen)
        BY <2>1, <3>1
      <3>3. OnScreen[k] \in 1..newest
        BY <3>1, <3>2, ElementOfSeq
      <3> QED BY <2>1, <3>3
    <2>2. ASSUME NEW d \in submitted, d.entry = n PROVE n \in 1..newest
      BY <1>2, <2>2 DEF AdminTypes, Sent
    <2> QED BY <2>1, <2>2 DEF Submit
  <1>4. PICK d : d = [id |-> Unused(submitted), entry |-> n, result |-> "none"]
    OBVIOUS
  <1>5. Sent(d) /\ d.result = "none"
    BY <1>3, <1>4 DEF Sent
  <1>6. AdminTypes'
    BY <1>1, <1>2, <1>4, <1>5 DEF AdminTypes, Asked, Sent
  <1>7. GoneInv'
    BY <1>1, <1>4, <1>5 DEF AdminInv, GoneInv
  <1>8. UsersInv' /\ CleanInv' /\ PageIsTrue'
    BY <1>1 DEF AdminInv, UsersInv, InReach, CleanInv, Alone, PageIsTrue, OnScreen
  <1> QED BY <1>6, <1>7, <1>8 DEF AdminInv

\* What is said to be deleted is.
LEMMA SubmittedStep ==
    ASSUME AdminInv, NEW d \in submitted, Submitted(d)
    PROVE  AdminInv'
  <1>1. /\ d.result = "success" /\ submitted' = submitted \ {d}
        /\ Update(pageNumber, orderBy, flaggedOnly, requests)
        /\ gone' = IF screen = "observations" THEN gone \cup {d.entry} ELSE gone
        /\ UNCHANGED <<screen, entries, newest, pageTotal>>
    BY DEF Submitted
  <1>2. AdminTypes /\ pageTotal \in Nat /\ flaggedOnly \in BOOLEAN /\ pageNumber \in Nat \ {0}
    BY DEF AdminInv, AdminTypes
  <1>3. screen = "users" => /\ ~flaggedOnly /\ pageTotal <= Cardinality(entries)
                            /\ pageNumber = 1 \/ (pageNumber - 1) * PerPage < Cardinality(entries)
    BY DEF AdminInv, UsersInv
  <1>4. gone' \subseteq gone \cup {e.entry : e \in {f \in submitted : f.result = "success"}}
    BY <1>1
  <1>5. gone' \subseteq gone \/ screen = "observations"
    BY <1>1
  <1> QED BY <1>1, <1>2, <1>3, <1>4, <1>5, AskingStep

\* A deletion that failed leaves everything.
LEMMA SubmitFailsStep ==
    ASSUME AdminInv, NEW d \in submitted, SubmitFails(d)
    PROVE  AdminInv'
  <1>1. /\ submitted' = submitted \ {d}
        /\ UNCHANGED <<screen, entries, newest, pageNumber, orderBy, flaggedOnly, pageTotal, tableRows,
                       requests, clean, reply, gone>>
    BY DEF SubmitFails, query
  <1>2. AdminTypes' /\ GoneInv'
    BY <1>1 DEF AdminInv, AdminTypes, Asked, Sent, GoneInv
  <1>3. UsersInv' /\ CleanInv' /\ PageIsTrue'
    BY <1>1 DEF AdminInv, UsersInv, InReach, CleanInv, Alone, PageIsTrue, OnScreen
  <1> QED BY <1>2, <1>3 DEF AdminInv

\* The page of the only request, once it is shown.
LEMMA PageShown ==
    ASSUME AdminInv, NEW r \in requests, r.stage = "page", Alone(r), tableRows = <<>>,
           NEW c, c = Cut(r.list, r.offset), r.count # 0 => ~Reverts(c),
           tableRows' = IF r.count # 0 THEN tableRows \o c ELSE tableRows,
           reply' = [ok |-> TRUE, list |-> r.list, count |-> r.count],
           UNCHANGED <<screen, pageNumber, gone>>
    PROVE  PageIsTrue'
  <1>1. /\ Asked(r) /\ r.list \in Seq(1..newest) /\ r.offset \in Nat /\ r.offset <= Len(r.list)
        /\ r.offset = (pageNumber - 1) * PerPage /\ pageNumber \in Nat \ {0}
        /\ screen \in {"observations", "users"}
    BY DEF AdminInv, AdminTypes, Asked, Alone
  <1>2. PerPage \in Nat \ {0}
    BY AdminBounded
  <1>3. /\ c \in Seq(1..newest) /\ Len(c) <= PerPage
        /\ c = SubSeq(r.list, r.offset + 1, Min({r.offset + PerPage, Len(r.list)}))
        /\ c = <<>> => r.offset = Len(r.list)
        /\ \A k \in DOMAIN c : \E j \in DOMAIN r.list : c[k] = r.list[j]
    <2>1. PICK s \in Seq(1..newest), o \in Nat : s = r.list /\ o = r.offset /\ o <= Len(s)
      BY <1>1
    <2>2. /\ Cut(s, o) \in Seq(1..newest) /\ Len(Cut(s, o)) <= PerPage
          /\ Cut(s, o) = SubSeq(s, o + 1, Min({o + PerPage, Len(s)}))
          /\ Cut(s, o) = <<>> => o = Len(s)
          /\ \A k \in DOMAIN Cut(s, o) : \E j \in DOMAIN s : Cut(s, o)[k] = s[j]
      <3>1. o <= Len(s)
        BY <2>1
      <3> QED BY <3>1, PageIsCut
    <2>3. c = Cut(s, o) /\ r.list = s /\ r.offset = o
      BY <2>1
    <2>4. /\ c \in Seq(1..newest) /\ Len(c) <= PerPage
          /\ c = SubSeq(s, o + 1, Min({o + PerPage, Len(s)}))
          /\ c = <<>> => o = Len(s)
      BY <2>2, <2>3, Zenon
    <2>5. ASSUME NEW k \in DOMAIN c PROVE \E j \in DOMAIN s : c[k] = s[j]
      <3>1. c = Cut(s, o) /\ k \in DOMAIN Cut(s, o)
        BY <2>3
      <3>2. \A i \in DOMAIN Cut(s, o) : \E j \in DOMAIN s : Cut(s, o)[i] = s[j]
        BY <2>2
      <3>3. \E j \in DOMAIN s : Cut(s, o)[k] = s[j]
        BY <3>1, <3>2
      <3> QED BY <3>1, <3>3
    <2> QED BY <2>3, <2>4, <2>5, Zenon
  <1>4. reply'.ok /\ reply'.list = r.list /\ reply'.count = r.count
    OBVIOUS
  <1>5. CASE r.count = 0
    <2>1. tableRows' = <<>> /\ <<>> \in Seq(1..newest) /\ Len(<<>>) <= PerPage
      BY <1>2, <1>5
    <2>2. OnScreen' = <<>>
      <3>1. SubSeq(<<>>, 1, Min({PerPage, Len(<<>>)})) = <<>>
        BY <2>1, FirstOfTable
      <3> QED BY <2>1, <3>1 DEF OnScreen
    <2>3. DOMAIN OnScreen' = {}
      BY <2>2
    <2> QED BY <1>4, <1>5, <2>3 DEF PageIsTrue
  <1>6. CASE r.count # 0
    <2>1. tableRows' = c
      <3>1. <<>> \o c = c
        BY <1>3, ConcatEmptySeq
      <3> QED BY <1>6, <3>1
    <2>2. OnScreen' = c
      <3>1. SubSeq(c, 1, Min({PerPage, Len(c)})) = c
        BY <1>3, FirstOfTable
      <3> QED BY <2>1, <3>1 DEF OnScreen
    <2>3. r.offset + PerPage = pageNumber * PerPage
      <3>1. PICK f \in Nat : pageNumber = f + 1
        <4>1. pageNumber - 1 \in Nat /\ pageNumber = (pageNumber - 1) + 1
          BY <1>1
        <4> QED BY <4>1
      <3>2. pageNumber * PerPage = f * PerPage + PerPage
        BY <1>2, <3>1, SMT
      <3>3. pageNumber - 1 = f
        BY <3>1
      <3> QED BY <1>1, <3>2, <3>3
    <2>4. c = <<>> => r.list = <<>>
      <3>1. screen = "observations" /\ c = <<>> => pageNumber = 1
        BY <1>6 DEF Reverts
      <3>2. pageNumber = 1 => r.offset = 0
        BY <1>1, <1>2, SMT
      <3>3. screen = "users" => r.offset = 0 \/ r.offset < Len(r.list)
        BY DEF AdminInv, UsersInv, InReach
      <3>4. c = <<>> => Len(r.list) = 0
        BY <1>1, <1>3, <3>1, <3>2, <3>3
      <3> QED BY <1>1, <3>4
    <2>5. \A k \in DOMAIN c : c[k] \notin gone
      BY <1>3 DEF Alone
    <2>6. OnScreen' = SubSeq(reply'.list, (pageNumber' - 1) * PerPage + 1,
                             Min({pageNumber' * PerPage, Len(reply'.list)}))
      BY <1>1, <1>3, <1>4, <2>2, <2>3
    <2>7. OnScreen' = <<>> => reply'.list = <<>>
      BY <1>4, <2>2, <2>4
    <2>8. \A k \in DOMAIN OnScreen' : OnScreen'[k] \notin gone'
      BY <2>2, <2>5
    <2> QED BY <1>4, <2>6, <2>7, <2>8 DEF PageIsTrue
  <1> QED BY <1>5, <1>6

\* An answer is added to the table, unless there is nothing on its page.
LEMMA ShowPageStep ==
    ASSUME AdminInv, NEW r \in requests, ShowPage(r)
    PROVE  AdminInv'
  <1> DEFINE c == Cut(r.list, r.offset)
             filled == tableRows \o c
             rest == requests \ {r}
  <1>1. /\ r.stage = "page" /\ reply' = [ok |-> TRUE, list |-> r.list, count |-> r.count]
        /\ pageTotal' = IF r.count # 0 THEN r.count ELSE pageTotal
        /\ IF r.count # 0 /\ Reverts(filled)
           THEN Update(1, orderBy, flaggedOnly, rest)
           ELSE /\ tableRows' = IF r.count # 0 THEN filled ELSE tableRows
                /\ requests' = rest /\ UNCHANGED <<query, clean>>
        /\ UNCHANGED <<screen, entries, flagged, newest, submitted, left, gone>>
    BY DEF ShowPage
  <1>2. /\ AdminTypes /\ Asked(r) /\ r.list \in Seq(1..newest) /\ r.offset \in Nat
        /\ r.offset <= Len(r.list) /\ r.count \in Nat /\ pageTotal \in Nat /\ flaggedOnly \in BOOLEAN
        /\ tableRows \in Seq(1..newest)
    BY <1>1 DEF AdminInv, AdminTypes, Asked
  <1>3. c \in Seq(1..newest)
    BY <1>2, PageIsCut
  <1>4. filled \in Seq(1..newest)
    BY <1>2, <1>3, ConcatProperties
  <1> HIDE DEF c, filled
  <1>5. pageTotal' \in Nat
    BY <1>1, <1>2
  <1>6. CASE r.count # 0 /\ Reverts(filled)
    <2>1. Update(1, orderBy, flaggedOnly, rest) /\ screen = "observations" /\ rest \in SUBSET requests
      BY <1>1, <1>6 DEF Reverts
    <2>2. 1 \in Nat \ {0} /\ screen # "users"
      BY <2>1
    <2>3. UNCHANGED <<screen, entries, newest, submitted, gone>>
      BY <1>1
    <2> HIDE DEF rest
    <2> QED BY <1>2, <1>5, <2>1, <2>2, <2>3, AskingStep
  <1>7. CASE ~(r.count # 0 /\ Reverts(filled))
    <2>1. /\ tableRows' = IF r.count # 0 THEN filled ELSE tableRows
          /\ requests' = rest
          /\ UNCHANGED <<screen, entries, newest, submitted, gone, pageNumber, orderBy, flaggedOnly, clean>>
      BY <1>1, <1>7 DEF query
    <2>2. tableRows' \in Seq(1..newest)
      BY <1>2, <1>4, <2>1
    <2>3. AdminTypes'
      BY <1>2, <1>5, <2>1, <2>2 DEF AdminTypes, Asked, Sent
    <2>4. GoneInv'
      BY <2>1 DEF AdminInv, GoneInv
    <2>5. UsersInv'
      BY <1>1, <2>1 DEF AdminInv, UsersInv, InReach
    <2>6. clean => Alone(r) /\ tableRows = <<>> /\ rest = {}
      <3>1. ASSUME clean PROVE Alone(r) /\ tableRows = <<>> /\ requests = {r}
        BY <3>1 DEF AdminInv, CleanInv, Alone
      <3> QED BY <3>1
    <2>7. CleanInv'
      BY <2>1, <2>6 DEF CleanInv
    <2>8. CASE clean
      <3>1. c \in Seq(1..newest) /\ filled = tableRows \o c /\ tableRows = <<>>
        BY <1>3, <2>6, <2>8 DEF filled
      <3>2. filled = c
        BY <3>1
      <3>3. r.count # 0 => ~Reverts(c)
        BY <1>7, <3>2
      <3>4. c = Cut(r.list, r.offset)
        BY DEF c
      <3>5. tableRows' = IF r.count # 0 THEN tableRows \o c ELSE tableRows
        BY <2>1, <3>1
      <3>6. UNCHANGED <<screen, pageNumber, gone>>
        BY <2>1
      <3>7. PageIsTrue'
        BY <1>1, <2>6, <2>8, <3>3, <3>4, <3>5, <3>6, PageShown
      <3> QED BY <2>3, <2>4, <2>5, <2>7, <3>7 DEF AdminInv
    <2>9. CASE ~clean
      BY <2>1, <2>3, <2>4, <2>5, <2>7, <2>9 DEF AdminInv, PageIsTrue
    <2> QED BY <2>8, <2>9
  <1> QED BY <1>6, <1>7

\* After an error the first page is open, and is asked for if it is of observations.
LEMMA ShowErrorStep ==
    ASSUME AdminInv, NEW r \in requests, ShowError(r)
    PROVE  AdminInv'
  <1>1. /\ reply' = Unanswered
        /\ UNCHANGED <<screen, entries, newest, pageTotal, submitted, gone>>
    BY DEF ShowError
  <1>2. AdminTypes /\ pageTotal \in Nat /\ flaggedOnly \in BOOLEAN
    BY DEF AdminInv, AdminTypes
  <1>3. CASE pageNumber # 1 /\ screen = "observations"
    <2>1. Update(1, orderBy, flaggedOnly, requests \ {r}) /\ screen # "users"
      BY <1>3 DEF ShowError
    <2>2. requests \ {r} \in SUBSET requests /\ 1 \in Nat \ {0}
      OBVIOUS
    <2> QED BY <1>1, <1>2, <2>1, <2>2, AskingStep
  <1>4. CASE ~(pageNumber # 1 /\ screen = "observations")
    <2>1. /\ pageNumber' = 1 /\ requests' = requests \ {r}
          /\ UNCHANGED <<orderBy, flaggedOnly, tableRows, clean>>
      BY <1>4 DEF ShowError
    <2>2. AdminTypes'
      BY <1>1, <1>2, <2>1 DEF AdminTypes, Asked, Sent
    <2>3. GoneInv'
      BY <1>1 DEF AdminInv, GoneInv
    <2>4. UsersInv'
      BY <1>1, <2>1 DEF AdminInv, UsersInv, InReach
    <2>5. clean => tableRows = <<>> /\ requests = {r}
      BY DEF AdminInv, CleanInv, Alone
    <2>6. CleanInv'
      BY <2>1, <2>5 DEF CleanInv
    <2>7. ASSUME clean PROVE DOMAIN OnScreen' = {}
      <3>1. tableRows' = <<>> /\ <<>> \in Seq(Nat) /\ Len(<<>>) <= PerPage
        BY <2>1, <2>5, <2>7, AdminBounded
      <3>2. SubSeq(<<>>, 1, Min({PerPage, Len(<<>>)})) = <<>>
        BY <3>1, FirstOfTable
      <3>3. OnScreen' = <<>>
        BY <3>1, <3>2 DEF OnScreen
      <3> QED BY <3>3
    <2>8. ~reply'.ok
      BY <1>1 DEF Unanswered
    <2>9. PageIsTrue'
      BY <2>1, <2>7, <2>8 DEF PageIsTrue
    <2> QED BY <2>2, <2>3, <2>4, <2>6, <2>9 DEF AdminInv
  <1> QED BY <1>3, <1>4

\* The first page is asked for when the tables are opened.
LEMMA AdminBegins == AdminInit => AdminInv
  <1> SUFFICES ASSUME AdminInit PROVE AdminInv
    OBVIOUS
  <1> DEFINE r == Request({}, 1, "id", FALSE)
  <1>1. /\ newest \in Nat /\ entries = 1..newest /\ requests = {r} /\ tableRows = <<>>
        /\ pageNumber = 1 /\ pageTotal = 0 /\ gone = {} /\ submitted = {} /\ flaggedOnly = FALSE
        /\ screen \in {"observations", "users"}
    BY AdminBounded DEF AdminInit
  <1>2. (1 - 1) * PerPage = 0
    BY AdminBounded, SMT
  <1>3. r = [id |-> Unused({}), offset |-> 0, by |-> "id", only |-> FALSE, list |-> <<>>,
             count |-> 0, stage |-> "list"]
    BY <1>2 DEF Request
  <1>4. Asked(r) /\ r.offset = 0 /\ r.stage = "list" /\ r.count = 0 /\ ~r.only
    <2> HIDE DEF r
    <2>1. <<>> \in Seq(1..newest)
      OBVIOUS
    <2> QED BY <1>3, <2>1 DEF Asked
  <1> HIDE DEF r
  <1>5. AdminTypes /\ GoneInv
    <2>1. tableRows \in Seq(1..newest) /\ 1 \in Nat \ {0} /\ 0 \in Nat /\ FALSE \in BOOLEAN
      BY <1>1
    <2> QED BY <1>1, <1>4, <2>1 DEF AdminTypes, GoneInv
  <1>6. Cardinality(entries) \in Nat
    BY <1>5, RowsAreFinite
  <1>7. UsersInv
    BY <1>1, <1>4, <1>6 DEF UsersInv, InReach
  <1>8. Alone(r)
    BY <1>1, <1>2, <1>4 DEF Alone
  <1>9. CleanInv /\ PageIsTrue
    BY <1>1, <1>8 DEF CleanInv, PageIsTrue
  <1> QED BY <1>5, <1>7, <1>9 DEF AdminInv

\* Every step of the administrator, of the handlers and of others.
LEMMA AdminStep ==
    ASSUME AdminInv, [AdminNext]_adminVars
    PROVE  AdminInv'
  <1>1. ASSUME NEW r \in requests,
               ReadList(r) \/ ListFails(r) \/ ReadCount(r) \/ ShowPage(r) \/ ShowError(r)
        PROVE  AdminInv'
    BY <1>1, ReadListStep, ListFailsStep, ReadCountStep, ShowPageStep, ShowErrorStep
  <1>2. ASSUME NEW d \in submitted, Carry(d) \/ Submitted(d) \/ SubmitFails(d)
        PROVE  AdminInv'
    BY <1>2, CarryStep, SubmittedStep, SubmitFailsStep
  <1>3. ASSUME NEW n \in 1..Entries, Change(n) \/ ChangePage(n) \/ Submit(n)
        PROVE  AdminInv'
    <2>1. n \in Nat
      BY AdminBounded
    <2> QED BY <1>3, <2>1, ChangeStep, ChangePageStep, SubmitStep
  <1>4. ASSUME (\E only \in BOOLEAN : SetFilter(only)) \/ (\E by \in {"id", "other"} : OrderBy(by))
        PROVE  AdminInv'
    BY <1>4, ClickSteps
  <1>5. CASE UNCHANGED adminVars
    <2>1. UNCHANGED <<screen, entries, newest, pageNumber, orderBy, flaggedOnly, pageTotal, tableRows,
                      requests, submitted, clean, reply, gone>>
      BY <1>5 DEF adminVars, query
    <2> QED BY <2>1 DEF AdminInv, AdminTypes, Asked, Sent, GoneInv, UsersInv, InReach, CleanInv, Alone,
                        PageIsTrue, OnScreen
  <1> QED BY <1>1, <1>2, <1>3, <1>4, <1>5 DEF AdminNext

\* The administrator sees the page that was asked for: PageIsTrue, of tables and
\* pages of any length, whatever others do to the table and whatever fails.
THEOREM AdministratorSeesThePage == AdminSpec => []PageIsTrue
  <1>1. AdminInv => PageIsTrue
    BY DEF AdminInv
  <1> QED BY <1>1, AdminBegins, AdminStep, PTL DEF AdminSpec

-----------------------------------------------------------------------------
(***************************************************************************)
(* The screens, as the parts of the run's model.                           *)
(***************************************************************************)
\* A behaviour of the run's model is one of each of these four screens, which steps
\* or stays as it is.
LEMMA ScreensBehave == Spec => StreamSpec /\ PagingSpec /\ AdminSpec /\ ActivitySpec
  <1>1. Init => StreamInit /\ PagingInit /\ AdminInit /\ ActivityInit
    BY DEF Init, Idle
  <1>2. [Next]_allVars => /\ [StreamNext]_streamVars
                          /\ [PagingNext]_pagingVars
                          /\ [AdminNext]_adminVars
                          /\ [ActivityNext]_activityVars
    BY DEF Next, allVars, streamVars, pagingVars, adminVars, activityVars
  <1> QED BY <1>1, <1>2, PTL DEF Spec, StreamSpec, PagingSpec, AdminSpec, ActivitySpec

\* Both of the run's pages: the lists of charts that are shown page by page, and
\* the administrator's table.
THEOREM PagesAreShown == Spec => []PagesAreTrue
  <1>1. PagesTile /\ PageIsTrue => PagesAreTrue
    BY DEF PagesAreTrue
  <1> QED BY <1>1, ScreensBehave, PagesTileTheLists, AdministratorSeesThePage, PTL

-----------------------------------------------------------------------------
(***************************************************************************)
(* PoliticalActivity: the terms shown are the highest, with every mention. *)
(***************************************************************************)
Known == {vocabulary[k].main : k \in DOMAIN vocabulary}
Tallied == [term : Known, mentions : [0..Days -> Int], val : Int]

\* The mentions of a term on a day that a table gives: where in the table, and by
\* which entry of the vocabulary.
Hits(table, m, d) ==
    {p \in Scan(table) \X (DOMAIN vocabulary) :
       LET row == table[p[1]]
           entry == vocabulary[p[2]]
       IN  /\ row.name = entry.key /\ entry.main = m /\ row.date < Today
           /\ row.date - 2 \in Today - (d + 1) * Day .. Today - d * Day - 1}

\* c counts the mentions of terms on days, and so is an element of Counts.
Counts == [Known \X (0..Days) -> Nat]
InKeywords == [p \in Known \X (0..Days) |-> Cardinality(Hits(Keywords, p[1], p[2]))]
InBoth == [p \in Known \X (0..Days) |-> MentionsOn(p[1], p[2])]

\* A list has each term once that is counted at all, with its counts.
Tally(so, c) ==
    /\ so \in Seq(Tallied)
    /\ \A i, j \in DOMAIN so : so[i].term = so[j].term => i = j
    /\ \A i \in DOMAIN so : \A d \in 0..Days : so[i].mentions[d] = c[<<so[i].term, d>>]
    /\ \A m \in Known : (\E i \in DOMAIN so : so[i].term = m) <=> \E d \in 0..Days : c[<<m, d>>] > 0

\* Each has its value, and those after the n-th are where they belong.
Valued(so) == \A i \in DOMAIN so : so[i].val = ValueOf(so[i].term)
Falling(so, n) == \A i, j \in DOMAIN so : i < j /\ j > n => so[i].val >= so[j].val


-----------------------------------------------------------------------------
\* A mention of the year is on one of its days, which starts half an hour after
\* midnight.
LEMMA DayOfMention ==
    ASSUME NEW t \in Int, 0 < t, t < Today
    PROVE  /\ DayIndex(t) \in 0..Days
           /\ \A d \in 0..Days :
                 t - 2 \in Today - (d + 1) * Day .. Today - d * Day - 1 <=> d = DayIndex(t)
  <1>1. Days \in Nat /\ Day = 96 /\ Today = Days * 96
    BY ActivityIsTyped DEF Day, Today
  <1>2. PICK q \in Nat : q = (t + 2) \div 4 /\ q * 4 <= t + 2 /\ t + 2 < q * 4 + 4
    <2>1. t + 2 \in Nat /\ 4 \in Nat \ {0}
      OBVIOUS
    <2>2. PICK q : q = (t + 2) \div 4
      OBVIOUS
    <2>3. q \in Nat /\ q * 4 <= t + 2 /\ t + 2 < q * 4 + 4
      BY <2>1, <2>2, Division
    <2> QED BY <2>2, <2>3
  <1>3. 4 * q <= Days * 96
    <2>1. t + 2 <= Days * 96 + 1
      BY <1>1
    <2> QED BY <1>1, <1>2, <2>1
  <1>4. PICK a \in Nat : a = Days * 96 - 4 * q
    <2>1. Days * 96 - 4 * q \in Nat
      BY <1>1, <1>2, <1>3
    <2> QED BY <2>1
  <1>5. PICK i \in Nat : i = a \div 96 /\ i * 96 <= a /\ a < i * 96 + 96
    <2>1. 96 \in Nat \ {0}
      OBVIOUS
    <2>2. PICK i : i = a \div 96
      OBVIOUS
    <2>3. i \in Nat /\ i * 96 <= a /\ a < i * 96 + 96
      BY <2>1, <2>2, Division
    <2> QED BY <2>2, <2>3
  <1>6. DayIndex(t) = i
    BY <1>1, <1>2, <1>4, <1>5 DEF DayIndex, RoundedToHour
  <1>7. i \in 0..Days
    BY <1>1, <1>2, <1>4, <1>5
  <1>8. ASSUME NEW d \in 0..Days
        PROVE  t - 2 \in Today - (d + 1) * Day .. Today - d * Day - 1 <=> d = i
    <2>1. d \in Nat
      BY <1>1
    <2> QED BY <1>1, <1>2, <1>4, <1>5, <2>1
  <1> QED BY <1>6, <1>7, <1>8

\* What the tables and the vocabularies are.
LEMMA TablesAreTyped ==
    ASSUME NEW table \in {Keywords, Entities}
    PROVE  /\ Len(table) \in Nat /\ DOMAIN table = 1..Len(table)
           /\ \A i \in Scan(table) :
                 i \in 1..Len(table) /\ table[i].date \in Int /\ 0 < table[i].date
  BY ActivityIsTyped DEF Scan

LEMMA WordsAreTyped ==
    ASSUME vocabulary \in Dictionaries \cup Regions
    PROVE  /\ Len(vocabulary) \in Nat /\ DOMAIN vocabulary = 1..Len(vocabulary)
           /\ \A k \in DOMAIN vocabulary : vocabulary[k].freq \in Int
  BY ActivityIsTyped

\* An entry of the vocabulary hits a row on the day of the row.
LEMMA HitIs ==
    ASSUME NEW table \in {Keywords, Entities}, NEW i \in Scan(table),
           NEW k \in DOMAIN vocabulary, NEW m, NEW d \in 0..Days
    PROVE  <<i, k>> \in Hits(table, m, d) <=>
              /\ vocabulary[k].key = table[i].name /\ table[i].date < Today
              /\ m = vocabulary[k].main /\ d = DayIndex(table[i].date)
  <1>1. table[i].date \in Int /\ 0 < table[i].date
    BY TablesAreTyped
  <1>2. <<i, k>> \in Hits(table, m, d) <=>
              /\ vocabulary[k].key = table[i].name /\ table[i].date < Today
              /\ m = vocabulary[k].main
              /\ table[i].date - 2 \in Today - (d + 1) * Day .. Today - d * Day - 1
    BY DEF Hits
  <1> QED BY <1>1, <1>2, DayOfMention

LEMMA HitsAreFinite ==
    ASSUME NEW table \in {Keywords, Entities}, vocabulary \in Dictionaries \cup Regions,
           NEW m, NEW d
    PROVE  /\ IsFiniteSet(Hits(table, m, d))
           /\ Hits(table, m, d) \subseteq (1..Len(table)) \X (1..Len(vocabulary))
           /\ \A p \in Hits(table, m, d) : p[1] \in Scan(table)
  <1>1. Hits(table, m, d) \subseteq (1..Len(table)) \X (1..Len(vocabulary))
    BY TablesAreTyped, WordsAreTyped DEF Hits
  <1>2. IsFiniteSet(1..Len(table)) /\ IsFiniteSet(1..Len(vocabulary))
    BY TablesAreTyped, WordsAreTyped, FS_Interval
  <1>3. IsFiniteSet((1..Len(table)) \X (1..Len(vocabulary)))
    BY <1>2, FS_Product
  <1>4. IsFiniteSet(Hits(table, m, d))
    BY <1>1, <1>3, FS_Subset
  <1> QED BY <1>1, <1>4 DEF Hits

\* The hits of a table up to an entry for a row, as the two loops go through them.
Upto(table, p, i, k) ==
    {q \in Hits(table, p[1], p[2]) : q[1] < i \/ (q[1] = i /\ q[2] <= k)}
CountTo(c, table, i, k) ==
    [p \in Known \X (0..Days) |-> c[p] + Cardinality(Upto(table, p, i, k))]

LEMMA UptoEnds ==
    ASSUME NEW table \in {Keywords, Entities}, vocabulary \in Dictionaries \cup Regions,
           NEW p \in Known \X (0..Days)
    PROVE  /\ Upto(table, p, 0, Len(vocabulary)) = {}
           /\ Upto(table, p, Len(table), Len(vocabulary)) = Hits(table, p[1], p[2])
  <1> DEFINE H == Hits(table, p[1], p[2])
  <1>1. /\ IsFiniteSet(H) /\ H \subseteq (1..Len(table)) \X (1..Len(vocabulary))
        /\ \A q \in H : q[1] \in Scan(table)
    BY HitsAreFinite
  <1>2. Len(table) \in Nat /\ Len(vocabulary) \in Nat
    BY TablesAreTyped, WordsAreTyped
  <1>3. PICK n \in Nat : n = Len(vocabulary)
    BY <1>2
  <1>4. PICK l \in Nat : l = Len(table)
    BY <1>2
  <1>5. \A q \in H : q[1] \in 1..l /\ q[2] \in 1..n /\ q = <<q[1], q[2]>>
    BY <1>1, <1>3, <1>4
  <1>6. \A j, k, q : q \in Upto(table, p, j, k) <=>
                        q \in H /\ (q[1] < j \/ (q[1] = j /\ q[2] <= k))
    BY DEF Upto
  <1> HIDE DEF H
  <1>7. Upto(table, p, 0, n) = {} /\ Upto(table, p, l, n) = H
    <2>1. ASSUME NEW q \in Upto(table, p, 0, n) PROVE FALSE
      <3>1. q \in H /\ (q[1] < 0 \/ (q[1] = 0 /\ q[2] <= n))
        BY <1>6
      <3> QED BY <1>5, <3>1
    <2>2. ASSUME NEW q \in H PROVE q \in Upto(table, p, l, n)
      <3>1. q[1] \in 1..l /\ q[2] \in 1..n
        BY <1>5
      <3>2. q[1] < l \/ (q[1] = l /\ q[2] <= n)
        BY <3>1
      <3> QED BY <1>6, <3>2
    <2>3. \A q : q \in Upto(table, p, l, n) => q \in H
      BY <1>6
    <2> QED BY <2>1, <2>2, <2>3
  <1> QED BY <1>3, <1>4, <1>7 DEF H

LEMMA UptoNext ==
    ASSUME NEW table \in {Keywords, Entities}, vocabulary \in Dictionaries \cup Regions,
           NEW p \in Known \X (0..Days), NEW i \in 1..Len(table)
    PROVE  /\ \A k \in 0..Len(vocabulary) : Cardinality(Upto(table, p, i, k)) \in Nat
           /\ \A k \in 1..Len(vocabulary) :
                 Cardinality(Upto(table, p, i, k)) = Cardinality(Upto(table, p, i, k - 1))
                    + IF <<i, k>> \in Hits(table, p[1], p[2]) THEN 1 ELSE 0
           /\ Upto(table, p, i, 0) = Upto(table, p, i - 1, Len(vocabulary))
           /\ i \notin Scan(table) =>
                 Upto(table, p, i, Len(vocabulary)) = Upto(table, p, i, 0)
  <1> DEFINE H == Hits(table, p[1], p[2])
  <1>1. /\ IsFiniteSet(H) /\ H \subseteq (1..Len(table)) \X (1..Len(vocabulary))
        /\ \A q \in H : q[1] \in Scan(table)
    BY HitsAreFinite
  <1>2. Len(table) \in Nat /\ Len(vocabulary) \in Nat
    BY TablesAreTyped, WordsAreTyped
  <1>3. PICK n \in Nat : n = Len(vocabulary)
    BY <1>2
  <1>4. PICK l \in Nat : l = Len(table)
    BY <1>2
  <1>5. \A q \in H : q[1] \in 1..l /\ q[2] \in 1..n /\ q = <<q[1], q[2]>>
    BY <1>1, <1>3, <1>4
  <1>6. \A j, k, q : q \in Upto(table, p, j, k) <=>
                        q \in H /\ (q[1] < j \/ (q[1] = j /\ q[2] <= k))
    BY DEF Upto
  <1> HIDE DEF H
  <1>7. \A j, k : IsFiniteSet(Upto(table, p, j, k)) /\ Cardinality(Upto(table, p, j, k)) \in Nat
    <2>1. ASSUME NEW j, NEW k
          PROVE  IsFiniteSet(Upto(table, p, j, k)) /\ Cardinality(Upto(table, p, j, k)) \in Nat
      <3>1. Upto(table, p, j, k) \subseteq H
        BY <1>6
      <3>2. IsFiniteSet(Upto(table, p, j, k))
        BY <1>1, <3>1, FS_Subset
      <3> QED BY <3>2, FS_CardinalityType
    <2> QED BY <2>1
  <1>8. ASSUME NEW k \in 1..n
        PROVE  Cardinality(Upto(table, p, i, k)) = Cardinality(Upto(table, p, i, k - 1))
                    + IF <<i, k>> \in H THEN 1 ELSE 0
    <2>1. CASE <<i, k>> \in H
      <3>1. Upto(table, p, i, k) = Upto(table, p, i, k - 1) \cup {<<i, k>>}
        BY <1>4, <1>5, <1>6, <2>1
      <3>2. <<i, k>> \notin Upto(table, p, i, k - 1)
        BY <1>4, <1>6
      <3>3. Cardinality(Upto(table, p, i, k - 1) \cup {<<i, k>>}) = Cardinality(Upto(table, p, i, k - 1)) + 1
        BY <1>7, <3>2, FS_AddElement
      <3> QED BY <2>1, <3>1, <3>3
    <2>2. CASE <<i, k>> \notin H
      <3>1. Upto(table, p, i, k) = Upto(table, p, i, k - 1)
        <4>1. ASSUME NEW q \in H PROVE q \in Upto(table, p, i, k) <=> q \in Upto(table, p, i, k - 1)
          <5>1. q[1] = i /\ q[2] = k => FALSE
            BY <1>5, <2>2
          <5> QED BY <1>4, <1>5, <1>6, <5>1
        <4> QED BY <1>6, <4>1
      <3>2. Cardinality(Upto(table, p, i, k - 1)) + 0 = Cardinality(Upto(table, p, i, k - 1))
        BY <1>7
      <3> QED BY <2>2, <3>1, <3>2
    <2> QED BY <2>1, <2>2
  <1>9. Upto(table, p, i, 0) = Upto(table, p, i - 1, n)
    <2>1. ASSUME NEW q \in H
          PROVE  q \in Upto(table, p, i, 0) <=> q \in Upto(table, p, i - 1, n)
      <3>1. q[1] \in 1..l /\ q[2] \in 1..n
        BY <1>5
      <3>2. q \in Upto(table, p, i, 0) <=> q[1] < i \/ (q[1] = i /\ q[2] <= 0)
        BY <1>6
      <3>3. q \in Upto(table, p, i - 1, n) <=> q[1] < i - 1 \/ (q[1] = i - 1 /\ q[2] <= n)
        BY <1>6
      <3> QED BY <1>4, <3>1, <3>2, <3>3
    <2>2. \A q : q \in Upto(table, p, i, 0) \/ q \in Upto(table, p, i - 1, n) => q \in H
      BY <1>6
    <2> QED BY <2>1, <2>2
  <1>10. i \notin Scan(table) => Upto(table, p, i, n) = Upto(table, p, i, 0)
    <2>1. ASSUME i \notin Scan(table), NEW q
          PROVE  q \in Upto(table, p, i, n) <=> q \in Upto(table, p, i, 0)
      <3>1. q \in H => q[1] # i
        BY <1>1, <2>1
      <3> QED BY <1>6, <3>1
    <2> QED BY <2>1
  <1> QED BY <1>3, <1>4, <1>7, <1>8, <1>9, <1>10 DEF H

\* w is so with one more mention of m on day d, at its i-th entry.
OneMore(so, m, d, w, i) ==
    /\ i \in 1..Len(w) /\ w[i].term = m
    /\ \A j \in 1..Len(w) : j # i => j \in 1..Len(so) /\ w[j] = so[j]
    /\ \/ /\ i \in 1..Len(so) /\ so[i].term = m /\ Len(w) = Len(so)
          /\ \A b \in 0..Days : w[i].mentions[b] = so[i].mentions[b] + IF b = d THEN 1 ELSE 0
       \/ /\ \A j \in 1..Len(so) : so[j].term # m
          /\ i = Len(so) + 1 /\ Len(w) = Len(so) + 1
          /\ \A b \in 0..Days : w[i].mentions[b] = IF b = d THEN 1 ELSE 0

\* One more mention of a term, on its own entry or on a new one at the end.
LEMMA MentionedIs ==
    ASSUME NEW so \in Seq(Tallied), NEW m \in Known, NEW d \in 0..Days
    PROVE  \E w \in Seq(Tallied), i \in Nat :
              w = Mentioned(so, m, d) /\ OneMore(so, m, d, w, i)
  <1> DEFINE zero == [term |-> m, mentions |-> [e \in 0..Days |-> 0], val |-> 0]
             i == Place(so, m)
             old == IF i \in DOMAIN so THEN so ELSE Append(so, zero)
             w == [old EXCEPT ![i].mentions[d] = @ + 1]
  <1>1. w = Mentioned(so, m, d)
    BY DEF Mentioned
  <1>2. PICK n \in Nat : n = Len(so) /\ DOMAIN so = 1..n
    OBVIOUS
  <1>3. \/ i \in 1..n /\ so[i].term = m
        \/ i = n + 1 /\ \A j \in 1..n : so[j].term # m
    BY <1>2 DEF Place
  <1>4. zero \in Tallied
    <2>1. [e \in 0..Days |-> 0] \in [0..Days -> Int]
      OBVIOUS
    <2> QED BY <2>1 DEF Tallied
  <1> HIDE DEF i, zero
  <1>5. ASSUME NEW t \in Tallied
        PROVE  /\ [t EXCEPT !.mentions[d] = @ + 1] \in Tallied
               /\ [t EXCEPT !.mentions[d] = @ + 1].term = t.term
               /\ \A e \in 0..Days : [t EXCEPT !.mentions[d] = @ + 1].mentions[e]
                                       = t.mentions[e] + IF e = d THEN 1 ELSE 0
    <2>1. t.mentions \in [0..Days -> Int]
      BY DEF Tallied
    <2>2. PICK f \in [0..Days -> Int] : f = [t.mentions EXCEPT ![d] = @ + 1]
      <3>1. t.mentions[d] + 1 \in Int
        <4>1. PICK f \in [0..Days -> Int] : f = t.mentions
          BY <2>1
        <4>2. f[d] + 1 \in Int
          OBVIOUS
        <4> QED BY <4>1, <4>2
      <3>2. [t.mentions EXCEPT ![d] = t.mentions[d] + 1] \in [0..Days -> Int]
        BY <2>1, <3>1
      <3> QED BY <3>2
    <2>3. [t EXCEPT !.mentions[d] = @ + 1] = [t EXCEPT !.mentions = f]
      BY <2>2 DEF Tallied
    <2>4. [t EXCEPT !.mentions = f] \in Tallied /\ [t EXCEPT !.mentions = f].term = t.term
      BY DEF Tallied
    <2>5. [t EXCEPT !.mentions = f].mentions = f
      BY DEF Tallied
    <2>6. \A e \in 0..Days : f[e] = t.mentions[e] + IF e = d THEN 1 ELSE 0
      <3>1. ASSUME NEW e \in 0..Days PROVE f[e] = t.mentions[e] + IF e = d THEN 1 ELSE 0
        <4>1. f[e] = IF e = d THEN t.mentions[d] + 1 ELSE t.mentions[e]
          BY <2>2, <2>1
        <4>2. t.mentions[e] \in Int
          BY <2>1
        <4> QED BY <4>1, <4>2
      <3> QED BY <3>1
    <2> QED BY <2>3, <2>4, <2>5, <2>6
  <1>6. CASE i \in 1..n /\ so[i].term = m
    <2>1. w = [so EXCEPT ![i] = [so[i] EXCEPT !.mentions[d] = @ + 1]]
      BY <1>2, <1>6
    <2>2. so[i] \in Tallied
      BY <1>2, <1>6
    <2> HIDE DEF w
    <2>3. PICK t \in Tallied : t = [so[i] EXCEPT !.mentions[d] = @ + 1]
      BY <1>5, <2>2
    <2>4. w = [so EXCEPT ![i] = t]
      BY <2>1, <2>3
    <2>5. w \in Seq(Tallied) /\ Len(w) = n /\ w[i] = t /\ \A j \in 1..n : j # i => w[j] = so[j]
      BY <1>2, <1>6, <2>4
    <2>6. t.term = m /\ \A e \in 0..Days : t.mentions[e] = so[i].mentions[e] + IF e = d THEN 1 ELSE 0
      BY <1>5, <1>6, <2>2, <2>3
    <2>7. i \in Nat
      BY <1>6
    <2> QED BY <1>1, <1>2, <1>6, <2>5, <2>6, <2>7 DEF OneMore
  <1>7. CASE i = n + 1 /\ \A j \in 1..n : so[j].term # m
    <2>1. /\ Append(so, zero) \in Seq(Tallied) /\ Len(Append(so, zero)) = n + 1
          /\ Append(so, zero)[n + 1] = zero /\ \A j \in 1..n : Append(so, zero)[j] = so[j]
      BY <1>2, <1>4
    <2>2. PICK longer \in Seq(Tallied) : longer = Append(so, zero)
      BY <2>1
    <2>3. Len(longer) = n + 1 /\ longer[n + 1] = zero /\ \A j \in 1..n : longer[j] = so[j]
      BY <2>1, <2>2
    <2>4. /\ longer = Append(so, zero) /\ Len(longer) = n + 1 /\ DOMAIN longer = 1..n + 1
          /\ longer[n + 1] = zero /\ \A j \in 1..n : longer[j] = so[j]
      BY <2>2, <2>3
    <2>5. old = longer
      BY <1>2, <1>7, <2>2
    <2> HIDE DEF old
    <2>6. w = [longer EXCEPT ![i] = [longer[i] EXCEPT !.mentions[d] = @ + 1]]
      BY <1>7, <2>4, <2>5
    <2> HIDE DEF w
    <2>7. PICK t \in Tallied : t = [zero EXCEPT !.mentions[d] = @ + 1]
      BY <1>4, <1>5
    <2>8. w = [longer EXCEPT ![n + 1] = t]
      BY <1>7, <2>4, <2>6, <2>7
    <2>9. PICK k \in Nat : k = n + 1 /\ k \in 1..k
      OBVIOUS
    <2>10. w = [longer EXCEPT ![k] = t] /\ DOMAIN longer = 1..k /\ Len(longer) = k
      BY <2>4, <2>8, <2>9
    <2>11. /\ w \in Seq(Tallied) /\ Len(w) = k /\ w[k] = t
          /\ \A j \in 1..k : j # k => w[j] = longer[j]
      BY <2>9, <2>10
    <2>12. /\ w \in Seq(Tallied) /\ Len(w) = n + 1 /\ w[n + 1] = t
          /\ \A j \in 1..n + 1 : j # n + 1 => j \in 1..n /\ w[j] = so[j]
      BY <2>4, <2>9, <2>11
    <2>13. t.term = zero.term /\ \A e \in 0..Days : t.mentions[e] = zero.mentions[e] + IF e = d THEN 1 ELSE 0
      BY <1>4, <1>5, <2>7
    <2>14. zero.term = m /\ \A e \in 0..Days : zero.mentions[e] = 0
      BY DEF zero
    <2>15. n + 1 \in Nat /\ n + 1 \in 1..n + 1
      OBVIOUS
    <2>16. \A b \in 0..Days : w[i].mentions[b] = IF b = d THEN 1 ELSE 0
      <3>1. w[i] = t
        BY <1>7, <2>12
      <3>2. ASSUME NEW b \in 0..Days PROVE t.mentions[b] = IF b = d THEN 1 ELSE 0
        <4>1. t.mentions[b] = 0 + IF b = d THEN 1 ELSE 0
          BY <2>13, <2>14
        <4> QED BY <4>1
      <3> QED BY <3>1, <3>2
    <2>17. w[i].term = m
      BY <1>7, <2>12, <2>13, <2>14
    <2>18. OneMore(so, m, d, w, i)
      BY <1>2, <1>7, <2>12, <2>15, <2>16, <2>17 DEF OneMore
    <2>19. i \in Nat
      BY <1>7
    <2> QED BY <1>1, <2>12, <2>18, <2>19
  <1> QED BY <1>3, <1>6, <1>7

\* A mention more is one more where it belongs.
LEMMA TallyMore ==
    ASSUME NEW so, NEW c \in Counts, Tally(so, c), NEW m \in Known, NEW d \in 0..Days,
           NEW e \in Counts,
           \A p \in Known \X (0..Days) : e[p] = c[p] + IF p = <<m, d>> THEN 1 ELSE 0
    PROVE  Tally(Mentioned(so, m, d), e)
  <1>1. so \in Seq(Tallied)
    BY DEF Tally
  <1>2. PICK w \in Seq(Tallied), i \in Nat :
              w = Mentioned(so, m, d) /\ OneMore(so, m, d, w, i)
    BY <1>1, MentionedIs
  <1>3. /\ i \in 1..Len(w) /\ w[i].term = m
        /\ \A j \in 1..Len(w) : j # i => j \in 1..Len(so) /\ w[j] = so[j]
        /\ \/ /\ i \in 1..Len(so) /\ so[i].term = m /\ Len(w) = Len(so)
              /\ \A b \in 0..Days :
                    w[i].mentions[b] = so[i].mentions[b] + IF b = d THEN 1 ELSE 0
           \/ /\ \A j \in 1..Len(so) : so[j].term # m
              /\ i = Len(so) + 1 /\ Len(w) = Len(so) + 1
              /\ \A b \in 0..Days : w[i].mentions[b] = IF b = d THEN 1 ELSE 0
    BY <1>2 DEF OneMore
  <1>4. PICK n \in Nat : n = Len(so) /\ DOMAIN so = 1..n
    BY <1>1
  <1>5. PICK l \in Nat : l = Len(w) /\ DOMAIN w = 1..l /\ n <= l
    BY <1>3, <1>4
  <1>6. /\ \A j, k \in 1..n : so[j].term = so[k].term => j = k
        /\ \A j \in 1..n : \A b \in 0..Days : so[j].mentions[b] = c[<<so[j].term, b>>]
        /\ \A a \in Known : (\E j \in 1..n : so[j].term = a) <=> \E b \in 0..Days : c[<<a, b>>] > 0
    BY <1>4 DEF Tally
  <1>7. ASSUME NEW a \in Known, NEW b \in 0..Days
        PROVE  /\ c[<<a, b>>] \in Nat /\ e[<<a, b>>] \in Nat
               /\ e[<<a, b>>] = c[<<a, b>>] + IF a = m /\ b = d THEN 1 ELSE 0
    <2>1. <<a, b>> \in Known \X (0..Days)
      OBVIOUS
    <2>2. <<a, b>> = <<m, d>> <=> a = m /\ b = d
      OBVIOUS
    <2>3. c[<<a, b>>] \in Nat /\ e[<<a, b>>] \in Nat
      BY <2>1 DEF Counts
    <2> QED BY <2>1, <2>2, <2>3
  <1>8. \A j \in 1..l : w[j].term \in Known
    <2>1. ASSUME NEW j \in 1..l PROVE w[j] \in Tallied
      BY <1>2, <1>5
    <2> QED BY <2>1 DEF Tallied
  <1>9. \A j, k \in 1..l : w[j].term = w[k].term => j = k
    BY <1>3, <1>4, <1>5, <1>6
  <1>10. ASSUME NEW j \in 1..l, NEW b \in 0..Days
        PROVE  w[j].mentions[b] = e[<<w[j].term, b>>]
    <2>1. CASE j # i
      <3>1. j \in 1..n /\ w[j] = so[j]
        BY <1>3, <1>4, <1>5, <2>1
      <3>2. w[j].term # m
        BY <1>3, <1>5, <1>9, <2>1
      <3>3. e[<<w[j].term, b>>] = c[<<w[j].term, b>>]
        BY <1>7, <1>8, <3>2
      <3> QED BY <1>6, <3>1, <3>3
    <2>2. CASE j = i
      <3>1. e[<<m, b>>] = c[<<m, b>>] + (IF b = d THEN 1 ELSE 0) /\ c[<<m, b>>] \in Nat
        BY <1>7
      <3>2. CASE i \in 1..Len(so) /\ so[i].term = m
        <4>1. so[i].mentions[b] = c[<<m, b>>]
          BY <1>4, <1>6, <3>2
        <4>2. w[i].mentions[b] = so[i].mentions[b] + IF b = d THEN 1 ELSE 0
          BY <1>3, <3>2
        <4> QED BY <1>3, <2>2, <3>1, <4>1, <4>2
      <3>3. CASE \A k \in 1..Len(so) : so[k].term # m
        <4>1. ~ c[<<m, b>>] > 0
          BY <1>4, <1>6, <3>3
        <4>2. c[<<m, b>>] = 0
          BY <3>1, <4>1
        <4>3. w[i].mentions[b] = IF b = d THEN 1 ELSE 0
          BY <1>3, <3>3
        <4> QED BY <1>3, <2>2, <3>1, <4>2, <4>3
      <3> QED BY <1>3, <3>2, <3>3
    <2> QED BY <2>1, <2>2
  <1>11. ASSUME NEW a \in Known
         PROVE  (\E j \in 1..l : w[j].term = a) <=> \E b \in 0..Days : e[<<a, b>>] > 0
    <2>1. CASE a = m
      <3>1. \E j \in 1..l : w[j].term = a
        BY <1>3, <1>5, <2>1
      <3>2. e[<<a, d>>] > 0
        BY <1>7, <2>1
      <3> QED BY <3>1, <3>2
    <2>2. CASE a # m
      <3>1. \A b \in 0..Days : e[<<a, b>>] = c[<<a, b>>]
        BY <1>7, <2>2
      <3>2. ASSUME NEW j \in 1..l, w[j].term = a PROVE \E k \in 1..n : so[k].term = a
        BY <1>3, <1>4, <1>5, <2>2, <3>2
      <3>3. ASSUME NEW k \in 1..n, so[k].term = a PROVE \E j \in 1..l : w[j].term = a
        <4>1. k \in 1..l
          BY <1>5
        <4>2. k # i
          BY <1>3, <1>4, <2>2, <3>3
        <4> QED BY <1>3, <1>5, <3>3, <4>1, <4>2
      <3> QED BY <1>6, <3>1, <3>2, <3>3
    <2> QED BY <2>1, <2>2
  <1>12. Tally(w, e)
    <2>1. w \in Seq(Tallied)
      BY <1>2
    <2> QED BY <1>5, <1>9, <1>10, <1>11, <2>1 DEF Tally
  <1> QED BY <1>2, <1>12

-----------------------------------------------------------------------------
\* An entry of the vocabulary at a row: the step of the inner loop.
WithEntry(so, row, entry) ==
    IF entry.key = row.name /\ row.date < Today
    THEN Mentioned(so, entry.main, DayIndex(row.date)) ELSE so

LEMMA EntryIsTyped ==
    ASSUME NEW table \in {Keywords, Entities}, NEW i \in Scan(table),
           NEW k \in DOMAIN vocabulary, NEW so \in Seq(Tallied)
    PROVE  WithEntry(so, table[i], vocabulary[k]) \in Seq(Tallied)
  <1>1. CASE vocabulary[k].key = table[i].name /\ table[i].date < Today
    <2>1. vocabulary[k].main \in Known
      BY DEF Known
    <2>2. DayIndex(table[i].date) \in 0..Days
      BY <1>1, TablesAreTyped, DayOfMention
    <2>3. Mentioned(so, vocabulary[k].main, DayIndex(table[i].date)) \in Seq(Tallied)
      BY <2>1, <2>2, MentionedIs
    <2> QED BY <1>1, <2>3 DEF WithEntry
  <1>2. CASE ~(vocabulary[k].key = table[i].name /\ table[i].date < Today)
    BY <1>2 DEF WithEntry
  <1> QED BY <1>1, <1>2

LEMMA CountsAreTyped ==
    ASSUME NEW table \in {Keywords, Entities}, vocabulary \in Dictionaries \cup Regions,
           NEW c \in Counts, NEW i \in 1..Len(table), NEW k \in 0..Len(vocabulary)
    PROVE  CountTo(c, table, i, k) \in Counts
  <1>1. ASSUME NEW p \in Known \X (0..Days)
        PROVE  c[p] + Cardinality(Upto(table, p, i, k)) \in Nat
    <2>1. Cardinality(Upto(table, p, i, k)) \in Nat
      BY UptoNext
    <2>2. c[p] \in Nat
      BY DEF Counts
    <2> QED BY <2>1, <2>2
  <1> QED BY <1>1 DEF CountTo, Counts

LEMMA EntryIsCounted ==
    ASSUME NEW table \in {Keywords, Entities}, vocabulary \in Dictionaries \cup Regions,
           NEW c \in Counts, NEW i \in Scan(table), NEW k \in 1..Len(vocabulary), NEW so,
           Tally(so, CountTo(c, table, i, k - 1))
    PROVE  Tally(WithEntry(so, table[i], vocabulary[k]), CountTo(c, table, i, k))
  <1> DEFINE m == vocabulary[k].main
             d == DayIndex(table[i].date)
             fits == vocabulary[k].key = table[i].name /\ table[i].date < Today
             less == CountTo(c, table, i, k - 1)
             more == CountTo(c, table, i, k)
  <1>1. /\ i \in 1..Len(table) /\ k \in DOMAIN vocabulary
        /\ k - 1 \in 0..Len(vocabulary) /\ k \in 0..Len(vocabulary)
    BY TablesAreTyped, WordsAreTyped
  <1>2. less \in Counts /\ more \in Counts
    BY <1>1, CountsAreTyped
  <1>3. ASSUME NEW p \in Known \X (0..Days)
        PROVE  more[p] = less[p] + IF fits /\ p = <<m, d>> THEN 1 ELSE 0
    <2>1. /\ Cardinality(Upto(table, p, i, k)) = Cardinality(Upto(table, p, i, k - 1))
                    + IF <<i, k>> \in Hits(table, p[1], p[2]) THEN 1 ELSE 0
          /\ Cardinality(Upto(table, p, i, k - 1)) \in Nat
      BY <1>1, UptoNext
    <2>2. p[2] \in 0..Days /\ p = <<p[1], p[2]>>
      OBVIOUS
    <2>3. <<i, k>> \in Hits(table, p[1], p[2]) <=> fits /\ p[1] = m /\ p[2] = d
      BY <1>1, <2>2, HitIs
    <2>4. p[1] = m /\ p[2] = d <=> p = <<m, d>>
      BY <2>2
    <2>5. c[p] \in Nat
      BY DEF Counts
    <2>6. /\ more[p] = c[p] + Cardinality(Upto(table, p, i, k))
          /\ less[p] = c[p] + Cardinality(Upto(table, p, i, k - 1))
      BY DEF CountTo
    <2>7. <<i, k>> \in Hits(table, p[1], p[2]) <=> fits /\ p = <<m, d>>
      BY <2>3, <2>4
    <2> HIDE DEF fits, m, d, more, less
    <2> QED BY <2>1, <2>5, <2>6, <2>7
  <1>4. CASE fits
    <2>1. m \in Known
      BY <1>1 DEF Known
    <2>2. d \in 0..Days
      BY <1>4, TablesAreTyped, DayOfMention
    <2>3. \A p \in Known \X (0..Days) : more[p] = less[p] + IF p = <<m, d>> THEN 1 ELSE 0
      BY <1>3, <1>4
    <2>4. WithEntry(so, table[i], vocabulary[k]) = Mentioned(so, m, d)
      BY <1>4 DEF WithEntry
    <2> HIDE DEF m, d, less, more, fits
    <2>5. Tally(so, less)
      BY DEF less
    <2>6. Tally(Mentioned(so, m, d), more)
      BY <1>2, <2>1, <2>2, <2>3, <2>5, TallyMore
    <2> QED BY <2>4, <2>6 DEF more
  <1>5. CASE ~fits
    <2>1. \A p \in Known \X (0..Days) : more[p] = less[p]
      <3>1. ASSUME NEW p \in Known \X (0..Days) PROVE more[p] = less[p]
        <4>1. more[p] = less[p] + 0
          BY <1>3, <1>5
        <4>2. less[p] \in Nat
          <5> HIDE DEF less
          <5> QED BY <1>2 DEF Counts
        <4> HIDE DEF more, less
        <4> QED BY <4>1, <4>2
      <3> QED BY <3>1
    <2>2. more = less
      <3> HIDE DEF more, less
      <3> QED BY <1>2, <2>1 DEF Counts
    <2>3. WithEntry(so, table[i], vocabulary[k]) = so
      BY <1>5 DEF WithEntry
    <2> HIDE DEF m, d, fits
    <2> QED BY <2>2, <2>3
  <1> QED BY <1>4, <1>5

\* The inner loop, as a fold.
LEMMA RowFolds ==
    ASSUME NEW table \in {Keywords, Entities}, vocabulary \in Dictionaries \cup Regions,
           NEW i \in Scan(table), NEW so \in Seq(Tallied)
    PROVE  \E r \in [0..Len(vocabulary) -> Seq(Tallied)] :
              /\ r[0] = so /\ r[Len(vocabulary)] = WithRow(so, table[i])
              /\ \A k \in 1..Len(vocabulary) :
                    r[k] = WithEntry(r[k - 1], table[i], vocabulary[k])
  <1> DEFINE n == Len(vocabulary)
             T == Seq(Tallied)
             F == [q \in (1..n) \X T |-> WithEntry(q[2], table[i], vocabulary[q[1]])]
             W(g) == [s \in SUBSET (1..n) |->
                        IF s = {} THEN so
                        ELSE IF vocabulary[Max(s)].key = table[i].name /\ table[i].date < Today
                             THEN Mentioned(g[s \ {Max(s)}], vocabulary[Max(s)].main,
                                            DayIndex(table[i].date))
                             ELSE g[s \ {Max(s)}]]
  <1>1. n \in Nat /\ DOMAIN vocabulary = 1..n
    BY WordsAreTyped
  <1>2. F \in [(1..n) \X T -> T]
    <2>1. ASSUME NEW q \in (1..n) \X T PROVE WithEntry(q[2], table[i], vocabulary[q[1]]) \in T
      <3>1. q[1] \in DOMAIN vocabulary /\ q[2] \in Seq(Tallied)
        BY <1>1
      <3> QED BY <3>1, EntryIsTyped
    <2> QED BY <2>1
  <1>3. WithRow(so, table[i]) = (CHOOSE g : g = W(g))[1..n]
    BY <1>1 DEF WithRow, FoldLeft, MapThenFoldSet
  <1>4. \A g : W(g) = [s \in SUBSET (1..n) |->
                        IF s = {} THEN so
                        ELSE WithEntry(g[s \ {Max(s)}], table[i], vocabulary[Max(s)])]
    BY DEF WithEntry
  <1> HIDE DEF W
  <1>5. \A k \in 1..n, t \in T : F[<<k, t>>] = WithEntry(t, table[i], vocabulary[k])
    OBVIOUS
  <1> HIDE DEF F, T, n
  <1>6. so \in T
    BY DEF T
  <1>7. PICK f \in [SUBSET (1..n) -> T] : Folds(f, F, so, n)
    BY <1>1, <1>2, <1>6, FoldsExist
  <1>8. f = W(f)
    <2>1. ASSUME NEW s \in SUBSET (1..n), s # {}
          PROVE  F[<<Max(s), f[s \ {Max(s)}]>>] = WithEntry(f[s \ {Max(s)}], table[i], vocabulary[Max(s)])
      <3>1. Max(s) \in 1..n /\ s \ {Max(s)} \in SUBSET (1..n)
        BY <1>1, <2>1, LastTakenAway
      <3> QED BY <1>5, <3>1
    <2>2. f = [s \in SUBSET (1..n) |-> IF s = {} THEN so ELSE F[<<Max(s), f[s \ {Max(s)}]>>]]
      BY <1>7 DEF Folds
    <2>3. f = [s \in SUBSET (1..n) |->
                        IF s = {} THEN so
                        ELSE WithEntry(f[s \ {Max(s)}], table[i], vocabulary[Max(s)])]
      BY <2>1, <2>2
    <2> QED BY <1>4, <2>3
  <1>9. PICK g : g = (CHOOSE h : h = W(h)) /\ g = W(g)
    BY <1>8
  <1>10. /\ g[{}] = so
         /\ \A s \in SUBSET (1..n) : s # {} =>
               g[s] = WithEntry(g[s \ {Max(s)}], table[i], vocabulary[Max(s)])
    <2>1. g = [s \in SUBSET (1..n) |->
                        IF s = {} THEN so
                        ELSE WithEntry(g[s \ {Max(s)}], table[i], vocabulary[Max(s)])]
      BY <1>4, <1>9
    <2>2. {} \in SUBSET (1..n)
      OBVIOUS
    <2> QED BY <2>1, <2>2
  <1>11. \A s \in SUBSET (1..n) :
            s # {} /\ g[s \ {Max(s)}] \in T => g[s] = F[<<Max(s), g[s \ {Max(s)}]>>]
    <2>1. ASSUME NEW s \in SUBSET (1..n), s # {}, g[s \ {Max(s)}] \in T
          PROVE  g[s] = F[<<Max(s), g[s \ {Max(s)}]>>]
      <3>1. Max(s) \in 1..n
        BY <1>1, <2>1, LastTakenAway
      <3> QED BY <1>5, <1>10, <2>1, <3>1
    <2> QED BY <2>1
  <1>12. PICK r \in [0..n -> T] : FoldedUp(r, F, g, so, n)
    <2>1. g[{}] = so
      BY <1>10
    <2>2. Agrees(g, F, T, so, n)
      BY <1>11, <2>1 DEF Agrees
    <2> QED BY <1>1, <1>2, <1>6, <2>2, FoldGoesUp
  <1>13. r[0] = so /\ r[n] = g[1..n] /\ \A k \in 1..n : r[k] = F[<<k, r[k - 1]>>]
    BY <1>12 DEF FoldedUp
  <1>14. \A k \in 1..n : r[k] = WithEntry(r[k - 1], table[i], vocabulary[k])
    <2>1. ASSUME NEW k \in 1..n PROVE r[k] = WithEntry(r[k - 1], table[i], vocabulary[k])
      <3>1. k - 1 \in 0..n
        BY <1>1
      <3> QED BY <1>5, <1>13, <3>1
    <2> QED BY <2>1
  <1> QED BY <1>3, <1>9, <1>13, <1>14 DEF n, T

LEMMA RowIsTyped ==
    ASSUME NEW table \in {Keywords, Entities}, vocabulary \in Dictionaries \cup Regions,
           NEW i \in Scan(table), NEW so \in Seq(Tallied)
    PROVE  WithRow(so, table[i]) \in Seq(Tallied)
  <1>1. PICK r \in [0..Len(vocabulary) -> Seq(Tallied)] :
              /\ r[0] = so /\ r[Len(vocabulary)] = WithRow(so, table[i])
              /\ \A k \in 1..Len(vocabulary) :
                    r[k] = WithEntry(r[k - 1], table[i], vocabulary[k])
    BY RowFolds
  <1>2. Len(vocabulary) \in 0..Len(vocabulary)
    BY WordsAreTyped
  <1>3. r[Len(vocabulary)] \in Seq(Tallied)
    BY <1>2
  <1> QED BY <1>1, <1>3

\* A row that the query gives is counted for every entry.
LEMMA RowIsCounted ==
    ASSUME NEW table \in {Keywords, Entities}, vocabulary \in Dictionaries \cup Regions,
           NEW c \in Counts, NEW i \in Scan(table), NEW so, Tally(so, CountTo(c, table, i, 0))
    PROVE  Tally(WithRow(so, table[i]), CountTo(c, table, i, Len(vocabulary)))
  <1>1. PICK n \in Nat : n = Len(vocabulary)
    BY WordsAreTyped
  <1>2. so \in Seq(Tallied)
    BY DEF Tally
  <1>3. PICK r \in [0..n -> Seq(Tallied)] :
              /\ r[0] = so /\ r[n] = WithRow(so, table[i])
              /\ \A k \in 1..n : r[k] = WithEntry(r[k - 1], table[i], vocabulary[k])
    BY <1>1, <1>2, RowFolds
  <1> DEFINE Right(k) == Tally(r[k], CountTo(c, table, i, k))
             Bad == {k \in 0..n : ~Right(k)}
  <1>4. Right(0)
    BY <1>3
  <1>5. ASSUME NEW k \in 1..n, Right(k - 1) PROVE Right(k)
    <2>1. Tally(WithEntry(r[k - 1], table[i], vocabulary[k]), CountTo(c, table, i, k))
      BY <1>1, <1>5, EntryIsCounted
    <2> QED BY <1>3, <2>1
  <1> HIDE DEF Right
  <1>6. Bad = {}
    <2> SUFFICES ASSUME Bad # {} PROVE FALSE
      OBVIOUS
    <2>1. PICK k \in Bad : \A m \in Bad : k <= m
      <3>1. Bad \subseteq Nat
        OBVIOUS
      <3> HIDE DEF Bad
      <3> QED BY <3>1, LeastNumber
    <2>2. k \in 1..n /\ k - 1 \in 0..n /\ k - 1 \notin Bad
      BY <1>4, <2>1
    <2> QED BY <1>5, <2>1, <2>2
  <1>7. Right(n)
    BY <1>6
  <1> QED BY <1>1, <1>3, <1>7 DEF Right

\* The outer loop, as a fold.
LEMMA TableFolds ==
    ASSUME NEW table \in {Keywords, Entities}, vocabulary \in Dictionaries \cup Regions,
           NEW so \in Seq(Tallied)
    PROVE  \E r \in [0..Len(table) -> Seq(Tallied)] :
              /\ r[0] = so /\ r[Len(table)] = WithRows(so, table)
              /\ \A i \in 1..Len(table) :
                    r[i] = IF i \in Scan(table) THEN WithRow(r[i - 1], table[i]) ELSE r[i - 1]
  <1> DEFINE n == Len(table)
             T == Seq(Tallied)
             ReadRow(t, i) == IF i \in Scan(table) THEN WithRow(t, table[i]) ELSE t
             F == [q \in (1..n) \X T |-> ReadRow(q[2], q[1])]
             At(i) == [k \in DOMAIN table |-> k][i]
             W(g) == [s \in SUBSET (1..n) |->
                        IF s = {} THEN so
                        ELSE IF At(Max(s)) \in Scan(table)
                             THEN WithRow(g[s \ {Max(s)}], table[At(Max(s))])
                             ELSE g[s \ {Max(s)}]]
  <1>1. n \in Nat /\ DOMAIN table = 1..n
    BY TablesAreTyped
  <1>2. ASSUME NEW i \in 1..n, NEW t \in T PROVE ReadRow(t, i) \in T
    <2>1. CASE i \in Scan(table)
      <3>1. WithRow(t, table[i]) \in Seq(Tallied)
        BY <2>1, RowIsTyped
      <3> QED BY <2>1, <3>1
    <2>2. CASE i \notin Scan(table)
      BY <2>2
    <2> QED BY <2>1, <2>2
  <1>3. WithRows(so, table) = (CHOOSE g : g = W(g))[1..n]
    BY <1>1 DEF WithRows, FoldLeftDomain, FoldLeft, MapThenFoldSet
  <1>4. \A i \in 1..n : At(i) = i
    BY <1>1
  <1> HIDE DEF At
  <1>5. ASSUME NEW g
        PROVE  W(g) = [s \in SUBSET (1..n) |->
                        IF s = {} THEN so ELSE ReadRow(g[s \ {Max(s)}], Max(s))]
    <2>1. ASSUME NEW s \in SUBSET (1..n), s # {} PROVE At(Max(s)) = Max(s)
      <3>1. Max(s) \in 1..n
        BY <1>1, <2>1, LastTakenAway
      <3> QED BY <1>4, <3>1
    <2> QED BY <2>1
  <1> HIDE DEF W, ReadRow
  <1>6. \A i \in 1..n, t \in T : F[<<i, t>>] = ReadRow(t, i)
    OBVIOUS
  <1>7. F \in [(1..n) \X T -> T]
    <2>1. ASSUME NEW q \in (1..n) \X T PROVE ReadRow(q[2], q[1]) \in T
      <3>1. q[1] \in 1..n /\ q[2] \in T
        OBVIOUS
      <3> HIDE DEF T, n
      <3> QED BY <1>2, <3>1
    <2> QED BY <2>1
  <1> HIDE DEF F, T, n
  <1>8. so \in T
    BY DEF T
  <1>9. PICK f \in [SUBSET (1..n) -> T] : Folds(f, F, so, n)
    BY <1>1, <1>7, <1>8, FoldsExist
  <1>10. f = W(f)
    <2>1. ASSUME NEW s \in SUBSET (1..n), s # {}
          PROVE  F[<<Max(s), f[s \ {Max(s)}]>>] = ReadRow(f[s \ {Max(s)}], Max(s))
      <3>1. Max(s) \in 1..n /\ s \ {Max(s)} \in SUBSET (1..n)
        BY <1>1, <2>1, LastTakenAway
      <3> QED BY <1>6, <3>1
    <2>2. f = [s \in SUBSET (1..n) |-> IF s = {} THEN so ELSE F[<<Max(s), f[s \ {Max(s)}]>>]]
      BY <1>9 DEF Folds
    <2>3. f = [s \in SUBSET (1..n) |-> IF s = {} THEN so ELSE ReadRow(f[s \ {Max(s)}], Max(s))]
      BY <2>1, <2>2
    <2> QED BY <1>5, <2>3
  <1>11. PICK g : g = (CHOOSE h : h = W(h)) /\ g = W(g)
    BY <1>10
  <1>12. Agrees(g, F, T, so, n)
    <2>1. g = [s \in SUBSET (1..n) |-> IF s = {} THEN so ELSE ReadRow(g[s \ {Max(s)}], Max(s))]
      BY <1>5, <1>11
    <2>2. {} \in SUBSET (1..n)
      OBVIOUS
    <2>3. g[{}] = so
      BY <2>1, <2>2
    <2>4. ASSUME NEW s \in SUBSET (1..n), s # {}, g[s \ {Max(s)}] \in T
          PROVE  g[s] = F[<<Max(s), g[s \ {Max(s)}]>>]
      <3>1. Max(s) \in 1..n
        BY <1>1, <2>4, LastTakenAway
      <3>2. g[s] = ReadRow(g[s \ {Max(s)}], Max(s))
        BY <2>1, <2>4
      <3> QED BY <1>6, <2>4, <3>1, <3>2
    <2> QED BY <2>3, <2>4 DEF Agrees
  <1>13. PICK r \in [0..n -> T] : FoldedUp(r, F, g, so, n)
    BY <1>1, <1>7, <1>8, <1>12, FoldGoesUp
  <1>14. r[0] = so /\ r[n] = g[1..n] /\ \A k \in 1..n : r[k] = F[<<k, r[k - 1]>>]
    BY <1>13 DEF FoldedUp
  <1>15. \A k \in 1..n : r[k] = ReadRow(r[k - 1], k)
    <2>1. ASSUME NEW k \in 1..n PROVE r[k] = ReadRow(r[k - 1], k)
      <3>1. k - 1 \in 0..n
        BY <1>1
      <3> QED BY <1>6, <1>14, <3>1
    <2> QED BY <2>1
  <1> QED BY <1>3, <1>11, <1>14, <1>15 DEF n, T, ReadRow

\* A table is counted when it is read.
LEMMA TableIsCounted ==
    ASSUME NEW table \in {Keywords, Entities}, vocabulary \in Dictionaries \cup Regions,
           NEW c \in Counts, NEW so, Tally(so, c), NEW e \in Counts,
           \A p \in Known \X (0..Days) : e[p] = c[p] + Cardinality(Hits(table, p[1], p[2]))
    PROVE  Tally(WithRows(so, table), e)
  <1>1. PICK n \in Nat : n = Len(table)
    BY TablesAreTyped
  <1>2. so \in Seq(Tallied)
    BY DEF Tally
  <1>3. PICK r \in [0..n -> Seq(Tallied)] :
              /\ r[0] = so /\ r[n] = WithRows(so, table)
              /\ \A i \in 1..n :
                    r[i] = IF i \in Scan(table) THEN WithRow(r[i - 1], table[i]) ELSE r[i - 1]
    <2>1. \E r \in [0..Len(table) -> Seq(Tallied)] :
              /\ r[0] = so /\ r[Len(table)] = WithRows(so, table)
              /\ \A i \in 1..Len(table) :
                    r[i] = IF i \in Scan(table) THEN WithRow(r[i - 1], table[i]) ELSE r[i - 1]
      BY <1>2, TableFolds
    <2> QED BY <1>1, <2>1
  <1>4. PICK l \in Nat : l = Len(vocabulary)
    BY WordsAreTyped
  <1> DEFINE Right(i) == Tally(r[i], CountTo(c, table, i, l))
             Bad == {i \in 0..n : ~Right(i)}
  <1>5. Right(0)
    <2>1. ASSUME NEW p \in Known \X (0..Days)
          PROVE  c[p] + Cardinality(Upto(table, p, 0, l)) = c[p]
      <3>1. Cardinality(Upto(table, p, 0, l)) = 0
        BY <1>4, UptoEnds, FS_EmptySet
      <3>2. c[p] \in Nat
        BY DEF Counts
      <3> QED BY <3>1, <3>2
    <2>2. CountTo(c, table, 0, l) = c
      BY <2>1 DEF CountTo, Counts
    <2> QED BY <1>3, <2>2
  <1>6. ASSUME NEW i \in 1..n, Right(i - 1) PROVE Right(i)
    <2>1. CountTo(c, table, i, 0) = CountTo(c, table, i - 1, l)
      <3>1. \A p \in Known \X (0..Days) : Upto(table, p, i, 0) = Upto(table, p, i - 1, l)
        BY <1>1, <1>4, UptoNext
      <3> QED BY <3>1 DEF CountTo
    <2>2. Tally(r[i - 1], CountTo(c, table, i, 0))
      BY <1>6, <2>1
    <2>3. CASE i \in Scan(table)
      <3>1. Tally(WithRow(r[i - 1], table[i]), CountTo(c, table, i, Len(vocabulary)))
        BY <2>2, <2>3, RowIsCounted
      <3> QED BY <1>3, <1>4, <2>3, <3>1
    <2>4. CASE i \notin Scan(table)
      <3>1. \A p \in Known \X (0..Days) : Upto(table, p, i, l) = Upto(table, p, i, 0)
        BY <1>1, <1>4, <2>4, UptoNext
      <3>2. CountTo(c, table, i, l) = CountTo(c, table, i, 0)
        BY <3>1 DEF CountTo
      <3> QED BY <1>3, <2>2, <2>4, <3>2
    <2> QED BY <2>3, <2>4
  <1> HIDE DEF Right
  <1>7. Bad = {}
    <2> SUFFICES ASSUME Bad # {} PROVE FALSE
      OBVIOUS
    <2>1. PICK k \in Bad : \A m \in Bad : k <= m
      <3>1. Bad \subseteq Nat
        OBVIOUS
      <3> HIDE DEF Bad
      <3> QED BY <3>1, LeastNumber
    <2>2. k \in 1..n /\ k - 1 \in 0..n /\ k - 1 \notin Bad
      BY <1>5, <2>1
    <2> QED BY <1>6, <2>1, <2>2
  <1>8. Right(n)
    BY <1>7
  <1>9. CountTo(c, table, n, l) = e
    <2>1. \A p \in Known \X (0..Days) : Upto(table, p, n, l) = Hits(table, p[1], p[2])
      BY <1>1, <1>4, UptoEnds
    <2>2. e = [p \in Known \X (0..Days) |-> e[p]]
      BY DEF Counts
    <2> QED BY <2>1, <2>2 DEF CountTo
  <1> QED BY <1>3, <1>8, <1>9 DEF Right

-----------------------------------------------------------------------------
\* The mentions of the year are those of both tables.
LEMMA MentionsAreHits ==
    ASSUME vocabulary \in Dictionaries \cup Regions
    PROVE  /\ InKeywords \in Counts /\ InBoth \in Counts
           /\ \A p \in Known \X (0..Days) :
                 /\ InKeywords[p] = Cardinality(Hits(Keywords, p[1], p[2]))
                 /\ InBoth[p] = InKeywords[p] + Cardinality(Hits(Entities, p[1], p[2]))
           /\ \A m \in Known, d \in 0..Days :
                 InBoth[<<m, d>>] = MentionsOn(m, d) /\ MentionsOn(m, d) \in Nat
  <1>1. \A m, d : MentionsOn(m, d) = Cardinality(Hits(Keywords, m, d)) + Cardinality(Hits(Entities, m, d))
    BY DEF MentionsOn, Hits
  <1>2. ASSUME NEW m, NEW d
        PROVE  Cardinality(Hits(Keywords, m, d)) \in Nat /\ Cardinality(Hits(Entities, m, d)) \in Nat
    <2>1. IsFiniteSet(Hits(Keywords, m, d)) /\ IsFiniteSet(Hits(Entities, m, d))
      BY HitsAreFinite
    <2> QED BY <2>1, FS_CardinalityType
  <1>3. \A m, d : MentionsOn(m, d) \in Nat
    BY <1>1, <1>2
  <1>4. InKeywords \in Counts /\ InBoth \in Counts
    BY <1>2, <1>3 DEF InKeywords, InBoth, Counts
  <1>5. \A p \in Known \X (0..Days) :
                 /\ InKeywords[p] = Cardinality(Hits(Keywords, p[1], p[2]))
                 /\ InBoth[p] = InKeywords[p] + Cardinality(Hits(Entities, p[1], p[2]))
    BY <1>1 DEF InKeywords, InBoth
  <1>6. ASSUME NEW m \in Known, NEW d \in 0..Days PROVE InBoth[<<m, d>>] = MentionsOn(m, d)
    <2>1. <<m, d>> \in Known \X (0..Days) /\ <<m, d>>[1] = m /\ <<m, d>>[2] = d
      OBVIOUS
    <2> QED BY <2>1 DEF InBoth
  <1> QED BY <1>3, <1>4, <1>5, <1>6

\* Both scans leave the terms counted that are mentioned.
LEMMA KeywordsAreCounted ==
    ASSUME vocabulary \in Dictionaries \cup Regions
    PROVE  Tally(WithRows(<<>>, Keywords), InKeywords)
  <1> DEFINE c == [p \in Known \X (0..Days) |-> 0]
  <1>1. c \in Counts
    BY DEF Counts
  <1>2. Tally(<<>>, c)
    <2>1. <<>> \in Seq(Tallied) /\ DOMAIN <<>> = {}
      OBVIOUS
    <2>2. ASSUME NEW m \in Known, NEW d \in 0..Days PROVE ~ c[<<m, d>>] > 0
      <3>1. <<m, d>> \in Known \X (0..Days)
        OBVIOUS
      <3>2. c[<<m, d>>] = 0
        BY <3>1
      <3> QED BY <3>2
    <2> HIDE DEF c
    <2> QED BY <2>1, <2>2 DEF Tally
  <1>3. \A p \in Known \X (0..Days) : InKeywords[p] = c[p] + Cardinality(Hits(Keywords, p[1], p[2]))
    <2>1. ASSUME NEW p \in Known \X (0..Days)
          PROVE  InKeywords[p] = 0 + Cardinality(Hits(Keywords, p[1], p[2]))
      <3>1. InKeywords[p] = Cardinality(Hits(Keywords, p[1], p[2])) /\ InKeywords[p] \in Nat
        BY MentionsAreHits DEF Counts
      <3> QED BY <3>1
    <2> QED BY <2>1
  <1> HIDE DEF c
  <1> QED BY <1>1, <1>2, <1>3, MentionsAreHits, TableIsCounted

LEMMA EntitiesAreCounted ==
    ASSUME vocabulary \in Dictionaries \cup Regions, NEW so, Tally(so, InKeywords)
    PROVE  Tally(WithRows(so, Entities), InBoth)
  <1>1. InKeywords \in Counts /\ InBoth \in Counts
    BY MentionsAreHits
  <1>2. \A p \in Known \X (0..Days) :
           InBoth[p] = InKeywords[p] + Cardinality(Hits(Entities, p[1], p[2]))
    BY MentionsAreHits
  <1> QED BY <1>1, <1>2, TableIsCounted

-----------------------------------------------------------------------------
\* A sum over days, as the sum that DataProofs is about.
LEMMA TotalIsSum ==
    ASSUME NEW f \in [0..Days -> Int]
    PROVE  MapThenSumSet(LAMBDA d : f[d], 0..Days) = SumOn(f, 0..Days)
  <1> DEFINE Written(g) == [s \in SUBSET (0..Days) |->
                              IF s = {} THEN 0 ELSE f[Pick(s)] + g[s \ {Pick(s)}]]
  <1>1. MapThenSumSet(LAMBDA d : f[d], 0..Days) = (CHOOSE g : g = Written(g))[0..Days]
    BY DEF MapThenSumSet, MapThenFoldSet, Pick
  <1>2. ASSUME NEW g PROVE g = Written(g) <=> Sums(g, f, 0..Days)
    BY DEF Sums
  <1> HIDE DEF Written
  <1>3. (CHOOSE g : g = Written(g)) = (CHOOSE g : Sums(g, f, 0..Days))
    BY <1>2
  <1> QED BY <1>1, <1>3 DEF SumOn

LEMMA MentionsAddUp ==
    ASSUME vocabulary \in Dictionaries \cup Regions, NEW t \in Tallied,
           \A d \in 0..Days : t.mentions[d] = MentionsOn(t.term, d)
    PROVE  /\ TotalOf(t) \in Int
           /\ TotalOf(t) = MapThenSumSet(LAMBDA d : MentionsOn(t.term, d), 0..Days)
  <1>1. t.mentions \in [0..Days -> Int] /\ t.term \in Known
    BY DEF Tallied
  <1> DEFINE f == [d \in 0..Days |-> MentionsOn(t.term, d)]
  <1>2. f = t.mentions
    BY <1>1
  <1>3. TotalOf(t) = SumOn(t.mentions, 0..Days)
    BY <1>1, TotalIsSum DEF TotalOf
  <1>4. MapThenSumSet(LAMBDA d : f[d], 0..Days) = MapThenSumSet(LAMBDA d : MentionsOn(t.term, d), 0..Days)
    <2> DEFINE A(g) == [s \in SUBSET (0..Days) |->
                          IF s = {} THEN 0
                          ELSE f[CHOOSE x \in s : TRUE] + g[s \ {CHOOSE x \in s : TRUE}]]
               B(g) == [s \in SUBSET (0..Days) |->
                          IF s = {} THEN 0
                          ELSE MentionsOn(t.term, CHOOSE x \in s : TRUE) + g[s \ {CHOOSE x \in s : TRUE}]]
    <2>1. \A g : A(g) = B(g)
      OBVIOUS
    <2>2. MapThenSumSet(LAMBDA d : f[d], 0..Days) = (CHOOSE g : g = A(g))[0..Days]
      BY DEF MapThenSumSet, MapThenFoldSet
    <2>3. MapThenSumSet(LAMBDA d : MentionsOn(t.term, d), 0..Days) = (CHOOSE g : g = B(g))[0..Days]
      BY DEF MapThenSumSet, MapThenFoldSet
    <2> HIDE DEF A, B
    <2>4. (CHOOSE g : g = A(g)) = (CHOOSE g : g = B(g))
      BY <2>1
    <2> QED BY <2>2, <2>3, <2>4
  <1>5. SumOn(t.mentions, 0..Days) \in Int
    <2>1. IsFiniteSet(0..Days)
      BY ActivityIsTyped, FS_Interval
    <2> QED BY <1>1, <2>1, SumFacts
  <1>6. MapThenSumSet(LAMBDA d : f[d], 0..Days) = SumOn(f, 0..Days)
    <2>1. f \in [0..Days -> Int]
      BY <1>1, <1>2
    <2> HIDE DEF f
    <2> QED BY <2>1, TotalIsSum
  <1> HIDE DEF f
  <1> QED BY <1>2, <1>3, <1>4, <1>5, <1>6

\* CalcPAVals gives a term its value: its frequency, or all its mentions.
LEMMA ValueIs ==
    ASSUME vocabulary \in Dictionaries \cup Regions, NEW t \in Tallied,
           \A d \in 0..Days : t.mentions[d] = MentionsOn(t.term, d)
    PROVE  /\ (IF monitor[1] = "keywords" THEN FrequencyOf(t) ELSE TotalOf(t)) \in Int
           /\ (IF monitor[1] = "keywords" THEN FrequencyOf(t) ELSE TotalOf(t)) = ValueOf(t.term)
  <1>1. CASE monitor[1] = "keywords"
    <2> DEFINE meant == {k \in DOMAIN vocabulary : vocabulary[k].main = t.term}
    <2>1. t.term \in Known
      BY DEF Tallied
    <2>2. meant # {}
      BY <2>1 DEF Known
    <2>3. meant \subseteq 1..Len(vocabulary) /\ meant \subseteq Nat
      BY WordsAreTyped
    <2>4. IsFiniteSet(1..Len(vocabulary))
      BY WordsAreTyped, FS_Interval
    <2>5. IsFiniteSet(meant)
      BY <2>3, <2>4, FS_Subset
    <2>6. FrequencyOf(t) = vocabulary[Max(meant)].freq
      BY <2>2 DEF FrequencyOf
    <2>7. ValueOf(t.term) = vocabulary[Max(meant)].freq
      BY <1>1 DEF ValueOf
    <2>8. meant \subseteq DOMAIN vocabulary
      OBVIOUS
    <2> HIDE DEF meant
    <2>9. Max(meant) \in DOMAIN vocabulary
      BY <2>2, <2>3, <2>5, <2>8, FirstAndLast
    <2> QED BY <1>1, <2>6, <2>7, <2>9, WordsAreTyped
  <1>2. CASE monitor[1] # "keywords"
    <2>1. ValueOf(t.term) = MapThenSumSet(LAMBDA d : MentionsOn(t.term, d), 0..Days)
      BY <1>2 DEF ValueOf
    <2> QED BY <1>2, <2>1, MentionsAddUp
  <1> QED BY <1>1, <1>2

-----------------------------------------------------------------------------
\* The list after two neighbours of it are exchanged.
Traded(so, i) == [so EXCEPT ![i] = so[i - 1], ![i - 1] = so[i]]

LEMMA SwapIs ==
    ASSUME NEW so \in Seq(Tallied), NEW i \in 2..Len(so)
    PROVE  /\ Traded(so, i) \in Seq(Tallied) /\ Len(Traded(so, i)) = Len(so)
           /\ DOMAIN so = 1..Len(so) /\ DOMAIN Traded(so, i) = 1..Len(so)
           /\ Traded(so, i)[i] = so[i - 1] /\ Traded(so, i)[i - 1] = so[i]
           /\ \A j \in 1..Len(so) : j # i /\ j # i - 1 => Traded(so, i)[j] = so[j]
  <1>1. PICK n \in Nat : n = Len(so)
    OBVIOUS
  <1>2. so \in [1..n -> Tallied] /\ DOMAIN so = 1..n /\ i \in 1..n /\ i - 1 \in 1..n
    BY <1>1
  <1>3. so[i] \in Tallied /\ so[i - 1] \in Tallied
    BY <1>2
  <1>4. Traded(so, i) \in [1..n -> Tallied]
    BY <1>2, <1>3 DEF Traded
  <1>5. Traded(so, i) \in Seq(Tallied) /\ Len(Traded(so, i)) = n
    BY <1>4
  <1>6. /\ Traded(so, i)[i] = so[i - 1] /\ Traded(so, i)[i - 1] = so[i]
        /\ \A j \in 1..n : j # i /\ j # i - 1 => Traded(so, i)[j] = so[j]
    BY <1>2 DEF Traded
  <1> QED BY <1>1, <1>2, <1>4, <1>5, <1>6

LEMMA SwapKeeps ==
    ASSUME NEW c, NEW so, Tally(so, c), Valued(so), NEW i \in 2..Len(so)
    PROVE  Tally(Traded(so, i), c) /\ Valued(Traded(so, i))
  <1> DEFINE w == Traded(so, i)
             o(j) == IF j = i THEN i - 1 ELSE IF j = i - 1 THEN i ELSE j
  <1>1. PICK n \in Nat : n = Len(so)
    BY DEF Tally
  <1>2. /\ w \in Seq(Tallied) /\ DOMAIN so = 1..n /\ DOMAIN w = 1..n
        /\ w[i] = so[i - 1] /\ w[i - 1] = so[i]
        /\ \A j \in 1..n : j # i /\ j # i - 1 => w[j] = so[j]
    BY <1>1, SwapIs DEF Tally
  <1>3. i \in 2..n
    BY <1>1
  <1> HIDE DEF w
  <1>4. \A j \in 1..n : o(j) \in 1..n /\ w[j] = so[o(j)]
    BY <1>2, <1>3
  <1>5. \A j \in 1..n : o(o(j)) = j
    BY <1>3
  <1>6. \A j \in 1..n : so[j] = w[o(j)]
    BY <1>4, <1>5
  <1> HIDE DEF o
  <1>7. \A j, k \in DOMAIN w : w[j].term = w[k].term => j = k
    <2>1. ASSUME NEW j \in 1..n, NEW k \in 1..n, w[j].term = w[k].term PROVE j = k
      <3>1. \A a, b \in 1..n : so[a].term = so[b].term => a = b
        BY <1>2 DEF Tally
      <3>2. PICK a \in 1..n : a = o(j) /\ w[j] = so[a]
        BY <1>4
      <3>3. PICK b \in 1..n : b = o(k) /\ w[k] = so[b]
        BY <1>4
      <3>4. a = b
        BY <2>1, <3>1, <3>2, <3>3
      <3> QED BY <1>5, <3>2, <3>3, <3>4
    <2> QED BY <1>2, <2>1
  <1>8. \A j \in DOMAIN w : \A d \in 0..Days : w[j].mentions[d] = c[<<w[j].term, d>>]
    <2>1. ASSUME NEW j \in 1..n, NEW d \in 0..Days
          PROVE  w[j].mentions[d] = c[<<w[j].term, d>>]
      <3>1. PICK a \in 1..n : a = o(j) /\ w[j] = so[a]
        BY <1>4
      <3>2. so[a].mentions[d] = c[<<so[a].term, d>>]
        BY <1>2 DEF Tally
      <3> QED BY <3>1, <3>2
    <2> QED BY <1>2, <2>1
  <1>9. ASSUME NEW m \in Known
        PROVE  (\E j \in DOMAIN w : w[j].term = m) <=> \E d \in 0..Days : c[<<m, d>>] > 0
    <2>1. (\E j \in DOMAIN w : w[j].term = m) <=> \E j \in DOMAIN so : so[j].term = m
      <3>1. ASSUME NEW j \in 1..n, w[j].term = m PROVE \E a \in 1..n : so[a].term = m
        <4>1. PICK a \in 1..n : a = o(j) /\ w[j] = so[a]
          BY <1>4
        <4> QED BY <3>1, <4>1
      <3>2. ASSUME NEW j \in 1..n, so[j].term = m PROVE \E a \in 1..n : w[a].term = m
        <4>1. PICK a \in 1..n : a = o(j)
          BY <1>4
        <4>2. so[j] = w[a]
          BY <1>6, <4>1
        <4> QED BY <3>2, <4>2
      <3> QED BY <1>2, <3>1, <3>2
    <2> QED BY <2>1 DEF Tally
  <1>10. Valued(w)
    <2>1. ASSUME NEW j \in 1..n PROVE w[j].val = ValueOf(w[j].term)
      <3>1. PICK a \in 1..n : a = o(j) /\ w[j] = so[a]
        BY <1>4
      <3>2. so[a].val = ValueOf(so[a].term)
        BY <1>2 DEF Valued
      <3> QED BY <3>1, <3>2
    <2> QED BY <1>2, <2>1 DEF Valued
  <1>11. Tally(w, c)
    BY <1>2, <1>7, <1>8, <1>9 DEF Tally
  <1> QED BY <1>10, <1>11 DEF w

\* What a pass has on the way: the list, and where the last exchange was.
Passing(n) == {q \in [list : Seq(Tallied), last : Int] : Len(q.list) = n}

LEMMA ExchangedIs ==
    ASSUME NEW n \in Nat, NEW q \in Passing(n), NEW i \in 2..n
    PROVE  /\ Exchanged(q, i) \in Passing(n)
           /\ q.list[i].val \in Int /\ q.list[i - 1].val \in Int
           /\ q.list[i].val > q.list[i - 1].val =>
                 Exchanged(q, i).list = Traded(q.list, i) /\ Exchanged(q, i).last = i - 1
           /\ ~(q.list[i].val > q.list[i - 1].val) => Exchanged(q, i) = q
  <1>1. q.list \in Seq(Tallied) /\ Len(q.list) = n /\ q.last \in Int
    BY DEF Passing
  <1>2. PICK so \in Seq(Tallied) : so = q.list /\ Len(so) = n
    BY <1>1
  <1>3. Traded(so, i) \in Seq(Tallied) /\ Len(Traded(so, i)) = n
    BY <1>2, SwapIs
  <1>4. so[i] \in Tallied /\ so[i - 1] \in Tallied
    <2>1. DOMAIN so = 1..n /\ i \in 1..n /\ i - 1 \in 1..n
      BY <1>2, SwapIs
    <2> QED BY <1>2, <2>1
  <1>5. so[i].val \in Int /\ so[i - 1].val \in Int
    BY <1>4 DEF Tallied
  <1>6. CASE so[i].val > so[i - 1].val
    <2>1. Exchanged(q, i) = [list |-> Traded(so, i), last |-> i - 1]
      BY <1>2, <1>6 DEF Exchanged, Traded
    <2>2. Exchanged(q, i) \in Passing(n)
      BY <1>3, <2>1 DEF Passing
    <2> QED BY <1>2, <1>5, <1>6, <2>1, <2>2
  <1>7. CASE ~(so[i].val > so[i - 1].val)
    <2>1. Exchanged(q, i) = q
      BY <1>2, <1>7 DEF Exchanged
    <2> QED BY <1>2, <1>5, <1>7, <2>1
  <1> QED BY <1>6, <1>7

\* A pass over the first n, as a fold of m steps.
LEMMA PassFolds ==
    ASSUME NEW so \in Seq(Tallied), NEW n \in 0..Len(so), NEW m \in Nat,
           m = IF n = 0 THEN 0 ELSE n - 1
    PROVE  \E r \in [0..m -> Passing(Len(so))] :
              /\ r[0] = [list |-> so, last |-> 0] /\ r[m] = Pass(so, n)
              /\ \A k \in 1..m : r[k] = Exchanged(r[k - 1], k + 1)
  <1> DEFINE T == Passing(Len(so))
             F == [q \in (1..m) \X T |-> Exchanged(q[2], q[1] + 1)]
             base == [list |-> so, last |-> 0]
             places == [i \in 1..n - 1 |-> i + 1]
             W(g) == [s \in SUBSET DOMAIN places |->
                        IF s = {} THEN base
                        ELSE Exchanged(g[s \ {Max(s)}], places[Max(s)])]
  <1>1. Len(so) \in Nat /\ n \in Nat /\ 1..n - 1 = 1..m /\ \A k \in 1..m : k + 1 \in 2..Len(so)
    <2>1. Len(so) \in Nat
      OBVIOUS
    <2>2. CASE n = 0
      BY <2>1, <2>2
    <2>3. CASE n # 0
      BY <2>1, <2>3
    <2> QED BY <2>1, <2>2, <2>3
  <1>2. F \in [(1..m) \X T -> T]
    <2>1. ASSUME NEW q \in (1..m) \X T PROVE Exchanged(q[2], q[1] + 1) \in T
      <3>1. q[1] + 1 \in 2..Len(so) /\ q[2] \in T
        BY <1>1
      <3> QED BY <1>1, <3>1, ExchangedIs
    <2> QED BY <2>1
  <1>3. Pass(so, n) = (CHOOSE g : g = W(g))[1..m]
    <2>1. DOMAIN places = 1..m
      BY <1>1
    <2>2. Pass(so, n) = (CHOOSE g : g = W(g))[DOMAIN places]
      BY DEF Pass, FoldLeft, MapThenFoldSet
    <2> HIDE DEF W, places
    <2> QED BY <2>1, <2>2
  <1>4. \A g : W(g) = [s \in SUBSET (1..m) |->
                        IF s = {} THEN base ELSE Exchanged(g[s \ {Max(s)}], Max(s) + 1)]
    <2>1. DOMAIN places = 1..m /\ \A k \in 1..m : places[k] = k + 1
      BY <1>1
    <2>2. ASSUME NEW s \in SUBSET (1..m), s # {} PROVE places[Max(s)] = Max(s) + 1
      <3>1. Max(s) \in 1..m
        BY <2>2, LastTakenAway
      <3> HIDE DEF places
      <3> QED BY <2>1, <3>1
    <2> HIDE DEF places, base
    <2> QED BY <2>1, <2>2
  <1> HIDE DEF W, places
  <1>5. \A k \in 1..m, t \in T : F[<<k, t>>] = Exchanged(t, k + 1)
    OBVIOUS
  <1>6. base \in T
    BY DEF Passing
  <1> HIDE DEF F, T, base
  <1>7. PICK f \in [SUBSET (1..m) -> T] : Folds(f, F, base, m)
    BY <1>2, <1>6, FoldsExist
  <1>8. f = W(f)
    <2>1. ASSUME NEW s \in SUBSET (1..m), s # {}
          PROVE  F[<<Max(s), f[s \ {Max(s)}]>>] = Exchanged(f[s \ {Max(s)}], Max(s) + 1)
      <3>1. Max(s) \in 1..m /\ s \ {Max(s)} \in SUBSET (1..m)
        BY <2>1, LastTakenAway
      <3> QED BY <1>5, <3>1
    <2>2. f = [s \in SUBSET (1..m) |-> IF s = {} THEN base ELSE F[<<Max(s), f[s \ {Max(s)}]>>]]
      BY <1>7 DEF Folds
    <2>3. f = [s \in SUBSET (1..m) |->
                        IF s = {} THEN base ELSE Exchanged(f[s \ {Max(s)}], Max(s) + 1)]
      BY <2>1, <2>2
    <2> QED BY <1>4, <2>3
  <1>9. PICK g : g = (CHOOSE h : h = W(h)) /\ g = W(g)
    BY <1>8
  <1>10. /\ g[{}] = base
         /\ \A s \in SUBSET (1..m) : s # {} => g[s] = Exchanged(g[s \ {Max(s)}], Max(s) + 1)
    <2>1. g = [s \in SUBSET (1..m) |->
                        IF s = {} THEN base ELSE Exchanged(g[s \ {Max(s)}], Max(s) + 1)]
      BY <1>4, <1>9
    <2>2. {} \in SUBSET (1..m)
      OBVIOUS
    <2> QED BY <2>1, <2>2
  <1>11. \A s \in SUBSET (1..m) :
            s # {} /\ g[s \ {Max(s)}] \in T => g[s] = F[<<Max(s), g[s \ {Max(s)}]>>]
    <2>1. ASSUME NEW s \in SUBSET (1..m), s # {}, g[s \ {Max(s)}] \in T
          PROVE  g[s] = F[<<Max(s), g[s \ {Max(s)}]>>]
      <3>1. Max(s) \in 1..m
        BY <2>1, LastTakenAway
      <3> QED BY <1>5, <1>10, <2>1, <3>1
    <2> QED BY <2>1
  <1>12. PICK r \in [0..m -> T] : FoldedUp(r, F, g, base, m)
    <2>1. Agrees(g, F, T, base, m)
      BY <1>10, <1>11 DEF Agrees
    <2> QED BY <1>2, <1>6, <2>1, FoldGoesUp
  <1>13. r[0] = base /\ r[m] = g[1..m] /\ \A k \in 1..m : r[k] = F[<<k, r[k - 1]>>]
    BY <1>12 DEF FoldedUp
  <1>14. \A k \in 1..m : r[k] = Exchanged(r[k - 1], k + 1)
    <2>1. ASSUME NEW k \in 1..m PROVE r[k] = Exchanged(r[k - 1], k + 1)
      <3>1. k - 1 \in 0..m
        OBVIOUS
      <3> QED BY <1>5, <1>13, <3>1
    <2> QED BY <2>1
  <1> QED BY <1>3, <1>9, <1>13, <1>14 DEF T, base

\* How far a pass over a list has come with its k-th step: what it has gone over is
\* where it belongs after the last exchange, and the rest is as it was.
PassedTo(so, c, k, q) ==
    /\ Tally(q.list, c) /\ Valued(q.list) /\ Len(q.list) = Len(so) /\ q.last \in 0..k
    /\ \A j \in 1..Len(so) : j > k + 1 => q.list[j] = so[j]
    /\ \A j \in 1..Len(so) : j <= k + 1 => \E b \in 1..Len(so) : b <= k + 1 /\ q.list[j] = so[b]
    /\ \A i, j \in 1..Len(so) : i < j /\ q.last < j /\ j <= k + 1 => q.list[i].val >= q.list[j].val

LEMMA PassGoesOn ==
    ASSUME NEW c, NEW so \in Seq(Tallied), NEW k \in Nat, k > 0, k < Len(so),
           NEW q \in Passing(Len(so)), PassedTo(so, c, k - 1, q)
    PROVE  PassedTo(so, c, k, Exchanged(q, k + 1))
  <1> DEFINE i == k + 1
             z == Exchanged(q, k + 1)
  <1>1. PICK n \in Nat : n = Len(so)
    OBVIOUS
  <1>2. i \in 2..n /\ i - 1 = k /\ k \in 1..n /\ i \in 1..n
    BY <1>1
  <1>3. PICK w \in Seq(Tallied) : w = q.list /\ Len(w) = n
    BY <1>1 DEF Passing
  <1>4. /\ q.list[i].val \in Int /\ q.list[k].val \in Int
        /\ q.list[i].val > q.list[k].val => z.list = Traded(w, i) /\ z.last = k
        /\ ~(q.list[i].val > q.list[k].val) => z = q
    BY <1>1, <1>2, <1>3, ExchangedIs
  <1> HIDE DEF z
  <1>5. Tally(w, c) /\ Valued(w) /\ q.last \in 0..k - 1
    BY <1>3 DEF PassedTo
  <1>6. \A j \in 1..n : j > k => w[j] = so[j]
    <2>1. k - 1 + 1 = k
      OBVIOUS
    <2> QED BY <1>1, <1>3, <2>1 DEF PassedTo
  <1>7. \A j \in 1..n : j <= k => \E b \in 1..n : b <= k /\ w[j] = so[b]
    <2>1. k - 1 + 1 = k
      OBVIOUS
    <2> QED BY <1>1, <1>3, <2>1 DEF PassedTo
  <1>8. \A a, j \in 1..n : a < j /\ q.last < j /\ j <= k => w[a].val >= w[j].val
    <2>1. k - 1 + 1 = k
      OBVIOUS
    <2> QED BY <1>1, <1>3, <2>1 DEF PassedTo
  <1>9. \A j \in 1..n : w[j].val \in Int
    <2>1. ASSUME NEW j \in 1..n PROVE w[j].val \in Int
      <3>1. w[j] \in Tallied
        BY <1>3
      <3> QED BY <3>1 DEF Tallied
    <2> QED BY <2>1
  <1>10. \A a \in 1..n : a < k => w[a].val >= w[k].val
    <2>1. q.last < k
      BY <1>5
    <2> QED BY <1>2, <1>8, <2>1
  <1>11. CASE w[i].val > w[k].val
    <2>1. /\ z.list = Traded(w, i) /\ z.last = k
      BY <1>3, <1>4, <1>11
    <2>2. PICK v : v = Traded(w, i)
      OBVIOUS
    <2>3. /\ Len(v) = n /\ v[i] = w[k] /\ v[k] = w[i]
          /\ \A j \in 1..n : j # i /\ j # k => v[j] = w[j]
      BY <1>2, <1>3, <2>2, SwapIs
    <2>4. Tally(v, c) /\ Valued(v)
      BY <1>2, <1>3, <1>5, <2>2, SwapKeeps
    <2>5. \A j \in 1..n : j > k + 1 => v[j] = so[j]
      BY <1>2, <1>6, <2>3
    <2>6. ASSUME NEW j \in 1..n, j <= k + 1 PROVE \E b \in 1..n : b <= k + 1 /\ v[j] = so[b]
      <3>1. CASE j = k
        <4>1. w[i] = so[i]
          BY <1>2, <1>6
        <4>2. v[j] = so[i]
          BY <2>3, <3>1, <4>1
        <4> QED BY <1>2, <4>2
      <3>2. CASE j = i
        <4>1. k \in 1..n /\ k <= k
          BY <1>2
        <4>2. \E b \in 1..n : b <= k /\ w[k] = so[b]
          BY <1>7, <4>1
        <4>3. PICK b \in 1..n : b <= k /\ w[k] = so[b]
          BY <4>2
        <4>4. b <= k + 1 /\ v[j] = w[k]
          BY <2>3, <3>2, <4>3
        <4> QED BY <4>3, <4>4
      <3>3. CASE j # k /\ j # i
        <4>1. j <= k /\ v[j] = w[j]
          BY <1>2, <2>3, <2>6, <3>3
        <4>2. PICK b \in 1..n : b <= k /\ w[j] = so[b]
          BY <1>7, <4>1
        <4>3. b <= k + 1
          BY <4>2
        <4> QED BY <4>1, <4>2, <4>3
      <3> QED BY <3>1, <3>2, <3>3
    <2>7. ASSUME NEW a \in 1..n, NEW j \in 1..n, a < j, k < j, j <= k + 1
          PROVE  v[a].val >= v[j].val
      <3>1. j = i /\ a <= k
        BY <2>7
      <3>2. CASE a = k
        BY <1>2, <1>9, <1>11, <2>3, <3>1, <3>2
      <3>3. CASE a < k
        <4>1. v[a] = w[a] /\ v[j] = w[k]
          BY <1>2, <2>3, <3>1, <3>3
        <4> QED BY <1>10, <3>3, <4>1
      <3> QED BY <3>1, <3>2, <3>3
    <2>8. z.list = v /\ z.last = k /\ z.last \in 0..k
      BY <2>1, <2>2
    <2> HIDE DEF i
    <2> QED BY <1>1, <2>3, <2>4, <2>5, <2>6, <2>7, <2>8 DEF PassedTo, z
  <1>12. CASE ~(w[i].val > w[k].val)
    <2>1. z = q
      BY <1>3, <1>4, <1>12
    <2>2. \A j \in 1..n : j > k + 1 => w[j] = so[j]
      BY <1>6
    <2>3. ASSUME NEW j \in 1..n, j <= k + 1 PROVE \E b \in 1..n : b <= k + 1 /\ w[j] = so[b]
      <3>1. CASE j = i
        <4>1. i > k /\ i <= k + 1 /\ i \in 1..n
          BY <1>2
        <4>2. w[j] = so[i]
          BY <1>6, <3>1, <4>1
        <4> QED BY <4>1, <4>2
      <3>2. CASE j # i
        <4>1. j <= k
          BY <2>3, <3>2
        <4>2. PICK b \in 1..n : b <= k /\ w[j] = so[b]
          BY <1>7, <4>1
        <4>3. b <= k + 1
          BY <4>2
        <4> QED BY <4>2, <4>3
      <3> QED BY <3>1, <3>2
    <2>4. ASSUME NEW a \in 1..n, NEW j \in 1..n, a < j, q.last < j, j <= k + 1
          PROVE  w[a].val >= w[j].val
      <3>1. CASE j <= k
        BY <1>8, <2>4, <3>1
      <3>2. CASE j > k
        <4>1. j = i /\ a <= k
          BY <2>4, <3>2
        <4>2. w[k].val >= w[i].val
          BY <1>2, <1>9, <1>12
        <4>3. a = k \/ w[a].val >= w[k].val
          BY <1>10, <4>1
        <4>4. w[a].val \in Int /\ w[k].val \in Int /\ w[i].val \in Int
          BY <1>2, <1>9
        <4> QED BY <4>1, <4>2, <4>3, <4>4
      <3> QED BY <3>1, <3>2
    <2>5. q.last \in 0..k
      BY <1>5
    <2> HIDE DEF i
    <2> QED BY <1>1, <1>3, <1>5, <2>1, <2>2, <2>3, <2>4, <2>5 DEF PassedTo, z
  <1> QED BY <1>11, <1>12

\* A pass keeps the terms, and leaves in order what comes after its last exchange.
LEMMA PassSorts ==
    ASSUME NEW c, NEW so, Tally(so, c), Valued(so), NEW n \in 0..Len(so), Falling(so, n)
    PROVE  /\ Tally(Pass(so, n).list, c) /\ Valued(Pass(so, n).list)
           /\ Pass(so, n).last \in 0..Len(Pass(so, n).list)
           /\ Falling(Pass(so, n).list, Pass(so, n).last)
  <1> DEFINE m == IF n = 0 THEN 0 ELSE n - 1
  <1>1. so \in Seq(Tallied) /\ Len(so) \in Nat /\ n \in Nat /\ DOMAIN so = 1..Len(so)
    BY DEF Tally
  <1>2. m \in Nat /\ m <= Len(so) /\ n <= m + 1 /\ (m = 0 \/ m + 1 = n)
    BY <1>1
  <1> HIDE DEF m
  <1>3. PICK r \in [0..m -> Passing(Len(so))] :
              /\ r[0] = [list |-> so, last |-> 0] /\ r[m] = Pass(so, n)
              /\ \A k \in 1..m : r[k] = Exchanged(r[k - 1], k + 1)
    BY <1>1, <1>2, PassFolds DEF m
  <1> DEFINE Right(k) == PassedTo(so, c, k, r[k])
             Bad == {k \in 0..m : ~Right(k)}
  <1>4. Right(0)
    <2>1. r[0].list = so /\ r[0].last = 0
      BY <1>3
    <2>2. \A j \in 1..Len(so) : j <= 0 + 1 => \E b \in 1..Len(so) : b <= 0 + 1 /\ so[j] = so[b]
      OBVIOUS
    <2>3. \A i, j \in 1..Len(so) : ~(i < j /\ 0 < j /\ j <= 0 + 1)
      BY <1>1
    <2> QED BY <1>1, <2>1, <2>2, <2>3 DEF PassedTo
  <1>5. ASSUME NEW k \in 1..m, Right(k - 1) PROVE Right(k)
    <2>1. k \in Nat /\ k > 0 /\ k < Len(so) /\ k - 1 \in 0..m
      BY <1>1, <1>2
    <2>2. r[k - 1] \in Passing(Len(so)) /\ r[k] = Exchanged(r[k - 1], k + 1)
      BY <1>3, <2>1
    <2>3. PassedTo(so, c, k, Exchanged(r[k - 1], k + 1))
      BY <1>1, <1>5, <2>1, <2>2, PassGoesOn
    <2> QED BY <2>2, <2>3
  <1> HIDE DEF Right
  <1>6. Bad = {}
    <2> SUFFICES ASSUME Bad # {} PROVE FALSE
      OBVIOUS
    <2>1. PICK k \in Bad : \A j \in Bad : k <= j
      <3>1. Bad \subseteq Nat
        OBVIOUS
      <3> HIDE DEF Bad
      <3> QED BY <3>1, LeastNumber
    <2>2. k \in 1..m /\ k - 1 \in 0..m /\ k - 1 \notin Bad
      BY <1>2, <1>4, <2>1
    <2> QED BY <1>5, <2>1, <2>2
  <1>7. Right(m)
    BY <1>2, <1>6
  <1>8. PICK q \in Passing(Len(so)) : q = Pass(so, n) /\ PassedTo(so, c, m, q)
    BY <1>2, <1>3, <1>7 DEF Right
  <1>9. PICK w \in Seq(Tallied) : w = q.list /\ Len(w) = Len(so) /\ DOMAIN w = 1..Len(so)
    BY <1>1, <1>8 DEF Passing
  <1>10. Tally(w, c) /\ Valued(w) /\ q.last \in 0..Len(w)
    <2>1. q.last \in 0..m
      BY <1>8 DEF PassedTo
    <2> QED BY <1>1, <1>2, <1>8, <1>9, <2>1 DEF PassedTo
  <1>11. \A j \in 1..Len(so) : j > m + 1 => w[j] = so[j]
    BY <1>8, <1>9 DEF PassedTo
  <1>12. \A j \in 1..Len(so) : j <= m + 1 => \E b \in 1..Len(so) : b <= m + 1 /\ w[j] = so[b]
    BY <1>8, <1>9 DEF PassedTo
  <1>13. \A i, j \in 1..Len(so) : i < j /\ q.last < j /\ j <= m + 1 => w[i].val >= w[j].val
    BY <1>8, <1>9 DEF PassedTo
  <1>14. \A i, j \in 1..Len(so) : i < j /\ j > n => so[i].val >= so[j].val
    BY <1>1 DEF Falling
  <1>15. ASSUME NEW i \in 1..Len(so), NEW j \in 1..Len(so), i < j, j > q.last
         PROVE  w[i].val >= w[j].val
    <2>1. CASE j <= m + 1
      BY <1>13, <1>15, <2>1
    <2>2. CASE j > m + 1
      <3>1. j > n /\ w[j] = so[j]
        BY <1>1, <1>2, <1>11, <2>2
      <3>2. PICK b \in 1..Len(so) : b < j /\ w[i] = so[b]
        <4>1. CASE i <= m + 1
          <5>1. PICK b \in 1..Len(so) : b <= m + 1 /\ w[i] = so[b]
            BY <1>12, <4>1
          <5>2. b < j
            BY <1>1, <1>2, <2>2, <5>1
          <5> QED BY <5>1, <5>2
        <4>2. CASE i > m + 1
          BY <1>11, <1>15, <4>2
        <4> QED BY <1>2, <4>1, <4>2
      <3> QED BY <1>14, <3>1, <3>2
    <2> QED BY <1>2, <2>1, <2>2
  <1>16. Falling(w, q.last)
    BY <1>9, <1>15 DEF Falling
  <1> QED BY <1>8, <1>9, <1>10, <1>16

-----------------------------------------------------------------------------
\* What ActivityIsRanked says of a list.
ToShow == {m \in Known : \E d \in 0..Days : MentionsOn(m, d) > 0}
TermsOf(so) == {so[i].term : i \in DOMAIN so}
RanksWell(so) ==
    /\ TermsOf(so) \subseteq ToShow /\ Cardinality(TermsOf(so)) = Len(so)
    /\ Len(so) = Least(Ranked, Cardinality(ToShow))
    /\ \A i \in DOMAIN so :
          /\ \A d \in 0..Days : so[i].mentions[d] = MentionsOn(so[i].term, d)
          /\ so[i].val = ValueOf(so[i].term)
          /\ i > 1 => so[i].val <= so[i - 1].val
          /\ \A m \in ToShow \ TermsOf(so) : ValueOf(m) <= so[i].val

LEMMA RanksWellIs == ActivityIsRanked <=> (monitor \in Kinds \X {"shown"} => RanksWell(terms))
  BY DEF ActivityIsRanked, RanksWell, ToShow, TermsOf, Known

\* A list has as many terms as it is long.
LEMMA TermsOfList ==
    ASSUME NEW so \in Seq(Tallied), \A i, j \in DOMAIN so : so[i].term = so[j].term => i = j
    PROVE  Cardinality(TermsOf(so)) = Len(so)
  <1>1. PICK n \in Nat : n = Len(so) /\ DOMAIN so = 1..n
    OBVIOUS
  <1>2. IsFiniteSet(1..n) /\ Cardinality(1..n) = n
    <2>1. n \in Int /\ 1 \in Int
      BY <1>1
    <2>2. IsFiniteSet(1..n) /\ Cardinality(1..n) = IF 1 > n THEN 0 ELSE n - 1 + 1
      BY <2>1, FS_Interval
    <2> QED BY <1>1, <2>2
  <1> DEFINE f == [i \in 1..n |-> so[i].term]
  <1>3. f \in Surjection(1..n, TermsOf(so)) /\ f \in Injection(1..n, TermsOf(so))
    <2>1. f \in [1..n -> TermsOf(so)]
      BY <1>1 DEF TermsOf
    <2>2. \A i, j \in 1..n : f[i] = f[j] => i = j
      BY <1>1
    <2>3. \A t \in TermsOf(so) : \E i \in 1..n : f[i] = t
      BY <1>1 DEF TermsOf
    <2> HIDE DEF f
    <2> QED BY <2>1, <2>2, <2>3 DEF Surjection, Injection, IsInjective
  <1> HIDE DEF f
  <1>4. Cardinality(TermsOf(so)) = Cardinality(1..n)
    BY <1>2, <1>3, FS_Surjection
  <1> QED BY <1>1, <1>2, <1>4

\* Once a list is in order, the first of it are the highest terms.
LEMMA FirstAreHighest ==
    ASSUME NEW so, Tally(so, InBoth), Valued(so), Falling(so, 0)
    PROVE  RanksWell(SubSeq(so, 1, Least(Ranked, Len(so))))
  <1>1. PICK n \in Nat : n = Len(so) /\ DOMAIN so = 1..n
    BY DEF Tally
  <1>2. so \in Seq(Tallied) /\ \A i \in 1..n : so[i] \in Tallied
    BY <1>1 DEF Tally
  <1>3. PICK l \in 0..n : l = Least(Ranked, n)
    BY <1>1, ActivityIsTyped DEF Least
  <1>4. PICK w \in Seq(Tallied) :
           /\ w = SubSeq(so, 1, Least(Ranked, Len(so))) /\ Len(w) = l /\ DOMAIN w = 1..l
           /\ \A i \in 1..l : w[i] = so[i]
    <2> DEFINE w == SubSeq(so, 1, l)
    <2>1. \A i \in 1..l : so[i] \in Tallied
      BY <1>2
    <2>2. l \in Nat /\ 1 \in Int
      OBVIOUS
    <2>3. /\ w \in Seq(Tallied) /\ Len(w) = IF 1 <= l THEN l - 1 + 1 ELSE 0
          /\ \A i \in 1..l - 1 + 1 : w[i] = so[1 + i - 1]
      BY <2>1, <2>2, SubSeqProperties
    <2> HIDE DEF w
    <2>4. Len(w) = l
      BY <2>2, <2>3
    <2>5. \A i \in 1..l : w[i] = so[i]
      <3>1. \A i \in 1..l : i \in 1..l - 1 + 1 /\ 1 + i - 1 = i
        BY <2>2
      <3> QED BY <2>3, <3>1
    <2>6. DOMAIN w = 1..l
      BY <2>3, <2>4
    <2>7. w = SubSeq(so, 1, Least(Ranked, Len(so)))
      BY <1>1, <1>3 DEF w
    <2> QED BY <2>3, <2>4, <2>5, <2>6, <2>7
  <1>5. TermsOf(so) = ToShow
    <2>1. ASSUME NEW m \in Known, NEW d \in 0..Days PROVE InBoth[<<m, d>>] = MentionsOn(m, d)
      <3>1. <<m, d>> \in Known \X (0..Days)
        BY <2>1
      <3> QED BY <3>1 DEF InBoth
    <2>2. \A i \in 1..n : so[i].term \in Known
      BY <1>2 DEF Tallied
    <2>3. ASSUME NEW m \in Known PROVE m \in TermsOf(so) <=> m \in ToShow
      <3>1. m \in TermsOf(so) <=> \E i \in DOMAIN so : so[i].term = m
        BY DEF TermsOf
      <3>2. (\E i \in DOMAIN so : so[i].term = m) <=> \E d \in 0..Days : InBoth[<<m, d>>] > 0
        BY DEF Tally
      <3>3. (\E d \in 0..Days : InBoth[<<m, d>>] > 0) <=> \E d \in 0..Days : MentionsOn(m, d) > 0
        BY <2>1
      <3> QED BY <3>1, <3>2, <3>3 DEF ToShow
    <2>4. TermsOf(so) \subseteq Known /\ ToShow \subseteq Known
      BY <1>1, <2>2 DEF TermsOf, ToShow
    <2> QED BY <2>3, <2>4
  <1>6. \A i, j \in 1..n : so[i].term = so[j].term => i = j
    BY <1>1 DEF Tally
  <1>7. Cardinality(TermsOf(so)) = n
    BY <1>1, <1>2, <1>6, TermsOfList
  <1>8. Cardinality(TermsOf(w)) = l
    <2>1. ASSUME NEW i \in DOMAIN w, NEW j \in DOMAIN w, w[i].term = w[j].term PROVE i = j
      <3>1. i \in 1..n /\ j \in 1..n /\ w[i] = so[i] /\ w[j] = so[j]
        BY <1>4
      <3> QED BY <1>6, <2>1, <3>1
    <2> QED BY <1>4, <2>1, TermsOfList
  <1>9. TermsOf(w) \subseteq ToShow
    <2>1. TermsOf(w) \subseteq TermsOf(so)
      BY <1>1, <1>4 DEF TermsOf
    <2> QED BY <1>5, <2>1
  <1>10. Len(w) = Least(Ranked, Cardinality(ToShow))
    BY <1>3, <1>4, <1>5, <1>7
  <1>11. \A i \in 1..n : so[i].val \in Int /\ so[i].val = ValueOf(so[i].term)
    BY <1>1, <1>2 DEF Valued, Tallied
  <1>12. \A i, j \in 1..n : i < j => so[i].val >= so[j].val
    BY <1>1 DEF Falling
  <1>13. ASSUME NEW i \in 1..l
         PROVE  /\ \A d \in 0..Days : w[i].mentions[d] = MentionsOn(w[i].term, d)
                /\ w[i].val = ValueOf(w[i].term)
                /\ i > 1 => w[i].val <= w[i - 1].val
                /\ \A m \in ToShow \ TermsOf(w) : ValueOf(m) <= w[i].val
    <2>1. i \in 1..n /\ w[i] = so[i]
      BY <1>4
    <2>2. \A d \in 0..Days : so[i].mentions[d] = MentionsOn(so[i].term, d)
      <3>1. ASSUME NEW d \in 0..Days PROVE so[i].mentions[d] = MentionsOn(so[i].term, d)
        <4>1. so[i].mentions[d] = InBoth[<<so[i].term, d>>]
          BY <1>1, <2>1 DEF Tally
        <4>2. <<so[i].term, d>> \in Known \X (0..Days)
          BY <1>2, <2>1 DEF Tallied
        <4> QED BY <4>1, <4>2 DEF InBoth
      <3> QED BY <3>1
    <2>3. i > 1 => w[i].val <= w[i - 1].val
      <3>1. ASSUME i > 1 PROVE w[i].val <= w[i - 1].val
        <4>1. i - 1 \in 1..l /\ i - 1 \in 1..n /\ i - 1 < i
          BY <3>1
        <4>2. w[i - 1] = so[i - 1] /\ so[i - 1].val >= so[i].val
          BY <1>4, <1>12, <2>1, <4>1
        <4>3. so[i - 1].val \in Int /\ so[i].val \in Int
          BY <1>11, <2>1, <4>1
        <4> QED BY <2>1, <4>2, <4>3
      <3> QED BY <3>1
    <2>4. ASSUME NEW m \in ToShow \ TermsOf(w) PROVE ValueOf(m) <= w[i].val
      <3>1. PICK j \in 1..n : so[j].term = m
        BY <1>1, <1>5 DEF TermsOf
      <3>2. j \notin 1..l
        BY <1>4, <3>1 DEF TermsOf
      <3>3. i < j
        BY <1>1, <3>1, <3>2
      <3>4. so[i].val >= so[j].val /\ ValueOf(m) = so[j].val
        BY <1>11, <1>12, <2>1, <3>1, <3>3
      <3>5. so[i].val \in Int /\ so[j].val \in Int
        BY <1>11, <2>1
      <3> QED BY <2>1, <3>4, <3>5
    <2> QED BY <1>11, <2>1, <2>2, <2>3, <2>4
  <1>14. RanksWell(w)
    BY <1>4, <1>8, <1>9, <1>10, <1>13 DEF RanksWell
  <1> QED BY <1>4, <1>14

-----------------------------------------------------------------------------
\* Once the terms are read, what is right of a list is right of it later.
LEMMA TermsStay ==
    ASSUME vocabulary' = vocabulary, monitor'[1] = monitor[1]
    PROVE  /\ InKeywords' = InKeywords /\ InBoth' = InBoth
           /\ \A so, c : /\ Tally(so, c)' <=> Tally(so, c)
                         /\ Valued(so)' <=> Valued(so)
                         /\ RanksWell(so)' <=> RanksWell(so)
  <1>1. \A m, d : MentionsOn(m, d)' = MentionsOn(m, d)
    BY DEF MentionsOn
  <1>2. Known' = Known
    BY DEF Known
  <1>3. ASSUME NEW m PROVE ValueOf(m)' = ValueOf(m)
    <2> DEFINE A(g) == [s \in SUBSET (0..Days) |->
                          IF s = {} THEN 0
                          ELSE MentionsOn(m, CHOOSE x \in s : TRUE)' + g[s \ {CHOOSE x \in s : TRUE}]]
               B(g) == [s \in SUBSET (0..Days) |->
                          IF s = {} THEN 0
                          ELSE MentionsOn(m, CHOOSE x \in s : TRUE) + g[s \ {CHOOSE x \in s : TRUE}]]
    <2>1. \A g : A(g) = B(g)
      BY <1>1
    <2>2. MapThenSumSet(LAMBDA d : MentionsOn(m, d)', 0..Days) = (CHOOSE g : g = A(g))[0..Days]
      BY DEF MapThenSumSet, MapThenFoldSet
    <2>3. MapThenSumSet(LAMBDA d : MentionsOn(m, d), 0..Days) = (CHOOSE g : g = B(g))[0..Days]
      BY DEF MapThenSumSet, MapThenFoldSet
    <2> HIDE DEF A, B
    <2>4. (CHOOSE g : g = A(g)) = (CHOOSE g : g = B(g))
      BY <2>1
    <2>5. MapThenSumSet(LAMBDA d : MentionsOn(m, d)', 0..Days)
             = MapThenSumSet(LAMBDA d : MentionsOn(m, d), 0..Days)
      BY <2>2, <2>3, <2>4
    <2> QED BY <2>5 DEF ValueOf
  <1>4. InKeywords' = InKeywords
    BY <1>2 DEF InKeywords, Hits
  <1>5. InBoth' = InBoth
    BY <1>1, <1>2 DEF InBoth
  <1>6. Tallied' = Tallied
    BY <1>2 DEF Tallied
  <1>7. ASSUME NEW so, NEW c PROVE Tally(so, c)' <=> Tally(so, c)
    BY <1>2, <1>6 DEF Tally
  <1>8. ASSUME NEW so PROVE Valued(so)' <=> Valued(so)
    BY <1>3 DEF Valued
  <1>9. ToShow' = ToShow
    BY <1>1, <1>2 DEF ToShow
  <1>10. ASSUME NEW so PROVE RanksWell(so)' <=> RanksWell(so)
    BY <1>1, <1>3, <1>9 DEF RanksWell, TermsOf
  <1> QED BY <1>4, <1>5, <1>7, <1>8, <1>10

-----------------------------------------------------------------------------
\* How far a request has come, and what the list then is: the terms of the tables that
\* are read, then with their values, and then in order after the last exchange.
AskSteps == {"keyword", "entity", "values", "rank", "shown", "failed"}
RankInv ==
    /\ \/ monitor = <<"nothing", "idle">> /\ terms = <<>>
       \/ monitor \in Kinds \X AskSteps /\ vocabulary \in Dictionaries \cup Regions
    /\ monitor[2] = "keyword" => terms = <<>>
    /\ monitor[2] = "entity" => Tally(terms, InKeywords)
    /\ monitor[2] \in {"values", "rank"} => Tally(terms, InBoth)
    /\ monitor[2] = "rank" =>
         Valued(terms) /\ unsorted \in 0..Len(terms) /\ Falling(terms, unsorted)
    /\ monitor[2] = "shown" => RanksWell(terms)

\* A request takes its next step, and is for the same kind of terms.
LEMMA StepIsTaken ==
    ASSUME monitor \in Kinds \X AskSteps, NEW x \in AskSteps,
           monitor' = [monitor EXCEPT ![2] = x]
    PROVE  monitor' \in Kinds \X AskSteps /\ monitor'[1] = monitor[1] /\ monitor'[2] = x
  <1>1. PICK k \in Kinds, y \in AskSteps : monitor = <<k, y>>
    OBVIOUS
  <1>2. monitor' = <<k, x>>
    BY <1>1
  <1> QED BY <1>1, <1>2

\* A request is at a step that is read from it.
LEMMA StepIs ==
    ASSUME RankInv, NEW x \in AskSteps, monitor \in Kinds \X {x}
    PROVE  /\ monitor \in Kinds \X AskSteps /\ monitor[2] = x
           /\ vocabulary \in Dictionaries \cup Regions
  <1>1. monitor[2] = x
    OBVIOUS
  <1>2. monitor # <<"nothing", "idle">>
    BY <1>1 DEF AskSteps
  <1> QED BY <1>1, <1>2 DEF RankInv

LEMMA RankBegins == ASSUME ActivityInit PROVE RankInv
  <1>1. monitor[2] = "idle"
    BY DEF ActivityInit
  <1> QED BY <1>1 DEF ActivityInit, RankInv

LEMMA RankAfterAsk == ASSUME RankInv, AskActivity PROVE RankInv'
  <1>1. terms = <<>> /\ terms' = <<>>
    <2>1. monitor = <<"nothing", "idle">> \/ monitor \in Kinds \X AskSteps
      BY DEF RankInv
    <2>2. monitor[2] = "idle"
      BY DEF AskActivity
    <2>3. ~(monitor \in Kinds \X AskSteps)
      BY <2>2 DEF AskSteps
    <2> QED BY <2>1, <2>3 DEF RankInv, AskActivity
  <1>2. /\ monitor' \in Kinds \X AskSteps /\ monitor'[2] = "keyword"
        /\ vocabulary' \in Dictionaries \cup Regions
    BY DEF AskActivity, Kinds, AskSteps
  <1> QED BY <1>1, <1>2 DEF RankInv

\* A scan that fails, which no step follows.
LEMMA RankAfterFailure ==
    ASSUME RankInv, monitor \in Kinds \X AskSteps, vocabulary \in Dictionaries \cup Regions,
           monitor' = [monitor EXCEPT ![2] = "failed"], vocabulary' = vocabulary
    PROVE  RankInv'
  <1>1. monitor' \in Kinds \X AskSteps /\ monitor'[2] = "failed"
    BY StepIsTaken DEF AskSteps
  <1> QED BY <1>1 DEF RankInv

LEMMA RankAfterKeywords == ASSUME RankInv, ScanKeywords PROVE RankInv'
  <1>1. /\ monitor \in Kinds \X AskSteps /\ monitor[2] = "keyword"
        /\ vocabulary \in Dictionaries \cup Regions /\ vocabulary' = vocabulary
    <2>1. monitor \in Kinds \X {"keyword"}
      BY DEF ScanKeywords, TermFrequency
    <2> QED BY <2>1, StepIs DEF ScanKeywords, TermFrequency, AskSteps
  <1>2. CASE monitor' = [monitor EXCEPT ![2] = "failed"]
    BY <1>1, <1>2, RankAfterFailure
  <1>3. CASE terms' = WithRows(terms, Keywords) /\ monitor' = [monitor EXCEPT ![2] = "entity"]
    <2>1. monitor' \in Kinds \X AskSteps /\ monitor'[1] = monitor[1] /\ monitor'[2] = "entity"
      BY <1>1, <1>3, StepIsTaken DEF AskSteps
    <2>2. terms = <<>>
      BY <1>1 DEF RankInv
    <2>3. Tally(terms', InKeywords)
      BY <1>1, <1>3, <2>2, KeywordsAreCounted
    <2>4. Tally(terms, InKeywords)'
      <3>1. \A so, c : Tally(so, c)' <=> Tally(so, c)
        BY <1>1, <2>1, TermsStay
      <3>2. InKeywords' = InKeywords
        BY <1>1, <2>1, TermsStay
      <3> QED BY <2>3, <3>1, <3>2
    <2> QED BY <1>1, <2>1, <2>4 DEF RankInv
  <1> QED BY <1>2, <1>3 DEF ScanKeywords, TermFrequency

LEMMA RankAfterEntities == ASSUME RankInv, ScanEntities PROVE RankInv'
  <1>1. /\ monitor \in Kinds \X AskSteps /\ monitor[2] = "entity"
        /\ vocabulary \in Dictionaries \cup Regions /\ vocabulary' = vocabulary
    <2>1. monitor \in Kinds \X {"entity"}
      BY DEF ScanEntities, TermFrequency
    <2> QED BY <2>1, StepIs DEF ScanEntities, TermFrequency, AskSteps
  <1>2. CASE monitor' = [monitor EXCEPT ![2] = "failed"]
    BY <1>1, <1>2, RankAfterFailure
  <1>3. CASE terms' = WithRows(terms, Entities) /\ monitor' = [monitor EXCEPT ![2] = "values"]
    <2>1. monitor' \in Kinds \X AskSteps /\ monitor'[1] = monitor[1] /\ monitor'[2] = "values"
      BY <1>1, <1>3, StepIsTaken DEF AskSteps
    <2>2. Tally(terms, InKeywords)
      BY <1>1 DEF RankInv
    <2>3. Tally(terms', InBoth)
      BY <1>1, <1>3, <2>2, EntitiesAreCounted
    <2>4. Tally(terms, InBoth)'
      <3>1. \A so, c : Tally(so, c)' <=> Tally(so, c)
        BY <1>1, <2>1, TermsStay
      <3>2. InBoth' = InBoth
        BY <1>1, <2>1, TermsStay
      <3> QED BY <2>3, <3>1, <3>2
    <2> QED BY <1>1, <2>1, <2>4 DEF RankInv
  <1> QED BY <1>2, <1>3 DEF ScanEntities, TermFrequency

\* The list with the value of every term.
LEMMA ListIsValued ==
    ASSUME vocabulary \in Dictionaries \cup Regions, NEW so, Tally(so, InBoth), NEW w,
           w = [i \in DOMAIN so |->
                  [so[i] EXCEPT !.val = IF monitor[1] = "keywords" THEN FrequencyOf(so[i])
                                        ELSE TotalOf(so[i])]]
    PROVE  Tally(w, InBoth) /\ Valued(w) /\ Len(w) = Len(so)
  <1>1. PICK n \in Nat : n = Len(so) /\ DOMAIN so = 1..n
    BY DEF Tally
  <1>2. so \in Seq(Tallied) /\ \A i \in 1..n : so[i] \in Tallied
    BY <1>1 DEF Tally
  <1>3. ASSUME NEW i \in 1..n
        PROVE  /\ w[i] \in Tallied /\ w[i].term = so[i].term /\ w[i].mentions = so[i].mentions
               /\ w[i].val = ValueOf(so[i].term)
    <2>1. PICK t \in Tallied : t = so[i]
      BY <1>2
    <2>2. \A d \in 0..Days : t.mentions[d] = MentionsOn(t.term, d)
      <3>1. ASSUME NEW d \in 0..Days PROVE t.mentions[d] = MentionsOn(t.term, d)
        <4>1. t.mentions[d] = InBoth[<<t.term, d>>]
          BY <1>1, <2>1 DEF Tally
        <4>2. <<t.term, d>> \in Known \X (0..Days)
          BY DEF Tallied
        <4> QED BY <4>1, <4>2 DEF InBoth
      <3> QED BY <3>1
    <2>3. PICK v \in Int : /\ v = IF monitor[1] = "keywords" THEN FrequencyOf(t) ELSE TotalOf(t)
                           /\ v = ValueOf(t.term)
      BY <2>2, ValueIs
    <2>4. w[i] = [t EXCEPT !.val = v]
      BY <1>1, <2>1, <2>3
    <2> QED BY <2>1, <2>3, <2>4 DEF Tallied
  <1>4. w \in [1..n -> Tallied]
    <2>1. DOMAIN w = 1..n /\ w = [i \in 1..n |-> w[i]]
      BY <1>1
    <2> QED BY <1>3, <2>1
  <1>5. w \in Seq(Tallied) /\ Len(w) = n /\ DOMAIN w = 1..n
    BY <1>4
  <1>6. Valued(w)
    BY <1>3, <1>5 DEF Valued
  <1>7. \A i, j \in DOMAIN w : w[i].term = w[j].term => i = j
    <2>1. \A i, j \in 1..n : so[i].term = so[j].term => i = j
      BY <1>1 DEF Tally
    <2>2. ASSUME NEW i \in 1..n, NEW j \in 1..n, w[i].term = w[j].term PROVE i = j
      <3>1. so[i].term = so[j].term
        BY <1>3, <2>2
      <3> QED BY <2>1, <3>1
    <2> QED BY <1>5, <2>2
  <1>8. \A i \in DOMAIN w : \A d \in 0..Days : w[i].mentions[d] = InBoth[<<w[i].term, d>>]
    <2>1. ASSUME NEW i \in 1..n, NEW d \in 0..Days
          PROVE  w[i].mentions[d] = InBoth[<<w[i].term, d>>]
      <3>1. so[i].mentions[d] = InBoth[<<so[i].term, d>>]
        BY <1>1 DEF Tally
      <3> QED BY <1>3, <3>1
    <2> QED BY <1>5, <2>1
  <1>9. ASSUME NEW m \in Known
        PROVE  (\E i \in DOMAIN w : w[i].term = m) <=> \E d \in 0..Days : InBoth[<<m, d>>] > 0
    <2>1. (\E i \in DOMAIN w : w[i].term = m) <=> \E i \in DOMAIN so : so[i].term = m
      BY <1>1, <1>3, <1>5
    <2> QED BY <2>1 DEF Tally
  <1>10. Tally(w, InBoth)
    BY <1>5, <1>7, <1>8, <1>9 DEF Tally
  <1> QED BY <1>1, <1>5, <1>6, <1>10

LEMMA RankAfterValues == ASSUME RankInv, CalcPAVals PROVE RankInv'
  <1>1. /\ monitor \in Kinds \X AskSteps /\ monitor[2] = "values"
        /\ vocabulary \in Dictionaries \cup Regions /\ vocabulary' = vocabulary
    <2>1. monitor \in Kinds \X {"values"}
      BY DEF CalcPAVals
    <2> QED BY <2>1, StepIs DEF CalcPAVals, AskSteps
  <1>2. monitor' \in Kinds \X AskSteps /\ monitor'[1] = monitor[1] /\ monitor'[2] = "rank"
    BY <1>1, StepIsTaken DEF CalcPAVals, AskSteps
  <1>3. Tally(terms, InBoth)
    BY <1>1 DEF RankInv
  <1>4. PICK w : /\ w = terms'
                 /\ w = [i \in DOMAIN terms |->
                          [terms[i] EXCEPT !.val =
                             IF monitor[1] = "keywords" THEN FrequencyOf(terms[i])
                             ELSE TotalOf(terms[i])]]
    BY DEF CalcPAVals
  <1>5. Tally(w, InBoth) /\ Valued(w) /\ Len(w) = Len(terms)
    BY <1>1, <1>3, <1>4, ListIsValued
  <1>6. Tally(terms, InBoth)' /\ Valued(terms)'
    <2>1. \A so, c : (Tally(so, c)' <=> Tally(so, c)) /\ (Valued(so)' <=> Valued(so))
      BY <1>1, <1>2, TermsStay
    <2>2. InBoth' = InBoth
      BY <1>1, <1>2, TermsStay
    <2> QED BY <1>4, <1>5, <2>1, <2>2
  <1>7. unsorted' = Len(terms') /\ Len(terms') \in Nat /\ DOMAIN terms' = 1..Len(terms')
    BY <1>4, <1>5 DEF CalcPAVals, Tally
  <1>8. unsorted' \in 0..Len(terms') /\ Falling(terms', unsorted')
    BY <1>7 DEF Falling
  <1> QED BY <1>1, <1>2, <1>6, <1>8 DEF RankInv, Falling

LEMMA RankAfterPass == ASSUME RankInv, RankPA PROVE RankInv'
  <1>1. /\ monitor \in Kinds \X AskSteps /\ monitor[2] = "rank"
        /\ vocabulary \in Dictionaries \cup Regions /\ vocabulary' = vocabulary
    <2>1. monitor \in Kinds \X {"rank"}
      BY DEF RankPA
    <2> QED BY <2>1, StepIs DEF RankPA, AskSteps
  <1>2. PICK q : q = Pass(terms, unsorted)
    OBVIOUS
  <1>3. Tally(q.list, InBoth) /\ Valued(q.list) /\ q.last \in 0..Len(q.list) /\ Falling(q.list, q.last)
    <2>1. /\ Tally(terms, InBoth) /\ Valued(terms) /\ unsorted \in 0..Len(terms)
          /\ Falling(terms, unsorted)
      BY <1>1 DEF RankInv
    <2> QED BY <1>2, <2>1, PassSorts
  <1>4. CASE q.last = 0
    <2>1. /\ terms' = SubSeq(q.list, 1, Least(Ranked, Len(q.list)))
          /\ monitor' = [monitor EXCEPT ![2] = "shown"]
      BY <1>2, <1>4 DEF RankPA
    <2>2. monitor' \in Kinds \X AskSteps /\ monitor'[1] = monitor[1] /\ monitor'[2] = "shown"
      BY <1>1, <2>1, StepIsTaken DEF AskSteps
    <2>3. RanksWell(terms')
      BY <1>3, <1>4, <2>1, FirstAreHighest
    <2>4. RanksWell(terms)'
      <3>1. \A so, c : RanksWell(so)' <=> RanksWell(so)
        BY <1>1, <2>2, TermsStay
      <3> QED BY <2>3, <3>1
    <2> QED BY <1>1, <2>2, <2>4 DEF RankInv
  <1>5. CASE q.last # 0
    <2>1. terms' = q.list /\ monitor' = monitor /\ unsorted' = q.last
      BY <1>2, <1>5 DEF RankPA
    <2>2. Tally(terms, InBoth)' /\ Valued(terms)'
      <3>1. \A so, c : (Tally(so, c)' <=> Tally(so, c)) /\ (Valued(so)' <=> Valued(so))
        BY <1>1, <2>1, TermsStay
      <3>2. InBoth' = InBoth
        BY <1>1, <2>1, TermsStay
      <3> QED BY <1>3, <2>1, <3>1, <3>2
    <2>3. unsorted' \in 0..Len(terms') /\ Falling(terms', unsorted')
      BY <1>3, <2>1
    <2> QED BY <1>1, <2>1, <2>2, <2>3 DEF RankInv, Falling
  <1> QED BY <1>4, <1>5

LEMMA RankAfterNothing == ASSUME RankInv, UNCHANGED activityVars PROVE RankInv'
  <1>1. monitor' = monitor /\ vocabulary' = vocabulary /\ terms' = terms /\ unsorted' = unsorted
    BY DEF activityVars
  <1>2. \A so, c : /\ Tally(so, c)' <=> Tally(so, c)
                   /\ Valued(so)' <=> Valued(so)
                   /\ RanksWell(so)' <=> RanksWell(so)
    BY <1>1, TermsStay
  <1>3. InKeywords' = InKeywords /\ InBoth' = InBoth
    BY <1>1, TermsStay
  <1> QED BY <1>1, <1>2, <1>3 DEF RankInv, Falling

\* ActivityIsRanked: once a request is answered, its terms are the ones with the highest
\* values, in order, each with all its mentions of the year on their day.
THEOREM TermsAreRanked == ActivitySpec => []ActivityIsRanked
  <1>1. ActivityInit => RankInv
    BY RankBegins
  <1>2. RankInv /\ [ActivityNext]_activityVars => RankInv'
    BY RankAfterAsk, RankAfterKeywords, RankAfterEntities, RankAfterValues, RankAfterPass,
       RankAfterNothing DEF ActivityNext
  <1>3. RankInv => ActivityIsRanked
    <2>1. ASSUME RankInv, monitor \in Kinds \X {"shown"} PROVE RanksWell(terms)
      BY <2>1 DEF RankInv
    <2> QED BY <2>1, RanksWellIs
  <1> QED BY <1>1, <1>2, <1>3, PTL DEF ActivitySpec
=============================================================================
