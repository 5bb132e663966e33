--------------------------- MODULE ActivityStream ---------------------------
(***************************************************************************)
(* The activity stream of a user: what they did and what happened to their *)
(* charts and observations, newest first.  It is put together from four    *)
(* tables that the other handlers write, and that nothing keeps in step:   *)
(* activities are never deleted, an observation may be, and a vote on a    *)
(* chart nobody has discovered leaves a row that belongs to no chart.      *)
(*                                                                         *)
(* Requests are taken one at a time, without failures: how they interleave *)
(* is the matter of ObservationCredits and ChartDiscovery.  Every act has  *)
(* a time of its own, which also names the rows that it inserts.           *)
(***************************************************************************)
EXTENDS Integers, FiniteSets, FiniteSetsExt

CONSTANTS People, Patterns,
          Nobody,     \* uid 0
          Newest,     \* the length of a stream
          Acts        \* bound: acts altogether

\* the id of a chart is no number that a row is given
ASSUME StreamsAreBounded ==
    Newest \in Nat /\ Acts \in Nat /\ Nobody \notin People /\ Patterns \cap Nat = {}

VARIABLES
    discovered,    \* priv_discovered: id -> uid of the discoverer
    observations,  \* priv_observations
    votes,         \* priv_credits
    activities,    \* priv_activity
    clock,
    acts           \* history: what was asked for and done

streamVars == <<discovered, observations, votes, activities, clock, acts>>

NoId == 0
Dids == DOMAIN discovered

\* a row without a chart: of an id that no chart has
Chartless(d) == d \in Dids \ Patterns

Observation(o) == {row \in observations : row.oid = o}

StreamTypeOK ==
    /\ Dids \subseteq Patterns \cup 1..Acts
    /\ \A d \in Dids : discovered[d] \in People \cup {Nobody}
    /\ \A row \in observations : row.did \in Dids /\ row.uid \in People
    /\ \A v \in votes : (v.did = NoId) # (v.oid = NoId)
    /\ clock \in 1..Acts + 1

StreamInit ==
    /\ discovered = [d \in {} |-> Nobody]
    /\ observations = {} /\ votes = {} /\ activities = {}
    /\ clock = 1 /\ acts = {}

-----------------------------------------------------------------------------
Activity(u, type, d, o) == [uid |-> u, type |-> type, did |-> d, oid |-> o, at |-> clock]

\* u does something to d, or to observation o, which belongs to owner
Act(u, op, d, o, up, owner) ==
    /\ clock <= Acts /\ clock' = clock + 1
    /\ acts' = acts \cup {[by |-> u, op |-> op, did |-> d, oid |-> o, up |-> up,
                           owner |-> owner, at |-> clock]}

Add(d, u) == [e \in Dids \cup {d} |-> IF e = d THEN u ELSE discovered[e]]

\* the first view of a chart
DiscoverPattern(u, d) ==
    /\ d \notin Dids /\ discovered' = Add(d, u)
    /\ UNCHANGED <<observations, votes, activities, clock, acts>>

\* AddObservation
Comment(u, d) ==
    /\ d \in Dids /\ Act(u, "comment", d, NoId, TRUE, discovered[d])
    /\ activities' = activities \cup {Activity(u, "c", d, NoId)}
    /\ observations' = observations \cup {[oid |-> clock, uid |-> u, did |-> d]}
    /\ UNCHANGED <<discovered, votes>>

\* CreditChart: the activity names the row found, if there was one; the Save
\* may insert one; the credit row is inserted once and then turned
VoteOnPattern(u, d, up) ==
    LET found == IF d \in Dids THEN d ELSE NoId
        row == IF d \in Dids THEN d ELSE clock
        mine == {v \in votes : v.did = row /\ v.uid = u}
    IN  /\ Act(u, "pattern", found, NoId, up, IF d \in Dids THEN discovered[d] ELSE Nobody)
        /\ activities' = activities \cup {Activity(u, IF up THEN "cc" ELSE "dc", found, NoId)}
        /\ discovered' = IF d \in Dids THEN discovered ELSE Add(clock, Nobody)
        /\ votes' = IF mine = {}
                    THEN votes \cup {[uid |-> u, did |-> row, oid |-> NoId, up |-> up, at |-> clock]}
                    ELSE {IF v \in mine THEN [v EXCEPT !.up = up] ELSE v : v \in votes}
        /\ UNCHANGED observations

\* CreditObservation: not one's own, and once in either direction
VoteOnObservation(u, row, up) ==
    /\ row.uid # u /\ ~\E v \in votes : v.oid = row.oid /\ v.uid = u /\ v.up = up
    /\ Act(u, "observation", NoId, row.oid, up, row.uid)
    /\ activities' = activities \cup {Activity(u, IF up THEN "co" ELSE "do", NoId, row.oid)}
    /\ votes' = votes \cup {[uid |-> u, did |-> NoId, oid |-> row.oid, up |-> up, at |-> clock]}
    /\ UNCHANGED <<discovered, observations>>

\* DeleteObservationHttp
DeleteObservation(row) ==
    /\ observations' = observations \ {row}
    /\ UNCHANGED <<discovered, votes, activities, clock, acts>>

StreamNext ==
    \/ \E u \in People : \/ \E d \in Patterns : DiscoverPattern(u, d)
                         \/ \E d \in Dids : Comment(u, d)
                         \/ \E d \in Patterns, up \in BOOLEAN : VoteOnPattern(u, d, up)
                         \/ \E row \in observations, up \in BOOLEAN : VoteOnObservation(u, row, up)
    \/ \E row \in observations : DeleteObservation(row)

StreamSpec == StreamInit /\ [][StreamNext]_streamVars

-----------------------------------------------------------------------------
(***************************************************************************)
(* GetActivityStreamHttp.                                                  *)
(***************************************************************************)
Entry(side, action, actor, t) == [side |-> side, action |-> action, actor |-> actor, at |-> t]

\* the chart an activity is about; of an observation, by way of its row
About(a) ==
    IF a.oid = NoId THEN a.did
    ELSE LET rows == Observation(a.oid) IN IF rows = {} THEN NoId ELSE (CHOOSE row \in rows : TRUE).did

\* AddInstigated goes through the activities newest first and returns at the
\* first whose chart is not there
Read(u) ==
    LET own == {a \in activities : a.uid = u}
    IN  {a \in own : \A b \in own : b.at >= a.at => About(b) \in Dids}

Instigated(u) == {Entry("did", a.type, u, a.at) : a \in Read(u)}

\* AddHappenedTo: votes on own charts, votes on own observations that are still
\* there, comments on own charts
Happened(u) ==
    {Entry("got", IF v.up THEN "cc" ELSE "dc", v.uid, v.at) :
       v \in {w \in votes : w.did \in Dids /\ discovered[w.did] = u}}
    \cup {Entry("got", IF v.up THEN "co" ELSE "do", v.uid, v.at) :
       v \in {w \in votes : \E row \in Observation(w.oid) : row.uid = u}}
    \cup {Entry("got", "c", a.uid, a.at) :
       a \in {b \in activities : b.type = "c" /\ discovered[b.did] = u}}

\* slip: sorted by time, where Created counts the seconds since then
Oldest(S) ==
    {T \in kSubset(Min({Newest, Cardinality(S)}), S) : \A e \in T, f \in S \ T : e.at <= f.at}

\* the first entries once sorted; entries of one time come in any order
First(S) ==
    {T \in kSubset(Min({Newest, Cardinality(S)}), S) : \A e \in T, f \in S \ T : e.at >= f.at}

\* TitleAndLink cuts up the relation_id: where there is none, the request panics
Fails(u) ==
    \/ \E a \in Read(u) : Chartless(About(a))
    \/ \E v \in votes : \E row \in Observation(v.oid) : row.uid = u /\ Chartless(row.did)

\* the answers that u may get, if any
Streams(u) == IF Fails(u) THEN {} ELSE First(Happened(u) \cup Instigated(u))

-----------------------------------------------------------------------------
\* the way an act is shown to the one who did it and to the one it was done to
ActionOf(a) ==
    CASE a.op = "comment" -> "c"
      [] a.op = "pattern" -> IF a.up THEN "cc" ELSE "dc"
      [] OTHER -> IF a.up THEN "co" ELSE "do"

\* a later vote of the same user on the same chart turns the earlier one
Turned(a) ==
    LET same == {b \in acts : /\ b.op = "pattern" /\ a.op = "pattern"
                              /\ b.by = a.by /\ b.did = a.did} \cup {a}
    IN  [(CHOOSE b \in same : \A c \in same : c.at <= b.at)
           EXCEPT !.at = Min({b.at : b \in same})]

Deserved(u) ==
    {Entry("did", ActionOf(a), u, a.at) : a \in {b \in acts : b.by = u}}
    \cup {Entry("got", ActionOf(Turned(a)), a.by, Turned(a).at) : a \in {b \in acts : b.owner = u}}

Gone(a) ==
    \/ a.op = "pattern" /\ a.did = NoId
    \/ a.op = "observation" /\ Observation(a.oid) = {}

\* A stream shows what the user did and what others did to them, as it was done,
\* the newest acts first; it leaves an older one out only for votes on an
\* observation that was deleted, or for an own act on something that is not
\* there, with which it drops everything else that the user did before.  There
\* is none only for a user who had to do with a row that has no chart.
StreamIsNewest ==
    \A u \in People :
        /\ Streams(u) = {} => \E a \in acts : u \in {a.by, a.owner} /\ Chartless(About(a))
        /\ \A stream \in Streams(u) :
             /\ stream \subseteq Deserved(u)
             /\ \A e \in Deserved(u) \ stream :
                  \/ Cardinality(stream) = Newest /\ \A f \in stream : f.at >= e.at
                  \/ e.side = "did" /\ \E a \in acts : a.by = u /\ Gone(a) /\ a.at >= e.at
                  \/ e.side = "got" /\ \E a \in acts : a.at = e.at /\ Gone(a)
=============================================================================
