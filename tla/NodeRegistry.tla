---------------------------- MODULE NodeRegistry ----------------------------
(***************************************************************************)
(* How nodes join and leave: the scripts that provision, restart and       *)
(* remove a machine call the HTTP API of the load balancer (HAProxy) or of *)
(* the database pool (pgpool) with curl, again and again until it exits    *)
(* with success, which any HTTP answer is.  The API is one Node.js process *)
(* that keeps the nodes in a JSON file, renders a configuration from them, *)
(* and starts shell commands to replace the live one and reload it.        *)
(*                                                                         *)
(* The two APIs are one program but for the last node, which pgpool keeps, *)
(* and the choice between restart and reload.  The file of HAProxy has two *)
(* lists; an endpoint belongs to one of them, so the model keeps one list. *)
(* A file is read and written in one step each.                            *)
(***************************************************************************)
EXTENDS Integers, Sequences, FiniteSets, SequencesExt

CONSTANTS
    Nodes,     \* the machines that join and leave
    Requests,  \* bound: the calls that the scripts make
    None       \* no request

ASSUME NodesAreFinite == IsFiniteSet(Nodes)
ASSUME NoneIsNone == None \notin Requests

VARIABLES
    api,       \* which of the two it is
    \* the scripts
    phase,     \* what a node has come to
    waiting,   \* the call its curl is waiting for
    \* the API process
    call,      \* what a request asks for
    pc,        \* how far it is
    list,      \* file.data of its handler
    firstRun,  \* isFirstRun
    jobs,      \* the shell commands it has started and that have not ended
    \* the machine
    file,      \* proxy.json, cluster.json
    conf,      \* haproxy.cfg, pgpool.conf in the working directory
    etc,       \* the one in /etc
    running,   \* the one HAProxy or pgpool has loaded
    \* history
    clean,     \* no two calls overlapped, nothing failed and no call was repeated
    inOrder    \* no reload overtook the replacement before it

scripts == <<phase, waiting>>
process == <<call, pc, list, firstRun, jobs>>
machine == <<file, conf, etc, running>>
vars == <<api, scripts, process, machine, clean, inOrder>>

Commands == {"replace", "restart", "reload"}
NoCall == [op |-> "none", node |-> None]

\* lists of nodes that are no longer than their number
Lists == UNION {[1..k -> Nodes] : k \in 0..Cardinality(Nodes)}

TypeOK ==
    /\ api \in {"haproxy", "pgpool"}
    /\ phase \in [Nodes -> {"out", "joining", "in", "leaving", "gone"}]
    /\ waiting \in [Nodes -> Requests \cup {None}]
    /\ call \in [Requests -> [op : {"POST", "DELETE"}, node : Nodes] \cup {NoCall}]
    /\ pc \in [Requests -> {"unsent", "sent", "save", "compile", "deploy", "done"}]
    /\ list \in [Requests -> Lists]
    /\ firstRun \in BOOLEAN
    /\ jobs \in [Requests -> SUBSET Commands]
    /\ file \in Lists /\ conf \in Lists /\ etc \in Lists /\ running \in Lists
    /\ clean \in BOOLEAN /\ inOrder \in BOOLEAN

\* The file is empty, or lists the nodes of an earlier deployment.
Init ==
    /\ api \in {"haproxy", "pgpool"}
    /\ \E up \in SUBSET Nodes :
         /\ phase = [n \in Nodes |-> IF n \in up THEN "in" ELSE "out"]
         /\ file \in SetToSeqs(up)
    /\ conf = file /\ etc = file /\ running = file
    /\ waiting = [n \in Nodes |-> None]
    /\ call = [r \in Requests |-> NoCall]
    /\ pc = [r \in Requests |-> "unsent"]
    /\ list = [r \in Requests |-> <<>>]
    /\ firstRun = TRUE
    /\ jobs = [r \in Requests |-> {}]
    /\ clean = TRUE /\ inOrder = TRUE

Goto(r, step) == pc' = [pc EXCEPT ![r] = step]

\* curl calls the API, for the first time or again
Send(n, r, op) ==
    /\ pc[r] = "unsent" /\ waiting[n] = None
    /\ phase' = [phase EXCEPT ![n] = IF op = "POST" THEN "joining" ELSE "leaving"]
    /\ waiting' = [waiting EXCEPT ![n] = r]
    /\ call' = [call EXCEPT ![r] = [op |-> op, node |-> n]]
    /\ Goto(r, "sent")
    /\ UNCHANGED <<api, list, firstRun, jobs, machine, clean, inOrder>>

\* inform_loadbalancer and inform_pgpool of the set-up scripts; the service
\* scripts of HAProxy's nodes also add what they have just removed
Join(n, r) ==
    /\ \/ phase[n] \in {"out", "joining"}
       \/ phase[n] = "gone" /\ api = "haproxy"
    /\ Send(n, r, "POST")

\* inform_loadbalancer and inform_pgpool of the removal scripts
Leave(n, r) == phase[n] \in {"in", "leaving"} /\ Send(n, r, "DELETE")

\* an HTTP answer, whatever its status, ends the script's loop
Answer(r) ==
    LET n == call[r].node
    IN  IF waiting[n] = r
        THEN /\ waiting' = [waiting EXCEPT ![n] = None]
             /\ phase' = [phase EXCEPT ![n] =
                            IF call[r].op = "POST" THEN "in" ELSE "gone"]
        ELSE UNCHANGED scripts

\* the connection breaks: curl fails, but the API may handle the call
ConnectionBreaks(n) ==
    /\ waiting[n] # None
    /\ waiting' = [waiting EXCEPT ![n] = None]
    /\ clean' = FALSE
    /\ UNCHANGED <<api, phase, process, machine, inOrder>>

\* slip: a node that is listed is added again
Unlisted(n) == FALSE

Listed(n) == Contains(file, n)

\* slip: the last node may be removed
LastMayGo(n) == FALSE

\* "Can not remove last node from Cluster": pgpool only
MustStay(n) == api = "pgpool" /\ Len(file) <= 1

Refused(r) ==
    LET n == call[r].node
    IN  IF call[r].op = "POST" THEN Listed(n) ELSE ~Listed(n) \/ MustStay(n)

\* slip: splice takes the first node out
FirstOut(r) ==
    IF call[r].op = "POST" THEN Append(file, call[r].node) ELSE Tail(file)

\* push, or splice at the first place where the node is
Changed(r) ==
    IF call[r].op = "POST" THEN Append(file, call[r].node)
    ELSE RemoveFirst(file, call[r].node)

\* another call has read the file, and the configuration has not caught up
Unsettled ==
    \E q \in Requests : pc[q] \in {"save", "compile"} \/ "replace" \in jobs[q]

\* read the file; refuse the call, or change the list and start to save it
Read(r) ==
    /\ pc[r] = "sent"
    /\ clean' = (clean /\ ~Unsettled)
    /\ IF Refused(r)
       THEN Goto(r, "done") /\ Answer(r) /\ UNCHANGED list
       ELSE /\ list' = [list EXCEPT ![r] = Changed(r)]
            /\ Goto(r, "save")
            /\ UNCHANGED scripts
    /\ UNCHANGED <<api, call, firstRun, jobs, machine, inOrder>>

\* reading or saving fails: status 500
Fail(r) ==
    /\ pc[r] \in {"sent", "save"}
    /\ Goto(r, "done") /\ Answer(r)
    /\ clean' = FALSE
    /\ UNCHANGED <<api, call, list, firstRun, jobs, machine, inOrder>>

\* the file is saved: start compileTemplate, and answer without waiting for it
Save(r) ==
    /\ pc[r] = "save"
    /\ file' = list[r]
    /\ firstRun' = (firstRun /\ Len(list[r]) <= 1)
    /\ Goto(r, "compile") /\ Answer(r)
    /\ UNCHANGED <<api, call, list, jobs, conf, etc, running, clean, inOrder>>

\* slip: the list is rendered as it was before the call
RenderedBefore(r) == conf

Rendered(r) == list[r]

\* the configuration is written, and three commands are started at once: the
\* backup, which nothing reads, the replacement and the reload
Compile(r) ==
    /\ pc[r] = "compile"
    /\ \/ /\ conf' = Rendered(r)
          /\ jobs' = [jobs EXCEPT ![r] =
                        {"replace", IF api = "pgpool" /\ firstRun THEN "restart"
                                    ELSE "reload"}]
          /\ Goto(r, "deploy")
          /\ UNCHANGED clean
       \/ /\ Goto(r, "done")    \* the file cannot be written
          /\ clean' = FALSE
          /\ UNCHANGED <<conf, jobs>>
    /\ UNCHANGED <<api, scripts, call, list, firstRun, file, etc, running, inOrder>>

Ends(r, command) == jobs' = [jobs EXCEPT ![r] = @ \ {command}]

Replace(r) ==
    /\ "replace" \in jobs[r]
    /\ etc' = conf
    /\ Ends(r, "replace")
    /\ UNCHANGED <<api, scripts, call, pc, list, firstRun, file, conf, running,
                   clean, inOrder>>

\* the daemon reads its configuration again
Reload(r) ==
    /\ \E command \in jobs[r] \ {"replace"} : Ends(r, command)
    /\ running' = etc
    /\ inOrder' = (inOrder /\ "replace" \notin jobs[r])
    /\ UNCHANGED <<api, scripts, call, pc, list, firstRun, file, conf, etc, clean>>

\* The API process dies and pm2 starts it again; connections break, and what
\* its handlers had still to do is lost.  The commands go on.
ApiRestarts ==
    /\ \E r \in Requests : pc[r] \in {"sent", "save", "compile"}
    /\ pc' = [r \in Requests |->
                IF pc[r] \in {"sent", "save", "compile"} THEN "done" ELSE pc[r]]
    /\ waiting' = [n \in Nodes |-> None]
    /\ firstRun' = TRUE
    /\ clean' = FALSE
    /\ UNCHANGED <<api, phase, call, list, jobs, machine, inOrder>>

Next ==
    \/ \E n \in Nodes, r \in Requests : Join(n, r) \/ Leave(n, r)
    \/ \E n \in Nodes : ConnectionBreaks(n)
    \/ \E r \in Requests :
          Read(r) \/ Fail(r) \/ Save(r) \/ Compile(r) \/ Replace(r) \/ Reload(r)
    \/ ApiRestarts

Spec == Init /\ [][Next]_vars

-----------------------------------------------------------------------------
\* The list never holds a node twice, although scripts repeat their calls while
\* earlier ones may still be handled, and lists are saved from stale reads.
NoDuplicates == \A j, k \in 1..Len(file) : file[j] = file[k] => j = k

\* "must have atleast one running node" (db/api/app.coffee:120): however
\* removals race, a pool with nodes never loses the last one.
NeverEmptied == [][api = "pgpool" /\ file # <<>> => file' # <<>>]_file

\* Where no two calls overlap, nothing fails and no call is repeated, a node
\* that was told it is in is listed, and one that was told it is out is not:
\* but for the last node of pgpool, which stays at the head of the list.
MembersAreListed ==
    clean => \A n \in Nodes :
        /\ phase[n] = "in" => Listed(n)
        /\ phase[n] = "gone" /\ Listed(n) => api = "pgpool" /\ file[1] = n

\* no handler and no command has anything left to do
AtRest == \A r \in Requests : pc[r] \notin {"save", "compile"} /\ jobs[r] = {}

\* Under the same conditions, the live configuration follows the file once all
\* commands have ended; and if no reload overtook a replacement, the daemon
\* runs it.
ConfigurationFollows ==
    clean /\ AtRest => /\ conf = file /\ etc = file
                       /\ inOrder => running = file
=============================================================================
