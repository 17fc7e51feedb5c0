------------------------------- MODULE Topology -------------------------------
(***************************************************************************)
(* The map of the mesh: a database of nodes and connections that the       *)
(* crawler fills hourly by a breadth-first search over the routers, from   *)
(* this one on, and that the bulk test ages and exports as well.  Each     *)
(* operation of the database holds its mutex; a crawl is many of them, and *)
(* those of the bulk test come between.                                    *)
(*                                                                         *)
(* What a router answers is any part of what is around it, and may be      *)
(* nothing.  Names are normalised.  Positions and round-trip times are     *)
(* left out, and the order of the tables: a node is found by its name.     *)
(***************************************************************************)
EXTENDS Integers, Sequences, FiniteSets

CONSTANTS
    Hosts,          \* names of routers and phones
    Phones,         \* the names that are numbers (without the dashes the host files allow)
    Crawlable,      \* the names should_crawl_node accepts: phones and "hb..."
    Localhost,      \* this router
    Neighbours,     \* pairs <<router, host>>: what a router could report
    MaxNodes,       \* MAX_TOPOLOGY_NODES
    MaxLinks,       \* MAX_TOPOLOGY_CONNECTIONS
    MaxQueue,       \* room in the crawl queue, and in the list of visited hosts
    InactiveAfter,  \* TOPOLOGY_NODE_INACTIVE_TIMEOUT_SECONDS
    DeleteAfter     \* TOPOLOGY_NODE_DELETE_TIMEOUT_SECONDS

ASSUME TopologyAssumption ==
    /\ IsFiniteSet(Hosts)
    /\ Phones \subseteq Crawlable /\ Crawlable \subseteq Hosts
    /\ Localhost \in Hosts \ Phones
    /\ Neighbours \subseteq (Hosts \ Phones) \X Hosts
    /\ {MaxNodes, MaxLinks, MaxQueue, InactiveAfter, DeleteAfter} \subseteq Nat

VARIABLES
    nodes,    \* g_nodes: for each name, whether it is listed, its age and status
    links,    \* g_connections: pairs of names
    pc,       \* what the crawler does next
    host,     \* the router it looks at
    phone,    \* the phone it connects with that router (Localhost: none)
    reached,  \* whether that router answered (FALSE once that has been used)
    todo,     \* neighbours or phones of that router still to be added
    queue,    \* crawl_queue[0 .. queue_count - 1]
    head,     \* queue_head
    visited,  \* visited[0 .. visited_count - 1]
    told,     \* history: the connections reported in this crawl
    apart     \* history: the bulk test has not aged the database since it began

database == <<nodes, links>>
search == <<queue, head, visited>>
vars == <<database, pc, host, phone, reached, todo, search, told, apart>>

Steps == {"rest", "next", "details", "links", "link", "phones", "phone", "phonelink", "export"}
Dead == DeleteAfter + 1  \* any age at which a node is deleted

Node == [listed : BOOLEAN, age : 0..Dead, inactive : BOOLEAN]
Absent == [listed |-> FALSE, age |-> 0, inactive |-> FALSE]
Fresh == [listed |-> TRUE, age |-> 0, inactive |-> FALSE]
Listed == {h \in Hosts : nodes[h].listed}

-----------------------------------------------------------------------------
(* The database: one operation each *)

\* A node that is there is only seen again: its status stays.
AddNode(h) ==
    nodes' = [nodes EXCEPT ![h] =
                IF nodes[h].listed THEN [@ EXCEPT !.age = 0]
                ELSE IF Cardinality(Listed) < MaxNodes THEN Fresh
                ELSE @]

\* Mutant: a connection to a node that is not there yet is refused.
AddLinkListed(from, to) ==
    links' = IF Cardinality(links) < MaxLinks /\ nodes[to].listed
             THEN links \cup {<<from, to>>} ELSE links

AddLink(from, to) ==
    links' = IF Cardinality(links) < MaxLinks THEN links \cup {<<from, to>>} ELSE links

\* Nodes that have not been seen for long turn inactive, then leave with their connections.
Aged(node) ==
    IF node.age > DeleteAfter THEN Absent
    ELSE [node EXCEPT !.inactive = @ \/ (node.listed /\ node.age > InactiveAfter)]

CleanUp ==
    /\ nodes' = [h \in Hosts |-> Aged(nodes[h])]
    /\ links' = {l \in links : nodes'[l[1]].listed /\ nodes'[l[2]].listed}

-----------------------------------------------------------------------------
(* The crawler *)

\* Mutant: of the hosts found only those not yet listed are put in the queue.
QueueIfUnlisted(h) ==
    queue' = IF ~nodes[h].listed /\ Len(queue) < MaxQueue THEN Append(queue, h) ELSE queue

Queued == {queue[i] : i \in 1..Len(queue)}

QueueIfNew(h) ==
    queue' = IF h \in visited \cup Queued \/ Len(queue) = MaxQueue
             THEN queue ELSE Append(queue, h)

\* A crawl looks at the local router first, without marking it as visited.  It is given
\* up if the memory or the name of the host cannot be had.
BeginCrawl ==
    /\ pc = "rest"
    /\ CleanUp
    /\ pc' \in {"details", "export"}
    /\ host' = Localhost
    /\ queue' = <<>> /\ head' = 0 /\ visited' = {}
    /\ told' = {} /\ apart' = TRUE
    /\ UNCHANGED <<phone, reached, todo>>

\* Mutant: a host that needs no look at stays at the head of the queue.
PopStuck ==
    /\ pc = "next" /\ head < Len(queue) /\ Cardinality(visited) < MaxQueue
    /\ LET h == queue[head + 1] IN
       /\ visited' = visited \cup {h}
       /\ IF h \in visited \cup Phones
          THEN UNCHANGED <<pc, host, head>>
          ELSE pc' = "details" /\ host' = h /\ head' = head + 1
    /\ UNCHANGED <<database, phone, reached, todo, queue, told, apart>>

Pop ==
    /\ pc = "next" /\ head < Len(queue) /\ Cardinality(visited) < MaxQueue
    /\ head' = head + 1
    /\ LET h == queue[head + 1] IN
       /\ visited' = visited \cup {h}
       /\ IF h \in visited \cup Phones
          THEN UNCHANGED <<pc, host>>
          ELSE pc' = "details" /\ host' = h
    /\ UNCHANGED <<database, phone, reached, todo, queue, told, apart>>

EndSearch ==
    /\ pc = "next" /\ ~(head < Len(queue) /\ Cardinality(visited) < MaxQueue)
    /\ pc' = "export"
    /\ UNCHANGED <<database, host, phone, reached, todo, search, told, apart>>

\* A router that does not tell where it is counts as unreachable and is not seen again.
FetchDetails ==
    /\ pc = "details"
    /\ reached' \in BOOLEAN
    /\ IF reached' THEN AddNode(host) ELSE UNCHANGED nodes
    /\ pc' = "links"
    /\ UNCHANGED <<links, host, phone, todo, search, told, apart>>

\* Its neighbours are asked for whether or not it was reached.
FetchLinks ==
    /\ pc = "links"
    /\ \E reply \in SUBSET {h \in Hosts : <<host, h>> \in Neighbours} :
          todo' = reply \cap Crawlable
    /\ told' = told \cup ({host} \X todo')
    /\ pc' = "link"
    /\ UNCHANGED <<database, host, phone, reached, search, apart>>

AddNeighbour ==
    /\ pc = "link"
    /\ \E h \in todo :
          /\ AddLink(host, h)
          /\ QueueIfNew(h)
          /\ todo' = todo \ {h}
    /\ UNCHANGED <<nodes, pc, host, phone, reached, head, visited, told, apart>>

EndLinks ==
    /\ pc = "link" /\ todo = {}
    /\ pc' = IF reached THEN "phones" ELSE "next"
    /\ UNCHANGED <<database, host, phone, reached, todo, search, told, apart>>

\* The phones the host files list for the router.
FetchPhones ==
    /\ pc = "phones"
    /\ todo' \in SUBSET {p \in Phones : <<host, p>> \in Neighbours}
    /\ pc' = "phone"
    /\ UNCHANGED <<database, host, phone, reached, search, told, apart>>

\* Only a phone that is new is connected with its router.
AddPhone ==
    /\ pc = "phone"
    /\ \E p \in todo :
          /\ AddNode(p)
          /\ todo' = todo \ {p}
          /\ IF nodes'[p].listed /\ ~nodes[p].listed
             THEN pc' = "phonelink" /\ phone' = p
             ELSE UNCHANGED <<pc, phone>>
    /\ UNCHANGED <<links, host, reached, search, told, apart>>

LinkPhone ==
    /\ pc = "phonelink"
    /\ AddLink(host, phone)
    /\ pc' = "phone" /\ phone' = Localhost
    /\ UNCHANGED <<nodes, host, reached, todo, search, told, apart>>

EndPhones ==
    /\ pc = "phone" /\ todo = {}
    /\ pc' = "next" /\ reached' = FALSE
    /\ UNCHANGED <<database, host, phone, todo, search, told, apart>>

\* Positions, statistics and the file are written; the table stays as it is.
EndCrawl ==
    /\ pc = "export"
    /\ pc' = "rest"
    /\ UNCHANGED <<database, host, phone, reached, todo, search, told, apart>>

Crawler ==
    \/ BeginCrawl \/ Pop \/ EndSearch \/ FetchDetails
    \/ FetchLinks \/ AddNeighbour \/ EndLinks
    \/ FetchPhones \/ AddPhone \/ LinkPhone \/ EndPhones
    \/ EndCrawl

-----------------------------------------------------------------------------
(* The bulk test at the start of a cycle; time *)

BulkTest ==
    /\ CleanUp
    /\ apart' = FALSE
    /\ UNCHANGED <<pc, host, phone, reached, todo, search, told>>

Tick ==
    /\ nodes' = [h \in Hosts |->
          IF nodes[h].listed /\ nodes[h].age < Dead
          THEN [nodes[h] EXCEPT !.age = @ + 1] ELSE nodes[h]]
    /\ UNCHANGED <<links, pc, host, phone, reached, todo, search, told, apart>>

Init ==
    /\ nodes = [h \in Hosts |-> Absent] /\ links = {}
    /\ pc = "rest" /\ host = Localhost /\ phone = Localhost /\ reached = FALSE /\ todo = {}
    /\ queue = <<>> /\ head = 0 /\ visited = {}
    /\ told = {} /\ apart = TRUE

Next == Crawler \/ BulkTest \/ Tick

\* The crawler is scheduled, and each of its requests ends by a time limit.
Spec == Init /\ [][Next]_vars /\ WF_vars(Crawler)

-----------------------------------------------------------------------------
(* Properties *)

TypeOK ==
    /\ nodes \in [Hosts -> Node] /\ Cardinality(Listed) <= MaxNodes
    /\ links \subseteq Hosts \X Crawlable /\ Cardinality(links) <= MaxLinks
    /\ pc \in Steps /\ host \in Hosts \ Phones /\ reached \in BOOLEAN
    /\ phone \in Hosts /\ (pc = "phonelink" => phone \in Phones)
    /\ todo \subseteq Crawlable /\ (pc \in {"phone", "phonelink"} => todo \subseteq Phones)
    /\ queue \in Seq(Crawlable) /\ Len(queue) <= MaxQueue
    /\ head \in 0..Len(queue)
    /\ visited \subseteq Crawlable
    /\ told \subseteq Hosts \X Crawlable /\ apart \in BOOLEAN

\* The search is complete and goes nowhere else: when a crawl is over it has been at exactly
\* the hosts that a router it has been at has reported, whatever routers answer and when,
\* unless the queue was full.
CrawlCovers ==
    pc = "rest" /\ Len(queue) < MaxQueue => visited = {l[2] : l \in told}

\* Every connection reported in a crawl is in the database when the crawl is over, as long as
\* the table has room and the bulk test does not age the database during the crawl: it would
\* remove connections to routers that are found later.
ReportedAreLinked == pc = "rest" /\ apart /\ Cardinality(links) < MaxLinks => told \subseteq links

\* Every crawl ends: no answer makes the search go round in circles.
CrawlEnds == pc # "rest" ~> pc = "rest"

-----------------------------------------------------------------------------
(* What the sources say, and the code does not do *)

\* A router that has just answered is ONLINE ("last_seen updated, status = ONLINE" when it is
\* reachable, the specification, 4.12.14).  TLC finds it violated: INACTIVE is never taken back.
ReachedIsOnline == [][FetchDetails /\ reached' => ~nodes'[host].inactive]_vars

\* Connections reported in a crawl are there after it ("Remove orphaned connections" is said of
\* both callers of the clean-up).  TLC finds it violated when the bulk test comes in between.
LinksSurvive ==
    pc = "rest" /\ Cardinality(links) < MaxLinks =>
        \A l \in told : nodes[l[1]].listed /\ nodes[l[2]].listed => l \in links

\* A phone is listed with its connection to a router ("prevents orphaned phones", the
\* specification, 4.12).  TLC finds it violated: a router that is no longer seen leaves a moment
\* before its phones, and takes their connections with it; and where another router lists the
\* phone by then, the phone stays, for the crawler connects only phones that are new.
PhonesHang == pc = "rest" => \A p \in Phones : nodes[p].listed => \E l \in links : l[2] = p
=============================================================================
