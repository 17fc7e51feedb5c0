---------------------------- MODULE TopologyProofs ----------------------------
(***************************************************************************)
(* What holds of the crawl for any network, any answers and any limits:    *)
(* the types and bounds of the database, that a search is complete, and    *)
(* that the connections it was told of are in the database.  The invariant *)
(* says what a search knows half-way: the hosts visited are those at the   *)
(* front of the queue, and what routers have reported is in the queue, or  *)
(* still to be put there.                                                  *)
(***************************************************************************)
EXTENDS Topology, FiniteSetTheorems, TLAPS

Pending(h) == pc = "link" /\ h \in todo

VisitedInFront ==
    /\ \A h : h \in visited <=> \E i \in 1..head : queue[i] = h
    /\ Cardinality(visited) <= head

ReportedAreQueued ==
    /\ \A h \in Queued : \E l \in told : l[2] = h
    /\ pc = "link" => \A h \in todo : <<host, h>> \in told
    /\ Len(queue) < MaxQueue => \A l \in told : l[2] \in Queued \/ Pending(l[2])

SearchDone == pc \in {"rest", "export"} /\ Len(queue) < MaxQueue => head = Len(queue)

ReportedAreAdded ==
    apart /\ Cardinality(links) < MaxLinks =>
        \A l \in told : l \in links \/ (l[1] = host /\ Pending(l[2]))

Inv ==
    /\ TypeOK
    /\ VisitedInFront /\ ReportedAreQueued /\ SearchDone
    /\ ReportedAreAdded

-----------------------------------------------------------------------------
(* Finite sets *)

LEMMA OneMore ==
    ASSUME NEW S, NEW x, IsFiniteSet(S)
    PROVE  Cardinality(S \cup {x}) <= Cardinality(S) + 1 /\ Cardinality(S \cup {x}) \in Nat
<1>1. Cardinality(S) \in Nat
  BY FS_CardinalityType
<1>2. Cardinality(S \cup {x}) = IF x \in S THEN Cardinality(S) ELSE Cardinality(S) + 1
  BY FS_AddElement
<1>3. Cardinality(S \cup {x}) = Cardinality(S) \/ Cardinality(S \cup {x}) = Cardinality(S) + 1
  BY <1>2
<1> QED
  BY <1>1, <1>3

LEMMA TablesFinite ==
    ASSUME TypeOK
    PROVE  /\ IsFiniteSet(Listed) /\ Cardinality(Listed) \in Nat
           /\ IsFiniteSet(links) /\ Cardinality(links) \in Nat
           /\ IsFiniteSet(visited) /\ Cardinality(visited) \in Nat
<1>1. Listed \subseteq Hosts /\ visited \subseteq Hosts /\ Crawlable \subseteq Hosts
  BY TopologyAssumption DEF Listed, TypeOK
<1>2. IsFiniteSet(Hosts) /\ IsFiniteSet(Crawlable)
  BY <1>1, FS_Subset, TopologyAssumption
<1>3. IsFiniteSet(Hosts \X Crawlable)
  BY <1>2, FS_Product
<1>4. links \subseteq Hosts \X Crawlable
  BY DEF TypeOK
<1>5. IsFiniteSet(Listed) /\ IsFiniteSet(links) /\ IsFiniteSet(visited)
  BY <1>1, <1>2, <1>3, <1>4, FS_Subset
<1> QED
  BY <1>5, FS_CardinalityType

-----------------------------------------------------------------------------
(* The operations of the database *)

LEMMA CleanUpTyped ==
    ASSUME TypeOK, CleanUp
    PROVE  /\ nodes' \in [Hosts -> Node] /\ Cardinality(Listed') <= MaxNodes
           /\ links' \subseteq Hosts \X Crawlable /\ Cardinality(links') <= MaxLinks
<1>1. \A n \in Node : Aged(n) \in Node /\ (Aged(n).listed => n.listed)
  BY TopologyAssumption DEF Aged, Absent, Node, Dead
<1>2. nodes' \in [Hosts -> Node]
  BY <1>1 DEF CleanUp, TypeOK
<1>3. Listed' \subseteq Listed
  BY <1>1 DEF CleanUp, TypeOK, Listed
<1>4. links' \subseteq links
  BY DEF CleanUp
<1>5. Cardinality(Listed') <= Cardinality(Listed) /\ Cardinality(Listed') \in Nat
  BY <1>3, TablesFinite, FS_Subset, FS_CardinalityType
<1>6. Cardinality(links') <= Cardinality(links) /\ Cardinality(links') \in Nat
  BY <1>4, TablesFinite, FS_Subset, FS_CardinalityType
<1> QED
  BY <1>2, <1>4, <1>5, <1>6, TablesFinite, TopologyAssumption DEF TypeOK

LEMMA AddNodeTyped ==
    ASSUME TypeOK, NEW h \in Hosts, AddNode(h)
    PROVE  nodes' \in [Hosts -> Node] /\ Cardinality(Listed') <= MaxNodes
<1>1. nodes' \in [Hosts -> Node]
  <2>1. \A n \in Node : [n EXCEPT !.age = 0] \in Node
    BY TopologyAssumption DEF Node, Dead
  <2>2. Fresh \in Node
    BY TopologyAssumption DEF Fresh, Node, Dead
  <2> QED
    BY <2>1, <2>2 DEF AddNode, TypeOK
<1>2. CASE ~nodes[h].listed /\ Cardinality(Listed) < MaxNodes
  <2>1. Listed' = Listed \cup {h}
    BY <1>2 DEF AddNode, TypeOK, Fresh, Node, Listed
  <2>2. Cardinality(Listed') <= Cardinality(Listed) + 1 /\ Cardinality(Listed') \in Nat
    BY <2>1, TablesFinite, OneMore
  <2> QED
    BY <1>1, <1>2, <2>2, TablesFinite, TopologyAssumption
<1>3. CASE nodes[h].listed \/ ~(Cardinality(Listed) < MaxNodes)
  <2>1. Listed' = Listed
    BY <1>3 DEF AddNode, TypeOK, Fresh, Node, Listed
  <2> QED
    BY <1>1, <2>1 DEF TypeOK
<1> QED
  BY <1>2, <1>3

\* A connection is added unless the table is full; the table was not full before if it is not now.
LEMMA AddLinkTyped ==
    ASSUME TypeOK, NEW from \in Hosts, NEW to \in Crawlable, AddLink(from, to)
    PROVE  /\ links' \subseteq Hosts \X Crawlable /\ Cardinality(links') <= MaxLinks
           /\ Cardinality(links') < MaxLinks =>
                Cardinality(links) < MaxLinks /\ links' = links \cup {<<from, to>>}
<1>1. CASE Cardinality(links) < MaxLinks
  <2>1. links' = links \cup {<<from, to>>}
    BY <1>1 DEF AddLink
  <2>2. Cardinality(links') <= Cardinality(links) + 1 /\ Cardinality(links') \in Nat
    BY <2>1, TablesFinite, OneMore
  <2> QED
    BY <1>1, <2>1, <2>2, TablesFinite, TopologyAssumption DEF TypeOK
<1>2. CASE ~(Cardinality(links) < MaxLinks)
  BY <1>2 DEF AddLink, TypeOK
<1> QED
  BY <1>1, <1>2

\* Nothing is taken out of the queue, and a host is put into it unless it is there or there is no room.
LEMMA QueueIfNewQueues ==
    ASSUME TypeOK, VisitedInFront, NEW h \in Crawlable, QueueIfNew(h)
    PROVE  /\ queue' \in Seq(Crawlable) /\ Len(queue') <= MaxQueue /\ Len(queue) <= Len(queue')
           /\ \A i \in 1..Len(queue) : queue'[i] = queue[i]
           /\ Queued' \subseteq Queued \cup {h} /\ Queued \subseteq Queued'
           /\ Len(queue') < MaxQueue => h \in Queued' /\ Len(queue) < MaxQueue
<1>1. CASE h \in visited \cup Queued \/ Len(queue) = MaxQueue
  <2>1. queue' = queue /\ Queued' = Queued
    BY <1>1 DEF QueueIfNew, Queued
  <2>2. visited \subseteq Queued
    BY DEF VisitedInFront, Queued, TypeOK
  <2> QED
    BY <1>1, <2>1, <2>2 DEF TypeOK
<1>2. CASE ~(h \in visited \cup Queued \/ Len(queue) = MaxQueue)
  <2>1. queue' = Append(queue, h) /\ Len(queue') = Len(queue) + 1
    BY <1>2 DEF QueueIfNew, TypeOK
  <2>2. \A i \in 1..Len(queue) : queue'[i] = queue[i]
    BY <2>1 DEF TypeOK
  <2>3. queue'[Len(queue) + 1] = h
    BY <2>1 DEF TypeOK
  <2>4. Queued' = Queued \cup {h}
    BY <2>1, <2>2, <2>3 DEF Queued, TypeOK
  <2>5. queue' \in Seq(Crawlable) /\ Len(queue') <= MaxQueue
    BY <1>2, <2>1, TopologyAssumption DEF TypeOK
  <2> QED
    BY <2>1, <2>2, <2>4, <2>5, TopologyAssumption DEF TypeOK
<1> QED
  BY <1>1, <1>2

-----------------------------------------------------------------------------
(* The invariant, action by action *)

LEMMA InitInv == Init => Inv
<1> SUFFICES ASSUME Init PROVE Inv
  OBVIOUS
<1>1. Listed = {} /\ Queued = {}
  BY DEF Init, Listed, Absent, Queued
<1>2. nodes \in [Hosts -> Node]
  BY TopologyAssumption DEF Init, Absent, Node, Dead
<1>3. TypeOK
  <2>1. Cardinality(Listed) <= MaxNodes /\ Cardinality(links) <= MaxLinks
    BY <1>1, FS_EmptySet, TopologyAssumption DEF Init
  <2>2. queue \in Seq(Crawlable) /\ Len(queue) <= MaxQueue /\ head \in 0..Len(queue)
    BY TopologyAssumption DEF Init
  <2> QED
    BY <1>2, <2>1, <2>2, TopologyAssumption DEF Init, TypeOK, Steps
<1>4. VisitedInFront /\ ReportedAreQueued /\ SearchDone /\ ReportedAreAdded
  BY <1>1, FS_EmptySet DEF Init, VisitedInFront, ReportedAreQueued, SearchDone, ReportedAreAdded
<1> QED
  BY <1>3, <1>4 DEF Inv

LEMMA BeginCrawlKeeps == Inv /\ BeginCrawl => Inv'
<1> SUFFICES ASSUME Inv, BeginCrawl PROVE Inv'
  OBVIOUS
<1>1. /\ nodes' \in [Hosts -> Node] /\ Cardinality(Listed') <= MaxNodes
      /\ links' \subseteq Hosts \X Crawlable /\ Cardinality(links') <= MaxLinks
  BY CleanUpTyped DEF Inv, BeginCrawl
<1>2. Queued' = {}
  BY DEF BeginCrawl, Queued
<1>3. TypeOK'
  BY <1>1, TopologyAssumption DEF Inv, TypeOK, BeginCrawl, Steps
<1>4. (VisitedInFront /\ ReportedAreQueued /\ SearchDone /\ ReportedAreAdded)'
  BY <1>2, FS_EmptySet
  DEF BeginCrawl, VisitedInFront, ReportedAreQueued, SearchDone, ReportedAreAdded
<1> QED
  BY <1>3, <1>4 DEF Inv

LEMMA PopKeeps == Inv /\ Pop => Inv'
<1> SUFFICES ASSUME Inv, Pop PROVE Inv'
  OBVIOUS
<1> DEFINE h == queue[head + 1]
<1>1. /\ h \in Crawlable /\ head' = head + 1 /\ head' \in 0..Len(queue)
      /\ visited' = visited \cup {h} /\ Queued' = Queued
  BY DEF Inv, TypeOK, Pop, Queued
<1>2. TypeOK'
  <2>1. pc' \in Steps /\ host' \in Hosts \ Phones
    BY <1>1, TopologyAssumption DEF Inv, TypeOK, Pop, Steps
  <2>2. Listed' = Listed
    BY DEF Pop, database, Listed
  <2> QED
    BY <1>1, <2>1, <2>2 DEF Inv, TypeOK, Pop, database
<1>3. VisitedInFront'
  <2>1. \A x : x \in visited' <=> \E i \in 1..head' : queue'[i] = x
    BY <1>1 DEF Inv, TypeOK, VisitedInFront, Pop
  <2>2. Cardinality(visited') <= head'
    <3>1. Cardinality(visited') <= Cardinality(visited) + 1 /\ Cardinality(visited') \in Nat
      BY <1>1, TablesFinite, OneMore DEF Inv
    <3>2. Cardinality(visited) <= head /\ Cardinality(visited) \in Nat /\ head \in Nat
      BY TablesFinite DEF Inv, TypeOK, VisitedInFront
    <3> QED
      BY <1>1, <3>1, <3>2
  <2> QED
    BY <2>1, <2>2 DEF VisitedInFront
<1>4. (ReportedAreQueued /\ SearchDone /\ ReportedAreAdded)'
  BY <1>1 DEF Inv, Pop, database, ReportedAreQueued, SearchDone, ReportedAreAdded, Pending
<1> QED
  BY <1>2, <1>3, <1>4 DEF Inv

LEMMA EndSearchKeeps == Inv /\ EndSearch => Inv'
<1> SUFFICES ASSUME Inv, EndSearch PROVE Inv'
  OBVIOUS
<1>1. Listed' = Listed /\ Queued' = Queued
  BY DEF EndSearch, database, search, Listed, Queued
<1>2. TypeOK'
  BY <1>1 DEF Inv, TypeOK, EndSearch, database, search, Steps
<1>3. Len(queue) < MaxQueue => head = Len(queue)
  BY TablesFinite, TopologyAssumption DEF Inv, TypeOK, VisitedInFront, EndSearch
<1>4. (VisitedInFront /\ ReportedAreQueued /\ SearchDone /\ ReportedAreAdded)'
  BY <1>1, <1>3
  DEF Inv, EndSearch, database, search, VisitedInFront, ReportedAreQueued, SearchDone,
      ReportedAreAdded, Pending
<1> QED
  BY <1>2, <1>4 DEF Inv

LEMMA FetchDetailsKeeps == Inv /\ FetchDetails => Inv'
<1> SUFFICES ASSUME Inv, FetchDetails PROVE Inv'
  OBVIOUS
<1>1. nodes' \in [Hosts -> Node] /\ Cardinality(Listed') <= MaxNodes
  <2>1. CASE reached' /\ AddNode(host)
    BY <2>1, AddNodeTyped DEF Inv, TypeOK
  <2>2. CASE UNCHANGED nodes
    BY <2>2 DEF Inv, TypeOK, Listed
  <2> QED
    BY <2>1, <2>2 DEF FetchDetails
<1>2. Queued' = Queued
  BY DEF FetchDetails, search, Queued
<1>3. TypeOK'
  BY <1>1 DEF Inv, TypeOK, FetchDetails, search, Steps
<1>4. (VisitedInFront /\ ReportedAreQueued /\ SearchDone /\ ReportedAreAdded)'
  BY <1>2
  DEF Inv, FetchDetails, search, VisitedInFront, ReportedAreQueued, SearchDone,
      ReportedAreAdded, Pending
<1> QED
  BY <1>3, <1>4 DEF Inv

LEMMA FetchLinksKeeps == Inv /\ FetchLinks => Inv'
<1> SUFFICES ASSUME Inv, FetchLinks PROVE Inv'
  OBVIOUS
<1>1. /\ todo' \subseteq Crawlable /\ told' = told \cup ({host} \X todo')
      /\ pc = "links" /\ pc' = "link" /\ host' = host
  BY DEF FetchLinks
<1>2. Listed' = Listed /\ Queued' = Queued
  BY DEF FetchLinks, database, search, Listed, Queued
<1>3. TypeOK'
  BY <1>1, <1>2 DEF Inv, TypeOK, FetchLinks, database, search, Steps
<1>4. \A l \in told' : l \in told \/ (l[1] = host /\ l[2] \in todo')
  BY <1>1
<1>5. VisitedInFront' /\ SearchDone'
  BY <1>2 DEF Inv, FetchLinks, database, search, VisitedInFront, SearchDone
<1>6. ReportedAreQueued'
  BY <1>1, <1>2, <1>4 DEF Inv, FetchLinks, search, ReportedAreQueued, Pending
<1>7. ReportedAreAdded'
  BY <1>1, <1>4 DEF Inv, FetchLinks, database, ReportedAreAdded, Pending
<1> QED
  BY <1>3, <1>5, <1>6, <1>7 DEF Inv

LEMMA AddNeighbourKeeps == Inv /\ AddNeighbour => Inv'
<1> SUFFICES ASSUME Inv, AddNeighbour PROVE Inv'
  OBVIOUS
<1>1. PICK h \in todo : AddLink(host, h) /\ QueueIfNew(h) /\ todo' = todo \ {h}
  BY DEF AddNeighbour
<1>2. h \in Crawlable /\ host \in Hosts
  BY DEF Inv, TypeOK
<1>3. /\ links' \subseteq Hosts \X Crawlable /\ Cardinality(links') <= MaxLinks
      /\ Cardinality(links') < MaxLinks =>
           Cardinality(links) < MaxLinks /\ links' = links \cup {<<host, h>>}
  BY <1>1, <1>2, AddLinkTyped DEF Inv
<1>4. /\ queue' \in Seq(Crawlable) /\ Len(queue') <= MaxQueue /\ Len(queue) <= Len(queue')
      /\ \A i \in 1..Len(queue) : queue'[i] = queue[i]
      /\ Queued' \subseteq Queued \cup {h} /\ Queued \subseteq Queued'
      /\ Len(queue') < MaxQueue => h \in Queued' /\ Len(queue) < MaxQueue
  BY <1>1, <1>2, QueueIfNewQueues DEF Inv
<1>5. TypeOK'
  <2>1. Listed' = Listed
    BY DEF AddNeighbour, Listed
  <2> QED
    BY <1>1, <1>3, <1>4, <2>1 DEF Inv, TypeOK, AddNeighbour
<1>6. VisitedInFront'
  BY <1>4 DEF Inv, TypeOK, VisitedInFront, AddNeighbour
<1>7. ReportedAreQueued'
  <2>1. <<host, h>> \in told
    BY <1>1 DEF Inv, ReportedAreQueued, AddNeighbour
  <2> QED
    BY <1>1, <1>4, <2>1 DEF Inv, ReportedAreQueued, AddNeighbour, Pending
<1>8. SearchDone'
  BY DEF SearchDone, AddNeighbour
<1>9. ReportedAreAdded'
  <2> SUFFICES ASSUME apart', Cardinality(links') < MaxLinks, NEW l \in told'
               PROVE  (l \in links \/ (l[1] = host /\ Pending(l[2])))'
    BY DEF ReportedAreAdded
  <2>1. l \in links \/ (l[1] = host /\ Pending(l[2]))
    BY <1>3 DEF Inv, ReportedAreAdded, AddNeighbour
  <2>2. l[1] = host /\ l[2] = h => l = <<host, h>>
    BY DEF Inv, TypeOK, AddNeighbour
  <2> QED
    BY <1>1, <1>3, <2>1, <2>2 DEF AddNeighbour, Pending
<1> QED
  BY <1>5, <1>6, <1>7, <1>8, <1>9 DEF Inv

LEMMA EndLinksKeeps == Inv /\ EndLinks => Inv'
<1> SUFFICES ASSUME Inv, EndLinks PROVE Inv'
  OBVIOUS
<1>1. Listed' = Listed /\ Queued' = Queued
  BY DEF EndLinks, database, search, Listed, Queued
<1>2. TypeOK'
  BY <1>1 DEF Inv, TypeOK, EndLinks, database, search, Steps
<1>3. (VisitedInFront /\ ReportedAreQueued /\ SearchDone /\ ReportedAreAdded)'
  BY <1>1
  DEF Inv, EndLinks, database, search, VisitedInFront, ReportedAreQueued, SearchDone,
      ReportedAreAdded, Pending
<1> QED
  BY <1>2, <1>3 DEF Inv

LEMMA FetchPhonesKeeps == Inv /\ FetchPhones => Inv'
<1> SUFFICES ASSUME Inv, FetchPhones PROVE Inv'
  OBVIOUS
<1>1. Listed' = Listed /\ Queued' = Queued
  BY DEF FetchPhones, database, search, Listed, Queued
<1>2. TypeOK'
  BY <1>1, TopologyAssumption DEF Inv, TypeOK, FetchPhones, database, search, Steps
<1>3. (VisitedInFront /\ ReportedAreQueued /\ SearchDone /\ ReportedAreAdded)'
  BY <1>1
  DEF Inv, FetchPhones, database, search, VisitedInFront, ReportedAreQueued, SearchDone,
      ReportedAreAdded, Pending
<1> QED
  BY <1>2, <1>3 DEF Inv

LEMMA AddPhoneKeeps == Inv /\ AddPhone => Inv'
<1> SUFFICES ASSUME Inv, AddPhone PROVE Inv'
  OBVIOUS
<1>1. PICK p \in todo :
         /\ AddNode(p) /\ todo' = todo \ {p}
         /\ (pc' = "phonelink" /\ phone' = p) \/ UNCHANGED <<pc, phone>>
  BY DEF AddPhone
<1>2. p \in Crawlable /\ p \in Hosts
  BY TopologyAssumption DEF Inv, TypeOK
<1>3. nodes' \in [Hosts -> Node] /\ Cardinality(Listed') <= MaxNodes
  BY <1>1, <1>2, AddNodeTyped DEF Inv
<1>4. Queued' = Queued
  BY DEF AddPhone, search, Queued
<1>5. TypeOK'
  BY <1>1, <1>2, <1>3 DEF Inv, TypeOK, AddPhone, search, Steps
<1>6. (VisitedInFront /\ ReportedAreQueued /\ SearchDone /\ ReportedAreAdded)'
  BY <1>1, <1>4
  DEF Inv, AddPhone, search, VisitedInFront, ReportedAreQueued, SearchDone,
      ReportedAreAdded, Pending
<1> QED
  BY <1>5, <1>6 DEF Inv

LEMMA LinkPhoneKeeps == Inv /\ LinkPhone => Inv'
<1> SUFFICES ASSUME Inv, LinkPhone PROVE Inv'
  OBVIOUS
<1>1. host \in Hosts /\ phone \in Crawlable
  BY TopologyAssumption DEF Inv, LinkPhone, TypeOK
<1>2. /\ links' \subseteq Hosts \X Crawlable /\ Cardinality(links') <= MaxLinks
      /\ Cardinality(links') < MaxLinks =>
           Cardinality(links) < MaxLinks /\ links' = links \cup {<<host, phone>>}
  BY <1>1, AddLinkTyped DEF Inv, LinkPhone
<1>3. Listed' = Listed /\ Queued' = Queued
  BY DEF LinkPhone, search, Listed, Queued
<1>4. TypeOK'
  BY <1>2, <1>3, TopologyAssumption DEF Inv, TypeOK, LinkPhone, search, Steps
<1>5. (VisitedInFront /\ ReportedAreQueued /\ SearchDone)'
  BY <1>3
  DEF Inv, LinkPhone, search, VisitedInFront, ReportedAreQueued, SearchDone, Pending
<1>6. ReportedAreAdded'
  BY <1>2 DEF Inv, LinkPhone, ReportedAreAdded, Pending
<1> QED
  BY <1>4, <1>5, <1>6 DEF Inv

LEMMA EndPhonesKeeps == Inv /\ EndPhones => Inv'
<1> SUFFICES ASSUME Inv, EndPhones PROVE Inv'
  OBVIOUS
<1>1. Listed' = Listed /\ Queued' = Queued
  BY DEF EndPhones, database, search, Listed, Queued
<1>2. TypeOK'
  BY <1>1, TopologyAssumption DEF Inv, TypeOK, EndPhones, database, search, Steps
<1>3. (VisitedInFront /\ ReportedAreQueued /\ SearchDone /\ ReportedAreAdded)'
  BY <1>1
  DEF Inv, EndPhones, database, search, VisitedInFront, ReportedAreQueued, SearchDone,
      ReportedAreAdded, Pending
<1> QED
  BY <1>2, <1>3 DEF Inv

LEMMA EndCrawlKeeps == Inv /\ EndCrawl => Inv'
<1> SUFFICES ASSUME Inv, EndCrawl PROVE Inv'
  OBVIOUS
<1>1. Listed' = Listed /\ Queued' = Queued
  BY DEF EndCrawl, database, search, Listed, Queued
<1>2. TypeOK'
  BY <1>1, TopologyAssumption DEF Inv, TypeOK, EndCrawl, database, search, Steps
<1>3. (VisitedInFront /\ ReportedAreQueued /\ SearchDone /\ ReportedAreAdded)'
  BY <1>1
  DEF Inv, EndCrawl, database, search, VisitedInFront, ReportedAreQueued, SearchDone,
      ReportedAreAdded, Pending
<1> QED
  BY <1>2, <1>3 DEF Inv

LEMMA BulkTestKeeps == Inv /\ BulkTest => Inv'
<1> SUFFICES ASSUME Inv, BulkTest PROVE Inv'
  OBVIOUS
<1>1. /\ nodes' \in [Hosts -> Node] /\ Cardinality(Listed') <= MaxNodes
      /\ links' \subseteq Hosts \X Crawlable /\ Cardinality(links') <= MaxLinks
  BY CleanUpTyped DEF Inv, BulkTest
<1>2. Queued' = Queued
  BY DEF BulkTest, search, Queued
<1>3. TypeOK'
  BY <1>1 DEF Inv, TypeOK, BulkTest, search
<1>4. (VisitedInFront /\ ReportedAreQueued /\ SearchDone)'
  BY <1>2
  DEF Inv, BulkTest, search, VisitedInFront, ReportedAreQueued, SearchDone, Pending
<1>5. ReportedAreAdded'
  BY DEF BulkTest, ReportedAreAdded
<1> QED
  BY <1>3, <1>4, <1>5 DEF Inv

LEMMA TickKeeps == Inv /\ Tick => Inv'
<1> SUFFICES ASSUME Inv, Tick PROVE Inv'
  OBVIOUS
<1>1. \A n \in Node : n.age < Dead => [n EXCEPT !.age = @ + 1] \in Node
  BY TopologyAssumption DEF Node, Dead
<1>2. nodes' \in [Hosts -> Node]
  BY <1>1 DEF Inv, TypeOK, Tick
<1>3. Listed' = Listed /\ Queued' = Queued
  BY DEF Inv, TypeOK, Tick, search, Node, Listed, Queued
<1>4. TypeOK'
  BY <1>2, <1>3 DEF Inv, TypeOK, Tick, search
<1>5. (VisitedInFront /\ ReportedAreQueued /\ SearchDone /\ ReportedAreAdded)'
  BY <1>3
  DEF Inv, Tick, search, VisitedInFront, ReportedAreQueued, SearchDone, ReportedAreAdded, Pending
<1> QED
  BY <1>4, <1>5 DEF Inv

LEMMA StutterKeeps == Inv /\ UNCHANGED vars => Inv'
<1> SUFFICES ASSUME Inv, UNCHANGED vars PROVE Inv'
  OBVIOUS
<1>1. Listed' = Listed /\ Queued' = Queued
  BY DEF vars, database, search, Listed, Queued
<1>2. TypeOK'
  BY <1>1 DEF Inv, TypeOK, vars, database, search
<1>3. (VisitedInFront /\ ReportedAreQueued /\ SearchDone /\ ReportedAreAdded)'
  BY <1>1
  DEF Inv, vars, database, search, VisitedInFront, ReportedAreQueued, SearchDone,
      ReportedAreAdded, Pending
<1> QED
  BY <1>2, <1>3 DEF Inv

LEMMA StepKeeps == Inv /\ [Next]_vars => Inv'
BY BeginCrawlKeeps, PopKeeps, EndSearchKeeps, FetchDetailsKeeps, FetchLinksKeeps,
   AddNeighbourKeeps, EndLinksKeeps, FetchPhonesKeeps, AddPhoneKeeps, LinkPhoneKeeps,
   EndPhonesKeeps, EndCrawlKeeps, BulkTestKeeps, TickKeeps, StutterKeeps
DEF Next, Crawler

-----------------------------------------------------------------------------
(* The theorems *)

LEMMA Invariance == Spec => []Inv
BY InitInv, StepKeeps, PTL DEF Spec

\* The database, the queue and the list of visited hosts hold names of their kind and never more
\* than there is room for (topology_db.c:222, 304, 1136, 1349), whatever routers answer.
THEOREM TopologyTyped == Spec => []TypeOK
<1>1. Inv => TypeOK
  BY DEF Inv
<1> QED
  BY Invariance, <1>1, PTL

\* A crawl that did not fill its queue has been at exactly the hosts reported to it
\* (topology_db.c:1121-1143, 1320-1378).
THEOREM CrawlIsComplete == Spec => []CrawlCovers
<1>1. Inv => CrawlCovers
  <2> SUFFICES ASSUME Inv, pc = "rest", Len(queue) < MaxQueue
               PROVE  visited = {l[2] : l \in told}
    BY DEF CrawlCovers
  <2>1. visited = Queued
    BY DEF Inv, TypeOK, VisitedInFront, SearchDone, Queued
  <2>2. \A l \in told : l[2] \in Queued
    BY DEF Inv, ReportedAreQueued, Pending
  <2>3. \A h \in Queued : \E l \in told : l[2] = h
    BY DEF Inv, ReportedAreQueued
  <2> QED
    BY <2>1, <2>2, <2>3
<1> QED
  BY Invariance, <1>1, PTL

\* What routers reported in a crawl is in the database after it, when the table has room and the
\* bulk test kept away (topology_db.c:274-337, 859-866, 890-896).
THEOREM ReportsAreKept == Spec => []ReportedAreLinked
<1>1. Inv => ReportedAreLinked
  BY DEF Inv, ReportedAreAdded, ReportedAreLinked, Pending
<1> QED
  BY Invariance, <1>1, PTL
=============================================================================
