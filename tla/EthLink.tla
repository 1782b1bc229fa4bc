------------------------------ MODULE EthLink ------------------------------
(***************************************************************************)
(* The list of connections of eth_link.c, with the uploads they take part  *)
(* in (AlinkUpload).                                                       *)
(*                                                                         *)
(* Nothing protects the list.  main adds the permanent connection, the UDP *)
(* thread adds the ones servers ask for (message 0xBC), and the thread of  *)
(* each connection takes its own out; each reads and writes psNext one     *)
(* element at a time.  The step that follows a pointer to freed memory     *)
(* ends the run (harm): what comes after is undefined.                     *)
(*                                                                         *)
(* The run starts when eth_link_add_type has published psEthList, with an  *)
(* empty list, and main gets its connection: the socket and the thread it  *)
(* needs at start-up are there, and no server asks for one before main's   *)
(* is linked (AddStart), where one of the two would be lost.  The search   *)
(* message (0xBA), which only reads, is left out.                          *)
(***************************************************************************)
EXTENDS AlinkUpload, FiniteSets

CONSTANTS Servers,      \* addresses of servers, records with ip and port
          DefaultServer,\* 192.168.235.99:8060
          MaxClients    \* max of the type: 10

ASSUME LinkAssumption ==
  /\ IsFiniteSet(Clients)
  /\ DefaultServer \in Servers
  /\ \A v \in Servers : DOMAIN v = {"ip", "port"}
  /\ MaxClients \in Nat \ {0}

VARIABLES list,   \* psEthList->list
          next,   \* psNext of each connection
          cfg,    \* sCfg of each connection: its server
          adder,  \* progress of eth_link_add_tcp_client_list per caller
          del,    \* progress of eth_link_del_tcp_client_list per connection
          harm,   \* freed memory was used
          overlap,\* two threads were inside the list at the same time (history)
          dropped \* a removal has unlinked more than its own connection (history)

listVars == <<list, next, cfg, adder, del, harm>>
linkVars == <<uploadVars, listVars, overlap, dropped>>

Adders == {"main", "udp"}

\* A call at element at, with uCount connections seen, for server v.
Adding(pc, at, uCount, v, new) ==
  [pc |-> pc, at |-> at, count |-> uCount, server |-> v, new |-> new]
Ready   == Adding("ready", NoClient, 1, DefaultServer, NoClient)
Over(a) == Adding(IF a = "main" THEN "over" ELSE "ready", NoClient, 1, DefaultServer, NoClient)
Unlinked == [pc |-> "free", last |-> NoClient, at |-> NoClient]
NoDel    == [pc |-> "start", last |-> NoClient, at |-> NoClient]

LinkInit ==
  /\ UploadInit
  /\ list = NoClient
  /\ next = [c \in Clients |-> NoClient]
  /\ cfg  = [c \in Clients |-> DefaultServer]
  /\ adder = [a \in Adders |-> Ready]
  /\ del  = [c \in Clients |-> NoDel]
  /\ harm = FALSE
  /\ overlap = FALSE
  /\ dropped = FALSE

Freed(c) == thread[c] = "none"

UseAfterFree == harm' = TRUE /\ UNCHANGED <<uploadVars, list, next, cfg, adder, del>>

-----------------------------------------------------------------------------
(***************************************************************************)
(* eth_link_add_tcp_client_list, called by main once and by the UDP thread *)
(* for every 0xBC message.                                                 *)
(***************************************************************************)
AddStart(a, server) ==
  /\ adder[a].pc = "ready"
  /\ IF a = "main" THEN server = DefaultServer ELSE started
  /\ adder' = [adder EXCEPT ![a] = Adding(IF list = NoClient THEN "create" ELSE "walk",
                                          list, 1, server, NoClient)]
  /\ UNCHANGED <<uploadVars, list, next, cfg, del, harm>>

\* Mutant: the walk stops where it starts.
AtHead(a) == adder[a].at = list
AtEnd(a)  == next[adder[a].at] = NoClient \/ cfg[adder[a].at] = adder[a].server

AddWalk(a) ==
  /\ adder[a].pc = "walk" /\ ~Freed(adder[a].at)
  /\ ~AtEnd(a)
  /\ adder' = [adder EXCEPT ![a] = Adding("walk", next[@.at], @.count + 1, @.server, NoClient)]
  /\ UNCHANGED <<uploadVars, list, next, cfg, del, harm>>

\* Mutant: one connection too many.
AcceptsOneMore(a) ==
  LET found == cfg[adder[a].at]
  IN  /\ found.ip # adder[a].server.ip /\ found.port # adder[a].server.port
      /\ MaxClients >= adder[a].count

\* Both address and port must differ from those of the element the walk ended at.
Accepts(a) ==
  LET found == cfg[adder[a].at]
  IN  /\ found.ip # adder[a].server.ip /\ found.port # adder[a].server.port
      /\ MaxClients > adder[a].count

AddDecide(a) ==
  /\ adder[a].pc = "walk" /\ ~Freed(adder[a].at)
  /\ AtEnd(a) /\ Accepts(a)
  /\ adder' = [adder EXCEPT ![a] = Adding("create", @.at, @.count, @.server, NoClient)]
  /\ UNCHANGED <<uploadVars, list, next, cfg, del, harm>>

AddRefuse(a) ==
  /\ adder[a].pc = "walk" /\ ~Freed(adder[a].at)
  /\ AtEnd(a) /\ ~Accepts(a)
  /\ adder' = [adder EXCEPT ![a] = Over(a)]
  /\ UNCHANGED <<uploadVars, list, next, cfg, del, harm>>

AddCreate(a, c) ==
  /\ adder[a].pc = "create"
  /\ IF a = "main" THEN CreatePermanent(c) ELSE CreateRequested(c)
  /\ cfg'  = [cfg EXCEPT ![c] = adder[a].server]
  /\ adder' = [adder EXCEPT ![a] = Adding("init", @.at, @.count, @.server, c)]
  /\ UNCHANGED <<list, next, del, harm>>

\* No memory, socket or thread: NULL is what the pointer to the new one gets.
AddFails(a) ==
  /\ adder[a].pc = "create" /\ a # "main"
  /\ UNCHANGED uploadVars
  /\ IF adder[a].at = NoClient
     THEN list' = NoClient /\ UNCHANGED next
     ELSE /\ ~Freed(adder[a].at)
          /\ next' = [next EXCEPT ![adder[a].at] = NoClient]
          /\ UNCHANGED list
  /\ adder' = [adder EXCEPT ![a] = Over(a)]
  /\ UNCHANGED <<cfg, del, harm>>

\* c2_network_create, and the assignment of its result.
AddInit(a) ==
  /\ adder[a].pc = "init"
  /\ ConnectSend(adder[a].new) \/ SetUserCbk(adder[a].new)
  /\ UNCHANGED listVars

\* Mutant: psNext of the new connection is not cleared once it is linked.
AddLinkUncleared(a) ==
  /\ adder[a].pc = "init"
  /\ SetRoot(adder[a].new)
  /\ IF adder[a].at = NoClient
     THEN list' = adder[a].new /\ UNCHANGED next
     ELSE /\ ~Freed(adder[a].at)
          /\ next' = [next EXCEPT ![adder[a].at] = adder[a].new]
          /\ UNCHANGED list
  /\ adder' = [adder EXCEPT ![a] = Over(a)]
  /\ UNCHANGED <<cfg, del, harm>>

\* The result of eth_link_create_tcp_client_list is assigned, then psNext and psRoot of the
\* new connection.  In between nobody sees a difference: memset has cleared psNext, and
\* psRoot is read by the thread of the connection alone, whose early end (RootMissing) is
\* the same on both sides of the assignment.  So the three are one step.
AddLink(a) ==
  /\ adder[a].pc = "init"
  /\ SetRoot(adder[a].new)
  /\ IF adder[a].at = NoClient
     THEN list' = adder[a].new /\ UNCHANGED next
     ELSE /\ ~Freed(adder[a].at)
          /\ next' = [next EXCEPT ![adder[a].at] = adder[a].new, ![adder[a].new] = NoClient]
          /\ UNCHANGED list
  /\ adder' = [adder EXCEPT ![a] = Over(a)]
  /\ UNCHANGED <<cfg, del, harm>>

AddUsesFreed(a) ==
  /\ \/ adder[a].pc = "walk"
     \/ adder[a].pc = "create" /\ adder[a].at # NoClient
     \/ adder[a].pc = "init" /\ made[adder[a].new] = UserSet /\ adder[a].at # NoClient
  /\ Freed(adder[a].at)
  /\ UseAfterFree

-----------------------------------------------------------------------------
(***************************************************************************)
(* eth_link_del_tcp_client_list, called by the thread of the connection.   *)
(* psLast stays where it starts, at the first element.                     *)
(***************************************************************************)
Unlinking(c) == thread[c] = "unlinking" /\ made[c] = RootSet

DelStart(c) ==
  /\ Unlinking(c) /\ del[c].pc = "start"
  /\ IF list = c
     THEN /\ list' = next[c]
          /\ del' = [del EXCEPT ![c] = Unlinked]
     ELSE /\ del' = [del EXCEPT ![c] = [pc |-> "walk", last |-> list, at |-> list]]
          /\ UNCHANGED list
  /\ UNCHANGED <<uploadVars, next, cfg, adder, harm>>

DelWalk(c) ==
  /\ Unlinking(c) /\ del[c].pc = "walk"
  /\ del[c].at \notin {c, NoClient} /\ ~Freed(del[c].at)
  /\ del' = [del EXCEPT ![c].at = next[@]]
  /\ UNCHANGED <<uploadVars, list, next, cfg, adder, harm>>

\* Mutant: the element before it is not rewritten.
DelUnlinkForgets(c) ==
  /\ Unlinking(c) /\ del[c].pc = "walk"
  /\ del[c].at = c /\ ~Freed(del[c].last)
  /\ del' = [del EXCEPT ![c] = Unlinked]
  /\ UNCHANGED <<uploadVars, list, next, cfg, adder, harm>>

DelUnlink(c) ==
  /\ Unlinking(c) /\ del[c].pc = "walk"
  /\ del[c].at = c /\ ~Freed(del[c].last)
  /\ next' = [next EXCEPT ![del[c].last] = next[c]]
  /\ del' = [del EXCEPT ![c] = Unlinked]
  /\ UNCHANGED <<uploadVars, list, cfg, adder, harm>>

DelNotFound(c) ==
  /\ Unlinking(c) /\ del[c].pc = "walk"
  /\ del[c].at = NoClient
  /\ del' = [del EXCEPT ![c] = Unlinked]
  /\ UNCHANGED <<uploadVars, list, next, cfg, adder, harm>>

DelUsesFreed(c) ==
  /\ Unlinking(c) /\ del[c].pc = "walk"
  /\ \/ del[c].at # NoClient /\ Freed(del[c].at)
     \/ del[c].at = c /\ Freed(del[c].last)
  /\ UseAfterFree

\* The memory of a freed connection is shown as the next memset will leave it.
DelFree(c) ==
  /\ del[c].pc = "free"
  /\ FreeClient(c)
  /\ next' = [next EXCEPT ![c] = NoClient]
  /\ cfg'  = [cfg EXCEPT ![c] = DefaultServer]
  /\ del'  = [del EXCEPT ![c] = NoDel]
  /\ UNCHANGED <<list, adder, harm>>

-----------------------------------------------------------------------------
eth_link_add_tcp_client_list(a) ==
  \/ \E v \in Servers : AddStart(a, v)
  \/ \E c \in Clients : AddCreate(a, c)
  \/ AddWalk(a) \/ AddDecide(a) \/ AddRefuse(a) \/ AddFails(a) \/ AddInit(a)
  \/ AddLink(a) \/ AddUsesFreed(a)

eth_link_del_tcp_client_list(c) ==
  \/ DelStart(c) \/ DelWalk(c) \/ DelUnlink(c) \/ DelNotFound(c)
  \/ DelUsesFreed(c) \/ DelFree(c)

\* psNext of the first element is rewritten, and c is not the second.
DropsOthers(c) ==
  Unlinking(c) /\ del[c].pc = "walk" /\ del[c].at = c /\ next[del[c].last] # c

\* The threads in the middle of one of the two functions.
Inside == {<<"add", a>> : a \in {b \in Adders  : adder[b].pc \in {"walk", "create", "init"}}}
     \cup {<<"del", c>> : c \in {d \in Clients : del[d].pc \in {"walk", "free"}}}

LinkNext ==
  /\ ~harm /\ ~dead
  /\ \/ \E a \in Adders  : eth_link_add_tcp_client_list(a)
     \/ \E c \in Clients : \/ eth_link_del_tcp_client_list(c)
                           \/ tcp_client_task(c) /\ UNCHANGED listVars
     \/ \E s \in Senders : alink_upload_send_package(s) /\ UNCHANGED listVars
  /\ overlap' = (overlap \/ Cardinality(Inside') > 1)
  /\ dropped' = (dropped \/ \E c \in Clients : DropsOthers(c) /\ del'[c] = Unlinked)

LinkSpec == LinkInit /\ [][LinkNext]_linkVars

-----------------------------------------------------------------------------
(***************************************************************************)
(* Properties.                                                             *)
(***************************************************************************)
\* Types of the connection list and of those who walk it.
LinkTypeOK ==
  /\ list \in Clients \cup {NoClient}
  /\ next \in [Clients -> Clients \cup {NoClient}]
  /\ cfg  \in [Clients -> Servers]
  /\ adder \in [Adders -> [pc     : {"ready", "walk", "create", "init", "over"},
                           at     : Clients \cup {NoClient},
                           count  : Nat \ {0},
                           server : Servers,
                           new    : Clients \cup {NoClient}]]
  /\ del  \in [Clients -> [pc   : {"start", "walk", "free"},
                           last : Clients \cup {NoClient},
                           at   : Clients \cup {NoClient}]]
  /\ harm \in BOOLEAN
  /\ overlap \in BOOLEAN
  /\ dropped \in BOOLEAN

\* The connections a walk from p on meets along the pointers n: those in every set
\* that they lead to from p on and never out of.
Closed(n, S) == \A c \in S : n[c] \in S \cup {NoClient}
From(n, p) ==
  {c \in Clients : \A S \in SUBSET Clients : Closed(n, S) /\ p \in S \cup {NoClient} => c \in S}
Listed == From(next, list)

\* Every walk ends, wherever it stands, also one that is left behind on an element
\* the list has lost: no removal, addition or reuse of an address, in whatever order
\* their steps come, ever closes a cycle, in which the UDP thread or the thread of a
\* connection would spin.
WalksEnd == \A S \in SUBSET Clients : S # {} => \E c \in S : next[c] \notin S

\* As long as no two threads were inside the list at the same time, no freed
\* connection is reached through it, it holds one connection per server, and
\* never more than MaxClients.
SoundWhenExclusive ==
  ~overlap => /\ ~harm
              /\ \A c \in Listed : ~Freed(c)
              /\ \A c, d \in Listed : c # d => cfg[c] # cfg[d]
              /\ Cardinality(Listed) <= MaxClients

\* A connection that is in use: finished, and not yet taken out of the list.
Live(c) == thread[c] # "none" /\ made[c] = RootSet /\ del[c].pc # "free"

\* The list is what keeps a server from being connected to twice, and so from getting
\* every message twice: alone, additions and removals lose no connection from it and let
\* no server have two.  A removal at the third place or later takes those before it out
\* of the list as well; after it, and where two threads were in the list, this is lost.
LiveAreListed ==
  ~overlap /\ ~dropped =>
    /\ \A c \in Clients : Live(c) => c \in Listed
    /\ \A c, d \in Clients : Live(c) /\ Live(d) /\ c # d => cfg[c] # cfg[d]
=============================================================================
