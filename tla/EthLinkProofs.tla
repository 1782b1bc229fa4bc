--------------------------- MODULE EthLinkProofs ---------------------------
(***************************************************************************)
(* The list of connections does not disturb the uploads: what              *)
(* AlinkUploadProofs shows of them holds with eth_link.c around them, for  *)
(* any number of connections, servers and uploading threads.               *)
(***************************************************************************)
EXTENDS EthLink, AlinkUploadProofs, FiniteSetTheorems

\* A walk stands at a connection, and a creator has one in its hands.
AdderInv ==
  \A a \in Adders : /\ adder[a].pc = "walk" => adder[a].at # NoClient
                    /\ adder[a].pc = "init" => adder[a].new \in Clients

LinkInv == LinkTypeOK /\ AdderInv

AdderState == [pc     : {"ready", "walk", "create", "init", "over"},
               at     : Clients \cup {NoClient},
               count  : Nat \ {0},
               server : Servers,
               new    : Clients \cup {NoClient}]

\* The list starts out empty and nobody is inside it.
LEMMA LinkInitInv == LinkInit => LinkInv
<1> SUFFICES ASSUME LinkInit PROVE LinkInv
  OBVIOUS
<1> USE UploadAssumption, LinkAssumption DEF LinkInit
<1>1. adder \in [Adders -> AdderState]
  BY DEF Ready, Adding, AdderState
<1>2. del  \in [Clients -> [pc   : {"start", "walk", "free"},
                            last : Clients \cup {NoClient},
                            at   : Clients \cup {NoClient}]]
  BY DEF NoDel
<1>3. LinkTypeOK
  BY <1>1, <1>2 DEF LinkTypeOK, AdderState
<1>4. AdderInv
  BY DEF AdderInv, Ready, Adding
<1> QED BY <1>3, <1>4 DEF LinkInv

\* A caller gets on to e.
LEMMA AdderMoves ==
  ASSUME LinkInv, NEW a \in Adders, NEW e \in AdderState, overlap' \in BOOLEAN, dropped' \in BOOLEAN,
         adder' = [adder EXCEPT ![a] = e],
         e.pc = "walk" => e.at # NoClient,
         e.pc = "init" => e.new \in Clients,
         cfg' = cfg \/ cfg' \in [Clients -> Servers], UNCHANGED <<list, next, del, harm>>
  PROVE  LinkInv'
<1>1. adder \in [Adders -> AdderState]
  BY DEF LinkInv, LinkTypeOK, AdderState
<1>2. adder' \in [Adders -> AdderState]
  BY <1>1
<1>3. LinkTypeOK'
  BY <1>2 DEF LinkInv, LinkTypeOK, AdderState
<1>4. AdderInv'
  BY <1>1 DEF LinkInv, AdderInv
<1> QED BY <1>3, <1>4 DEF LinkInv

\* eth_link_add_tcp_client_list keeps the types of the list.
LEMMA AddInv ==
  ASSUME LinkInv, NEW a \in Adders, eth_link_add_tcp_client_list(a), overlap' \in BOOLEAN, dropped' \in BOOLEAN
  PROVE  LinkInv'
<1>0. DefaultServer \in Servers
  BY LinkAssumption
<1> USE UploadAssumption, <1>0 DEF LinkInv
<1>1. ASSUME NEW v \in Servers, AddStart(a, v) PROVE LinkInv'
  <2> DEFINE k == IF list = NoClient THEN "create" ELSE "walk"
             e == Adding(k, list, 1, v, NoClient)
  <2>1. adder' = [adder EXCEPT ![a] = e] /\ UNCHANGED <<list, next, cfg, del, harm>>
    BY <1>1 DEF AddStart
  <2>2. k \in {"create", "walk"} /\ (k = "walk" => list # NoClient)
    OBVIOUS
  <2> HIDE DEF k
  <2>3. e \in AdderState /\ (e.pc = "walk" => e.at # NoClient) /\ e.pc # "init"
    BY <2>2 DEF Adding, AdderState, LinkTypeOK
  <2> HIDE DEF e
  <2> QED BY <2>1, <2>3, AdderMoves
<1>2. CASE AddWalk(a)
  <2> DEFINE e == Adding("walk", next[adder[a].at], adder[a].count + 1, adder[a].server, NoClient)
  <2>1. adder' = [adder EXCEPT ![a] = e] /\ UNCHANGED <<list, next, cfg, del, harm>>
    BY <1>2 DEF AddWalk
  <2>2. adder[a].at \in Clients /\ next[adder[a].at] \in Clients
    BY <1>2 DEF AddWalk, AtEnd, LinkTypeOK, AdderInv
  <2>3. adder[a].count + 1 \in Nat \ {0} /\ adder[a].server \in Servers
    BY DEF LinkTypeOK
  <2>4. e \in AdderState /\ (e.pc = "walk" => e.at # NoClient) /\ e.pc # "init"
    BY <2>2, <2>3 DEF Adding, AdderState
  <2> HIDE DEF e
  <2> QED BY <2>1, <2>4, AdderMoves
<1>3. CASE AddDecide(a)
  <2> DEFINE e == Adding("create", adder[a].at, adder[a].count, adder[a].server, NoClient)
  <2>1. adder' = [adder EXCEPT ![a] = e] /\ UNCHANGED <<list, next, cfg, del, harm>>
    BY <1>3 DEF AddDecide
  <2>2. e \in AdderState /\ e.pc # "walk" /\ e.pc # "init"
    BY DEF Adding, AdderState, LinkTypeOK
  <2> HIDE DEF e
  <2> QED BY <2>1, <2>2, AdderMoves
<1>4. CASE AddRefuse(a)
  BY <1>4 DEF AddRefuse, Over, Adding, LinkTypeOK, AdderInv
<1>5. CASE AddFails(a)
  BY <1>5 DEF AddFails, Over, Adding, LinkTypeOK, AdderInv
<1>6. ASSUME NEW c \in Clients, AddCreate(a, c) PROVE LinkInv'
  <2> DEFINE e == Adding("init", adder[a].at, adder[a].count, adder[a].server, c)
  <2>1. /\ cfg' = [cfg EXCEPT ![c] = adder[a].server]
        /\ adder' = [adder EXCEPT ![a] = e] /\ UNCHANGED <<list, next, del, harm>>
    BY <1>6 DEF AddCreate
  <2>2. e \in AdderState /\ e.pc # "walk" /\ e.new \in Clients /\ adder[a].server \in Servers
    BY DEF Adding, AdderState, LinkTypeOK
  <2> HIDE DEF e
  <2>3. cfg' \in [Clients -> Servers] /\ UNCHANGED <<list, next, del, harm>>
    BY <2>1, <2>2 DEF LinkTypeOK
  <2> QED BY <2>1, <2>2, <2>3, AdderMoves
<1>7. CASE AddInit(a)
  BY <1>7 DEF AddInit, listVars, LinkTypeOK, AdderInv
<1>8. CASE AddLink(a)
  BY <1>8 DEF AddLink, Over, Adding, LinkTypeOK, AdderInv
<1>9. CASE AddUsesFreed(a)
  BY <1>9 DEF AddUsesFreed, UseAfterFree, LinkTypeOK, AdderInv
<1> QED BY <1>1, <1>2, <1>3, <1>4, <1>5, <1>6, <1>7, <1>8, <1>9 DEF eth_link_add_tcp_client_list

\* So does eth_link_del_tcp_client_list.
LEMMA DelInv ==
  ASSUME LinkInv, NEW c \in Clients, eth_link_del_tcp_client_list(c), overlap' \in BOOLEAN, dropped' \in BOOLEAN
  PROVE  LinkInv'
<1>0. DefaultServer \in Servers
  BY LinkAssumption
<1> USE UploadAssumption, <1>0 DEF LinkInv
<1>1. CASE DelStart(c)
  BY <1>1 DEF DelStart, Unlinked, LinkTypeOK, AdderInv
<1>2. CASE DelWalk(c)
  <2>1. del' = [del EXCEPT ![c].at = next[@]] /\ del[c].at \in Clients
    BY <1>2 DEF DelWalk, LinkTypeOK
  <2>2. del' \in [Clients -> [pc   : {"start", "walk", "free"},
                             last : Clients \cup {NoClient},
                             at   : Clients \cup {NoClient}]]
    BY <2>1 DEF LinkTypeOK
  <2> QED BY <1>2, <2>2 DEF DelWalk, LinkTypeOK, AdderInv
<1>3. CASE DelUnlink(c)
  BY <1>3 DEF DelUnlink, Unlinked, LinkTypeOK, AdderInv
<1>4. CASE DelNotFound(c)
  BY <1>4 DEF DelNotFound, Unlinked, LinkTypeOK, AdderInv
<1>5. CASE DelUsesFreed(c)
  BY <1>5 DEF DelUsesFreed, UseAfterFree, LinkTypeOK, AdderInv
<1>6. CASE DelFree(c)
  BY <1>6 DEF DelFree, NoDel, LinkTypeOK, AdderInv
<1> QED BY <1>1, <1>2, <1>3, <1>4, <1>5, <1>6 DEF eth_link_del_tcp_client_list

\* Every step keeps the types of the list.
LEMMA LinkStepInv == LinkInv /\ [LinkNext]_linkVars => LinkInv'
<1> SUFFICES ASSUME LinkInv, [LinkNext]_linkVars PROVE LinkInv'
  OBVIOUS
<1>1. CASE UNCHANGED linkVars
  BY <1>1 DEF linkVars, listVars, LinkInv, LinkTypeOK, AdderInv
<1>2. CASE LinkNext
  <2>1. overlap' \in BOOLEAN /\ dropped' \in BOOLEAN
    BY <1>2, Zenon DEF LinkNext
  <2>2. ASSUME UNCHANGED listVars PROVE LinkInv'
    BY <2>1, <2>2 DEF listVars, LinkInv, LinkTypeOK, AdderInv
  <2> QED BY <1>2, <2>1, <2>2, AddInv, DelInv DEF LinkNext
<1> QED BY <1>1, <1>2

\* psEthList and its pointers stay within their types, and a walk stands at a
\* connection, whatever the threads do to the list.
THEOREM LinkTypeCorrect == LinkSpec => []LinkTypeOK
<1>1. LinkInv => LinkTypeOK
  BY DEF LinkInv
<1> QED BY <1>1, LinkInitInv, LinkStepInv, PTL DEF LinkSpec

\* A step on the list is a step of AlinkUpload or one the uploads do not see.
LEMMA LinkStepIsUpload == LinkInv /\ [LinkNext]_linkVars => [UploadNext]_uploadVars
<1> SUFFICES ASSUME LinkInv, [LinkNext]_linkVars PROVE [UploadNext]_uploadVars
  OBVIOUS
<1>1. CASE UNCHANGED linkVars
  BY <1>1 DEF linkVars
<1>2. ASSUME NEW a \in Adders, eth_link_add_tcp_client_list(a) PROVE [UploadNext]_uploadVars
  <2>1. CASE \E v \in Servers : AddStart(a, v)
    BY <2>1 DEF AddStart
  <2>2. CASE AddWalk(a) \/ AddDecide(a) \/ AddRefuse(a) \/ AddFails(a) \/ AddUsesFreed(a)
    BY <2>2 DEF AddWalk, AddDecide, AddRefuse, AddFails, AddUsesFreed, UseAfterFree
  <2>3. CASE \E c \in Clients : AddCreate(a, c)
    BY <2>3 DEF AddCreate, UploadNext
  <2>4. CASE AddInit(a) \/ AddLink(a)
    <3>1. adder[a].new \in Clients
      BY <2>4 DEF AddInit, AddLink, LinkInv, AdderInv
    <3>2. Creator(adder[a].new)
      BY <2>4 DEF AddInit, AddLink, Creator
    <3> QED BY <3>1, <3>2 DEF UploadNext
  <2> QED BY <1>2, <2>1, <2>2, <2>3, <2>4 DEF eth_link_add_tcp_client_list
<1>3. ASSUME NEW c \in Clients, eth_link_del_tcp_client_list(c) PROVE [UploadNext]_uploadVars
  <2>1. CASE DelFree(c)
    BY <2>1 DEF DelFree, UploadNext
  <2>2. CASE ~DelFree(c)
    BY <1>3, <2>2 DEF eth_link_del_tcp_client_list, DelStart, DelWalk, DelUnlink, DelNotFound,
                      DelUsesFreed, UseAfterFree
  <2> QED BY <2>1, <2>2
<1> QED BY <1>1, <1>2, <1>3 DEF LinkNext, UploadNext

\* The uploads with the list of connections around them are those of AlinkUpload.
LEMMA LinkIsUpload == LinkSpec => UploadSpec
<1>1. LinkInit => UploadInit
  BY DEF LinkInit
<1> QED BY <1>1, LinkInitInv, LinkStepInv, LinkStepIsUpload, PTL
        DEF LinkSpec, UploadSpec

\* So no upload meets a freed connection, although the list of connections itself
\* is changed by several threads at once.
THEOREM LinkedSendsLive == LinkSpec => []SendsToLive
BY LinkIsUpload, SendsStayLive, PTL

\* eth_link_del_tcp_client frees the memory of a connection while other threads walk,
\* extend and shorten the list of connections; the send lists still hold none that
\* has been freed or withdrawn.
THEOREM LinkedSubscribersLive == LinkSpec => []SubscribersLive
BY LinkIsUpload, SubscribersStayLive, PTL

\* Nor does the unprotected list cost anyone his uploads: every connection entitled
\* to a message type stays on the list of the type, behind its permanent head.
THEOREM LinkedNobodyDropped == LinkSpec => NobodyDropped
BY LinkIsUpload, NobodyIsDropped, PTL

\* And a thread that uploads under the mutex still gets on with every step it takes,
\* whatever becomes of the list of connections in the meantime.
THEOREM LinkedUploadsAdvance == LinkSpec => UploadAdvances
BY LinkIsUpload, UploadsAdvance, PTL
-----------------------------------------------------------------------------
(***************************************************************************)
(* No walk goes round in circles                                           *)
(***************************************************************************)
\* Start-up is over when main has linked the permanent connection.  From then on it
\* is the first of the list, nothing ever points to it, and it is what removals
\* take for the element before the one they take out.
HeadInv ==
  /\ started => list = permanent /\ permanent # NoClient /\ adder["main"].pc = "over"
  /\ ~started => /\ list = NoClient
                 /\ next = [c \in Clients |-> NoClient]
                 /\ adder["main"].at = NoClient
                 /\ adder["main"].pc \in {"ready", "create", "init"}
                 /\ adder["udp"].pc = "ready"
                 /\ IF adder["main"].pc = "init" THEN permanent = adder["main"].new
                                                 ELSE permanent = NoClient
                 /\ \A c \in Clients : made[c] # RootSet
  /\ adder["udp"].pc # "over"
  /\ adder["udp"].pc # "ready" => adder["udp"].at # NoClient
  /\ \A c \in Clients : /\ permanent # NoClient => next[c] # permanent
                        /\ del[c].pc = "walk" => started /\ del[c].last = permanent

\* What is known of the threads while the list is changed.
Known == LinkInv /\ UploadTypeOK /\ LifeInv /\ HeadInv

\* Linking a connection that leads nowhere closes no cycle.
LEMMA LinkEnds ==
  ASSUME WalksEnd, NEW p \in Clients, NEW c \in Clients, next \in [Clients -> Clients \cup {NoClient}],
         next' = [next EXCEPT ![p] = c, ![c] = NoClient]
  PROVE  WalksEnd'
<1> SUFFICES ASSUME NEW S \in SUBSET Clients, S # {}, \A d \in S : next'[d] \in S PROVE FALSE
  BY DEF WalksEnd
<1>1. next'[c] = NoClient /\ NoClient \notin Clients
  BY UploadAssumption
<1>2. c \notin S
  BY <1>1
<1>3. p \notin S
  BY <1>2
<1>4. \A d \in S : next[d] \in S
  BY <1>2, <1>3
<1> QED BY <1>4 DEF WalksEnd

\* Nor does passing over an element, as long as nothing points to the one before it.
LEMMA UnlinkEnds ==
  ASSUME WalksEnd, NEW p \in Clients, NEW c \in Clients, next \in [Clients -> Clients \cup {NoClient}],
         \A d \in Clients : next[d] # p, next' = [next EXCEPT ![p] = next[c]]
  PROVE  WalksEnd'
<1> SUFFICES ASSUME NEW S \in SUBSET Clients, S # {}, \A d \in S : next'[d] \in S PROVE FALSE
  BY DEF WalksEnd
<1> DEFINE T == S \ {p}
<1>1. T \in SUBSET Clients
  OBVIOUS
<1>2. T # {}
  <2>1. CASE p \in S
    <3>1. next[c] \in S /\ next[c] # p
      BY <2>1
    <3> QED BY <3>1
  <2> QED BY <2>1
<1>3. \A d \in T : next[d] \in T
  OBVIOUS
<1> QED BY <1>1, <1>2, <1>3 DEF WalksEnd

\* Nor does clearing a pointer.
LEMMA ClearEnds ==
  ASSUME WalksEnd, NEW p \in Clients, next \in [Clients -> Clients \cup {NoClient}],
         next' = [next EXCEPT ![p] = NoClient]
  PROVE  WalksEnd'
<1> SUFFICES ASSUME NEW S \in SUBSET Clients, S # {}, \A d \in S : next'[d] \in S PROVE FALSE
  BY DEF WalksEnd
<1>1. p \notin S
  BY UploadAssumption
<1>2. \A d \in S : next[d] \in S
  BY <1>1
<1> QED BY <1>2 DEF WalksEnd

LEMMA SameEnds == ASSUME WalksEnd, next' = next PROVE WalksEnd'
BY DEF WalksEnd

\* An addition keeps the permanent connection at the head.
LEMMA AddHead ==
  ASSUME Known, NEW a \in Adders, eth_link_add_tcp_client_list(a)
  PROVE  HeadInv' /\ (WalksEnd => WalksEnd')
<1> USE UploadAssumption
<1>0. /\ a \in {"main", "udp"} /\ "main" # "udp"
      /\ adder \in [Adders -> AdderState] /\ next \in [Clients -> Clients \cup {NoClient}]
      /\ made \in [Clients -> 0..RootSet] /\ permanent \in Clients \cup {NoClient}
      /\ list \in Clients \cup {NoClient}
  BY DEF Known, LinkInv, LinkTypeOK, AdderState, UploadTypeOK, Adders
<1>1. ASSUME NEW v \in Servers, AddStart(a, v) PROVE HeadInv' /\ (WalksEnd => WalksEnd')
  <2>1. UNCHANGED <<list, next, del, started, permanent, made>>
    BY <1>1 DEF AddStart, uploadVars
  <2>2. CASE a = "main"
    <3>1. ~started /\ adder' = [adder EXCEPT !["main"] = Adding("create", NoClient, 1, v, NoClient)]
      BY <1>1, <2>2 DEF AddStart, Known, HeadInv
    <3>2. /\ adder'["main"].pc = "create" /\ adder'["main"].at = NoClient
          /\ adder'["udp"] = adder["udp"]
      BY <1>0, <3>1 DEF Adding, Adders
    <3>3. HeadInv'
      BY <2>1, <3>1, <3>2, <1>1, <2>2 DEF Known, HeadInv, AddStart
    <3> QED BY <2>1, <3>3, SameEnds
  <2>3. CASE a = "udp"
    <3>1. started /\ list # NoClient /\ adder' = [adder EXCEPT !["udp"] = Adding("walk", list, 1, v, NoClient)]
      BY <1>0, <1>1, <2>3 DEF AddStart, Known, HeadInv
    <3> QED BY <1>0, <2>1, <2>3, <3>1, SameEnds DEF Known, HeadInv, Adding, Adders
  <2> QED BY <1>0, <2>2, <2>3
<1>2. CASE AddWalk(a) \/ AddDecide(a) \/ AddRefuse(a)
  <2>1. UNCHANGED <<list, next, del, started, permanent, made>> /\ adder[a].pc = "walk"
    BY <1>2 DEF AddWalk, AddDecide, AddRefuse, uploadVars
  <2>2. a = "udp" /\ started
    BY <1>0, <2>1 DEF Known, HeadInv
  <2>3. \E e \in AdderState : /\ adder' = [adder EXCEPT !["udp"] = e]
                              /\ e.pc # "over" /\ (e.pc # "ready" => e.at # NoClient)
    <3>1. CASE AddWalk(a)
      <4> DEFINE e == Adding("walk", next[adder[a].at], adder[a].count + 1, adder[a].server, NoClient)
      <4>1. adder' = [adder EXCEPT !["udp"] = e] /\ next[adder[a].at] # NoClient
        BY <2>2, <3>1 DEF AddWalk, AtEnd
      <4>2. adder[a].at \in Clients
        BY <1>0, <2>1 DEF Known, LinkInv, AdderInv, AdderState
      <4>3. e \in AdderState
        BY <1>0, <4>2 DEF AdderState, Adding
      <4> QED BY <4>1, <4>3 DEF Adding
    <3>2. CASE AddDecide(a)
      <4> DEFINE e == Adding("create", adder[a].at, adder[a].count, adder[a].server, NoClient)
      <4>1. adder' = [adder EXCEPT !["udp"] = e] /\ adder[a].at # NoClient
        BY <2>1, <2>2, <3>2 DEF AddDecide, Known, HeadInv
      <4>2. e \in AdderState
        BY <1>0 DEF AdderState, Adding
      <4> QED BY <4>1, <4>2 DEF Adding
    <3>3. CASE AddRefuse(a)
      <4>1. adder' = [adder EXCEPT !["udp"] = Ready]
        BY <2>2, <3>3 DEF AddRefuse, Over, Ready
      <4>2. Ready \in AdderState
        BY LinkAssumption DEF Ready, Adding, AdderState
      <4> QED BY <4>1, <4>2 DEF Ready, Adding
    <3> QED BY <1>2, <3>1, <3>2, <3>3
  <2> QED BY <1>0, <2>1, <2>2, <2>3, SameEnds DEF Known, HeadInv, Adders
<1>3. CASE AddFails(a)
  <2>1. /\ a = "udp" /\ adder[a].pc = "create" /\ adder' = [adder EXCEPT !["udp"] = Ready]
        /\ UNCHANGED <<del, started, permanent, made>>
    BY <1>0, <1>3 DEF AddFails, Over, Ready, uploadVars
  <2>2. started /\ adder[a].at \in Clients
    BY <1>0, <2>1 DEF Known, HeadInv, AdderState
  <2>3. next' = [next EXCEPT ![adder[a].at] = NoClient] /\ list' = list
    BY <1>3, <2>2 DEF AddFails
  <2>4. WalksEnd => WalksEnd'
    BY <1>0, <2>2, <2>3, ClearEnds
  <2>5. \A c \in Clients : next'[c] # permanent
    BY <1>0, <2>2, <2>3 DEF Known, HeadInv
  <2> QED BY <1>0, <2>1, <2>2, <2>3, <2>4, <2>5 DEF Known, HeadInv, Adders, Ready, Adding
<1>4. ASSUME NEW c \in Clients, AddCreate(a, c) PROVE HeadInv' /\ (WalksEnd => WalksEnd')
  <2>1. /\ adder[a].pc = "create" /\ UNCHANGED <<list, next, del, started, made>>
        /\ adder' = [adder EXCEPT ![a] = Adding("init", @.at, @.count, @.server, c)]
    BY <1>4 DEF AddCreate, CreatePermanent, CreateRequested, tcp_client_create
  <2>2. CASE a = "main"
    <3>1. permanent' = c /\ ~started
      BY <1>4, <2>2 DEF AddCreate, CreatePermanent
    <3>2. /\ adder'["main"].pc = "init" /\ adder'["main"].at = NoClient
          /\ adder'["main"].new = c /\ adder'["udp"] = adder["udp"]
      BY <1>0, <2>1, <2>2, <3>1 DEF Adding, Adders, Known, HeadInv
    <3>3. \A d \in Clients : next[d] = NoClient
      BY <3>1 DEF Known, HeadInv
    <3>4. /\ ~started' /\ list' = NoClient /\ next' = [d \in Clients |-> NoClient]
          /\ adder["udp"].pc = "ready" /\ c # NoClient
          /\ \A d \in Clients : made'[d] # RootSet /\ del'[d].pc # "walk"
      <4>1. \A d \in Clients : del[d].pc = "walk" => started
        BY DEF Known, HeadInv
      <4> QED BY <2>1, <3>1, <4>1 DEF Known, HeadInv
    <3>5. HeadInv'
      BY <2>1, <3>1, <3>2, <3>3, <3>4 DEF HeadInv
    <3> QED BY <2>1, <3>5, SameEnds
  <2>3. CASE a = "udp"
    <3>1. permanent' = permanent /\ started
      BY <1>4, <2>1, <2>3 DEF AddCreate, CreateRequested, Known, HeadInv
    <3> QED BY <1>0, <2>1, <2>3, <3>1, SameEnds DEF Known, HeadInv, Adding, Adders
  <2> QED BY <1>0, <2>2, <2>3
<1>5. CASE AddInit(a)
  <2>1. /\ UNCHANGED <<list, next, del, adder, started, permanent>>
        /\ \E k \in 1..UserSet : made' = [made EXCEPT ![adder[a].new] = k]
    <3>1. adder[a].new \in Clients
      BY <1>5 DEF AddInit, Known, LinkInv, AdderInv
    <3>2. made[adder[a].new] \in 0..RootSet
      BY <1>0, <3>1
    <3>3. CASE ConnectSend(adder[a].new)
      <4>1. made[adder[a].new] + 1 \in 1..UserSet
        BY <1>0, <3>2, <3>3, UploadAssumption DEF ConnectSend, UserSet
      <4> QED BY <1>5, <3>3, <4>1 DEF AddInit, listVars, ConnectSend
    <3>4. CASE SetUserCbk(adder[a].new)
      <4>1. UserSet \in 1..UserSet
        BY UploadAssumption DEF UserSet
      <4> QED BY <1>5, <3>4, <4>1 DEF AddInit, listVars, SetUserCbk
    <3> QED BY <1>5, <3>3, <3>4 DEF AddInit
  <2>2. ~started => \A c \in Clients : made'[c] # RootSet
    BY <1>0, <2>1 DEF Known, HeadInv, UserSet, RootSet
  <2> QED BY <2>1, <2>2, SameEnds DEF Known, HeadInv
<1>6. CASE AddLink(a)
  <2> DEFINE c == adder[a].new
             p == adder[a].at
  <2>1. /\ adder[a].pc = "init" /\ c \in Clients /\ made[c] = UserSet
        /\ adder' = [adder EXCEPT ![a] = Over(a)]
        /\ made' = [made EXCEPT ![c] = RootSet] /\ started' = (started \/ c = permanent)
        /\ UNCHANGED <<del, permanent>>
    BY <1>6 DEF AddLink, SetRoot, Known, LinkInv, AdderInv
  <2>2. CASE a = "main"
    <3>1. ~started /\ permanent = c /\ p = NoClient
      BY <2>1, <2>2 DEF Known, HeadInv
    <3>2. list' = c /\ next' = next
      BY <1>6, <3>1 DEF AddLink
    <3>3. started' /\ adder'["main"].pc = "over" /\ adder'["udp"] = adder["udp"]
      BY <1>0, <2>1, <2>2, <3>1 DEF Over, Adding, Adders
    <3> HIDE DEF c, p
    <3>4. \A d \in Clients : next[d] = NoClient
      BY <3>1 DEF Known, HeadInv
    <3>5. HeadInv'
      BY <2>1, <3>1, <3>2, <3>3, <3>4 DEF Known, HeadInv
    <3> QED BY <3>2, <3>5, SameEnds
  <2>3. CASE a = "udp"
    <3>1. started /\ p \in Clients /\ c # permanent
      BY <1>0, <2>1, <2>3 DEF Known, HeadInv, LifeInv, AdderState, UserSet, RootSet
    <3>2. list' = list /\ next' = [next EXCEPT ![p] = c, ![c] = NoClient] /\ started'
          /\ adder' = [adder EXCEPT !["udp"] = Ready]
      BY <1>6, <2>1, <2>3, <3>1 DEF AddLink, Over, Ready
    <3> HIDE DEF c, p
    <3>3. WalksEnd => WalksEnd'
      BY <1>0, <2>1, <3>1, <3>2, LinkEnds
    <3>4. \A d \in Clients : next'[d] # permanent
      BY <1>0, <2>1, <3>1, <3>2 DEF Known, HeadInv
    <3> QED BY <1>0, <2>1, <3>1, <3>2, <3>3, <3>4 DEF Known, HeadInv, Adders, Ready, Adding
  <2> QED BY <1>0, <2>2, <2>3
<1>7. CASE AddUsesFreed(a)
  BY <1>7, SameEnds DEF AddUsesFreed, UseAfterFree, uploadVars, Known, HeadInv
<1> QED BY <1>1, <1>2, <1>3, <1>4, <1>5, <1>6, <1>7 DEF eth_link_add_tcp_client_list

\* So does a removal: the permanent connection is never the one taken out.
LEMMA DelHead ==
  ASSUME Known, NEW c \in Clients, eth_link_del_tcp_client_list(c)
  PROVE  HeadInv' /\ (WalksEnd => WalksEnd')
<1> USE UploadAssumption
<1>0. /\ next \in [Clients -> Clients \cup {NoClient}] /\ made \in [Clients -> 0..RootSet]
      /\ del \in [Clients -> [pc : {"start", "walk", "free"}, last : Clients \cup {NoClient},
                              at : Clients \cup {NoClient}]]
      /\ permanent \in Clients \cup {NoClient}
  BY DEF Known, LinkInv, LinkTypeOK, UploadTypeOK
<1>1. Unlinking(c) => started /\ list = permanent /\ permanent \in Clients /\ c # permanent
  BY <1>0 DEF Unlinking, Known, HeadInv, LifeInv
<1>2. CASE DelStart(c)
  <2>1. /\ Unlinking(c) /\ UNCHANGED <<list, next, adder, started, permanent, made>>
        /\ del' = [del EXCEPT ![c] = [pc |-> "walk", last |-> list, at |-> list]]
    BY <1>1, <1>2 DEF DelStart, uploadVars
  <2> QED BY <1>0, <1>1, <2>1, SameEnds DEF Known, HeadInv
<1>3. CASE DelWalk(c)
  <2>1. UNCHANGED <<list, next, adder, started, permanent, made>>
        /\ \A d \in Clients : del'[d].last = del[d].last /\ del'[d].pc = del[d].pc
    BY <1>0, <1>3 DEF DelWalk, uploadVars
  <2> QED BY <2>1, SameEnds DEF Known, HeadInv
<1>4. CASE DelUnlink(c)
  <2>1. /\ Unlinking(c) /\ del[c].last = permanent /\ UNCHANGED <<list, adder, started, permanent, made>>
        /\ next' = [next EXCEPT ![permanent] = next[c]] /\ del' = [del EXCEPT ![c] = Unlinked]
    BY <1>4 DEF DelUnlink, uploadVars, Known, HeadInv
  <2>2. \A d \in Clients : next[d] # permanent
    BY <1>1, <2>1, <1>0 DEF Known, HeadInv
  <2>3. WalksEnd => WalksEnd'
    BY <1>0, <1>1, <2>1, <2>2, UnlinkEnds
  <2>4. \A d \in Clients : next'[d] # permanent
    BY <1>0, <2>1, <2>2
  <2> QED BY <1>0, <1>1, <2>1, <2>3, <2>4 DEF Known, HeadInv, Unlinked
<1>5. CASE DelNotFound(c)
  <2>1. UNCHANGED <<list, next, adder, started, permanent, made>> /\ del' = [del EXCEPT ![c] = Unlinked]
    BY <1>5 DEF DelNotFound, uploadVars
  <2> QED BY <1>0, <2>1, SameEnds DEF Known, HeadInv, Unlinked
<1>6. CASE DelUsesFreed(c)
  BY <1>6, SameEnds DEF DelUsesFreed, UseAfterFree, uploadVars, Known, HeadInv
<1>7. CASE DelFree(c)
  <2>1. /\ Unlinking(c) /\ UNCHANGED <<list, adder, started, permanent>>
        /\ next' = [next EXCEPT ![c] = NoClient] /\ del' = [del EXCEPT ![c] = NoDel]
    BY <1>7 DEF DelFree, FreeClient, Unlinking
  <2>2. WalksEnd => WalksEnd'
    BY <1>0, <2>1, ClearEnds
  <2> QED BY <1>0, <1>1, <2>1, <2>2 DEF Known, HeadInv, NoDel
<1> QED BY <1>2, <1>3, <1>4, <1>5, <1>6, <1>7 DEF eth_link_del_tcp_client_list

\* The other steps of the threads leave the list alone.
LEMMA ElsewhereUnchanged ==
  ASSUME \/ \E c \in Clients : tcp_client_task(c)
         \/ \E s \in Senders : alink_upload_send_package(s)
  PROVE  UNCHANGED <<made, started, permanent>>
<1>1. ASSUME NEW c \in Clients, tcp_client_task(c) PROVE UNCHANGED <<made, started, permanent>>
  BY <1>1 DEF tcp_client_task, Connected, Disconnected, ConnectFails, GivesUp, DisconnectSend,
              FreeNetwork, RootMissing
<1>2. ASSUME NEW s \in Senders, alink_upload_send_package(s)
      PROVE  UNCHANGED <<made, started, permanent>>
  BY <1>2 DEF alink_upload_send_package, UploadPackage, UploadLock, SendTo, Sent, SendKilled,
              UploadUnlock
<1> QED BY <1>1, <1>2

LEMMA HeadStep ==
  ASSUME Known, [LinkNext]_linkVars
  PROVE  HeadInv' /\ (WalksEnd => WalksEnd')
<1>1. ASSUME UNCHANGED listVars, UNCHANGED <<made, started, permanent>>
      PROVE  HeadInv' /\ (WalksEnd => WalksEnd')
  BY <1>1, SameEnds DEF listVars, Known, HeadInv
<1>2. CASE UNCHANGED linkVars
  BY <1>1, <1>2 DEF linkVars, uploadVars
<1>3. CASE LinkNext
  <2>1. ASSUME NEW c \in Clients, tcp_client_task(c), UNCHANGED listVars
        PROVE  HeadInv' /\ (WalksEnd => WalksEnd')
    BY <1>1, <2>1, ElsewhereUnchanged
  <2>2. ASSUME NEW s \in Senders, alink_upload_send_package(s), UNCHANGED listVars
        PROVE  HeadInv' /\ (WalksEnd => WalksEnd')
    BY <1>1, <2>2, ElsewhereUnchanged
  <2> QED BY <1>3, <2>1, <2>2, AddHead, DelHead DEF LinkNext
<1> QED BY <1>2, <1>3

LEMMA LinkInitHead == LinkInit => HeadInv /\ WalksEnd
<1> SUFFICES ASSUME LinkInit PROVE HeadInv /\ WalksEnd
  OBVIOUS
<1>1. \A c \in Clients : next[c] = NoClient /\ made[c] # RootSet /\ del[c].pc # "walk"
  BY UploadAssumption DEF LinkInit, UploadInit, NoDel, RootSet
<1>2. \A a \in Adders : adder[a].pc = "ready" /\ adder[a].at = NoClient
  BY DEF LinkInit, Ready, Adding
<1>3. WalksEnd
  <2> SUFFICES ASSUME NEW S \in SUBSET Clients, S # {} PROVE \E c \in S : next[c] \notin S
    BY DEF WalksEnd
  <2>1. PICK c \in S : TRUE
    OBVIOUS
  <2> QED BY <1>1, <2>1, UploadAssumption
<1>4. HeadInv
  <2>1. ~started /\ list = NoClient /\ next = [c \in Clients |-> NoClient] /\ permanent = NoClient
    BY DEF LinkInit, UploadInit
  <2>2. /\ adder["main"].pc = "ready" /\ adder["main"].at = NoClient
        /\ adder["udp"].pc = "ready"
    BY <1>2 DEF Adders
  <2> QED BY <1>1, <2>1, <2>2 DEF HeadInv
<1> QED BY <1>3, <1>4

\* Whatever the threads do to the list in whatever order, no walk over it spins.
THEOREM WalksAlwaysEnd == LinkSpec => []WalksEnd
<1>1. UploadInv => UploadTypeOK /\ LifeInv
  BY DEF UploadInv
<1>2. LinkSpec => UploadSpec
  BY LinkIsUpload
<1>3. LinkInv /\ UploadInv /\ HeadInv /\ [LinkNext]_linkVars => HeadInv'
  BY <1>1, HeadStep DEF Known
<1>4. LinkInv /\ UploadInv /\ HeadInv /\ WalksEnd /\ [LinkNext]_linkVars => WalksEnd'
  BY <1>1, HeadStep DEF Known
<1> QED BY <1>2, <1>3, <1>4, LinkInitInv, LinkStepInv, LinkInitHead, UploadInvariant, PTL DEF LinkSpec
-----------------------------------------------------------------------------
(***************************************************************************)
(* Walks                                                                   *)
(***************************************************************************)
Pointers == [Clients -> Clients \cup {NoClient}]

\* A walk stays within every set that it starts in and that is closed.
LEMMA FromFacts ==
  ASSUME NEW n \in Pointers, NEW p \in Clients \cup {NoClient}
  PROVE  /\ From(n, p) \in SUBSET Clients
         /\ Closed(n, From(n, p))
         /\ p \in From(n, p) \cup {NoClient}
         /\ \A S \in SUBSET Clients : Closed(n, S) /\ p \in S \cup {NoClient} => From(n, p) \subseteq S
<1>1. From(n, p) \in SUBSET Clients
  BY DEF From
<1>2. \A S \in SUBSET Clients : Closed(n, S) /\ p \in S \cup {NoClient} => From(n, p) \subseteq S
  BY DEF From
<1>3. p \in From(n, p) \cup {NoClient}
  BY DEF From
<1>4. ASSUME NEW c \in From(n, p) PROVE n[c] \in From(n, p) \cup {NoClient}
  <2>1. CASE n[c] \in Clients
    <3>1. ASSUME NEW S \in SUBSET Clients, Closed(n, S), p \in S \cup {NoClient} PROVE n[c] \in S
      <4>1. c \in S
        BY <1>2, <3>1
      <4> QED BY <2>1, <3>1, <4>1, UploadAssumption DEF Closed
    <3> QED BY <2>1, <3>1 DEF From
  <2> QED BY <1>1, <2>1 DEF Pointers
<1> QED BY <1>1, <1>2, <1>3, <1>4 DEF Closed

\* Nothing is met from NULL on.
LEMMA FromNull == ASSUME NEW n \in Pointers PROVE From(n, NoClient) = {}
<1>1. Closed(n, {})
  BY DEF Closed
<1> QED BY <1>1, FromFacts

\* One step of a walk; where walks end it does not come back.
LEMMA FromStep ==
  ASSUME NEW n \in Pointers, NEW p \in Clients
  PROVE  From(n, p) = {p} \cup From(n, n[p])
<1> DEFINE T == {p} \cup From(n, n[p])
<1>0. n[p] \in Clients \cup {NoClient}
  BY DEF Pointers
<1>1. From(n, p) \subseteq T
  <2>1. T \in SUBSET Clients
    BY <1>0, FromFacts
  <2>2. n[p] \in T \cup {NoClient}
    BY <1>0, FromFacts
  <2>3. \A c \in From(n, n[p]) : n[c] \in T \cup {NoClient}
    BY <1>0, FromFacts DEF Closed
  <2>4. Closed(n, T)
    BY <2>2, <2>3 DEF Closed
  <2> HIDE DEF T
  <2>5. p \in T
    BY DEF T
  <2> QED BY <2>1, <2>4, <2>5, FromFacts
<1>2. T \subseteq From(n, p)
  <2>1. p \in From(n, p) /\ Closed(n, From(n, p)) /\ From(n, p) \in SUBSET Clients
    BY FromFacts, UploadAssumption
  <2>2. n[p] \in From(n, p) \cup {NoClient}
    BY <2>1 DEF Closed
  <2>3. From(n, n[p]) \subseteq From(n, p)
    BY <1>0, <2>1, <2>2, FromFacts
  <2> QED BY <2>1, <2>3
<1> QED BY <1>1, <1>2

LEMMA FromEnds ==
  ASSUME next \in Pointers, WalksEnd, NEW p \in Clients
  PROVE  p \notin From(next, next[p])
<1> SUFFICES ASSUME p \in From(next, next[p]) PROVE FALSE
  OBVIOUS
<1> DEFINE T == {c \in Clients : p \in From(next, c)}
<1>1. p \in T
  BY FromStep
<1>2. ASSUME NEW c \in T PROVE next[c] \in T
  <2>1. p \in From(next, next[c])
    BY FromStep
  <2>2. next[c] # NoClient
    BY <2>1, FromNull
  <2> QED BY <2>1, <2>2 DEF Pointers
<1> QED BY <1>1, <1>2 DEF WalksEnd

\* A walk sees no change of a pointer it does not follow.
LEMMA FromSame ==
  ASSUME NEW n \in Pointers, NEW m \in Pointers, NEW p \in Clients \cup {NoClient},
         \A c \in From(n, p) : m[c] = n[c]
  PROVE  From(m, p) = From(n, p)
<1>1. From(m, p) \subseteq From(n, p)
  <2>1. Closed(m, From(n, p))
    BY FromFacts DEF Closed
  <2> QED BY <2>1, FromFacts
<1>2. From(n, p) \subseteq From(m, p)
  <2>1. Closed(n, From(m, p))
    BY <1>1, FromFacts DEF Closed
  <2> QED BY <2>1, FromFacts
<1> QED BY <1>1, <1>2

\* The list grows by the connection that is linked behind its last element.
LEMMA FromLinked ==
  ASSUME NEW n \in Pointers, NEW m \in Pointers, NEW h \in Clients,
         NEW p \in From(n, h), NEW c \in Clients \ From(n, h), n[p] = NoClient,
         m[p] = c, m[c] = NoClient, \A d \in From(n, h) : d # p => m[d] = n[d]
  PROVE  From(m, h) = From(n, h) \cup {c}
<1> DEFINE L == From(n, h)
<1>1. L \in SUBSET Clients /\ Closed(n, L) /\ h \in L
  BY FromFacts, UploadAssumption
<1>2. m[c] = NoClient /\ m[p] = c /\ \A d \in L : d # p => m[d] = n[d]
  BY <1>1 DEF Pointers
<1>3. Closed(m, L \cup {c})
  BY <1>1, <1>2 DEF Closed
<1>4. From(m, h) \subseteq L \cup {c}
  BY <1>1, <1>3, FromFacts
<1>5. From(m, h) \in SUBSET Clients /\ Closed(m, From(m, h)) /\ h \in From(m, h)
  BY FromFacts, UploadAssumption
<1> DEFINE K == From(m, h) \cap L
<1>6. \A d \in K : n[d] \in K \cup {NoClient}
  BY <1>1, <1>2, <1>5 DEF Closed
<1>7. L \subseteq K
  <2>1. Closed(n, K) /\ K \in SUBSET Clients /\ h \in K
    BY <1>1, <1>5, <1>6 DEF Closed
  <2> HIDE DEF K
  <2> QED BY <2>1, FromFacts
<1>8. c \in From(m, h)
  BY <1>2, <1>5, <1>7, UploadAssumption DEF Closed
<1> QED BY <1>4, <1>7, <1>8

\* Passing over an element makes the list lose it, and adds nothing.
LEMMA FromUnlinked ==
  ASSUME next \in Pointers, WalksEnd, NEW m \in Pointers, NEW h \in Clients,
         NEW c \in From(next, h), c # h, \A d \in Clients : next[d] # h,
         m = [next EXCEPT ![h] = next[c]]
  PROVE  From(m, h) \subseteq From(next, h) \ {c}
<1> DEFINE R == From(next, next[c])
           T == {h} \cup R
<1>0. c \in Clients /\ next[c] \in Clients \cup {NoClient}
  BY FromFacts DEF Pointers
<1>1. R \in SUBSET Clients /\ Closed(next, R) /\ next[c] \in R \cup {NoClient}
  BY <1>0, FromFacts
<1>2. h \notin R
  <2>1. Closed(next, Clients \ {h}) /\ next[c] \in (Clients \ {h}) \cup {NoClient}
    BY <1>0 DEF Closed, Pointers
  <2> QED BY <1>0, <2>1, FromFacts
<1>3. Closed(m, T)
  BY <1>1, <1>2 DEF Closed, Pointers
<1>4. From(m, h) \subseteq T
  <2>1. T \in SUBSET Clients /\ h \in T
    BY <1>1
  <2> QED BY <1>3, <2>1, FromFacts
<1>5. From(next, c) \subseteq From(next, h)
  BY <1>0, FromFacts
<1>6. R \subseteq From(next, h) /\ c \notin R /\ h \in From(next, h)
  BY <1>0, <1>5, FromStep, FromEnds
<1> QED BY <1>4, <1>6
-----------------------------------------------------------------------------
(***************************************************************************)
(* The list without overlap                                                *)
(***************************************************************************)
\* What can be said of the list while no two threads were inside it together.
ListSound ==
  /\ ~harm
  /\ \A c \in Listed : made[c] = RootSet
  /\ \A c, d \in Listed : c # d => cfg[c] # cfg[d]
  /\ Cardinality(Listed) <= MaxClients

\* An addition has counted the elements it passed, and none of them is a connection to
\* its server; once it has decided it stands at the end, and there is room.
Counts(u, L, n, srv) ==
  /\ u.pc \in {"walk", "create", "init"} =>
       /\ u.at \in L
       /\ u.count = Cardinality(L \ From(n, n[u.at]))
       /\ \A c \in L \ From(n, u.at) : srv[c] # u.server
  /\ u.pc \in {"create", "init"} =>
       n[u.at] = NoClient /\ srv[u.at] # u.server /\ u.count < MaxClients
  /\ u.pc = "init" => srv[u.new] = u.server /\ u.new \notin L

AddSound == Counts(adder["udp"], Listed, next, cfg)

\* A removal has not passed its connection, and has taken it out when it is done.
DelSound ==
  \A c \in Clients :
    /\ del[c].pc = "walk" => /\ del[c].at \in Listed \cup {NoClient}
                             /\ c \notin Listed \ From(next, del[c].at)
    /\ del[c].pc = "free" => c \notin Listed

Alone == \A x, y \in Inside : x = y

SoundInv == ~overlap => Alone /\ ListSound /\ AddSound /\ DelSound

\* Whoever is alone in the list finds nobody else half way through it.
LEMMA AloneFacts ==
  ASSUME NEW a \in Adders, NEW c \in Clients
  PROVE  /\ Alone /\ adder[a].pc \in {"walk", "create", "init"} => del[c].pc \notin {"walk", "free"}
         /\ Alone' /\ adder'[a].pc \in {"walk", "create", "init"} => del'[c].pc \notin {"walk", "free"}
<1>1. <<"add", a>> # <<"del", c>>
  OBVIOUS
<1> QED BY <1>1 DEF Alone, Inside

LEMMA AloneRemoving ==
  ASSUME NEW c \in Clients, NEW d \in Clients, c # d
  PROVE  /\ Alone /\ del[c].pc \in {"walk", "free"} => del[d].pc \notin {"walk", "free"}
         /\ Alone' /\ del'[c].pc \in {"walk", "free"} => del'[d].pc \notin {"walk", "free"}
<1>1. <<"del", c>> # <<"del", d>>
  OBVIOUS
<1> QED BY <1>1 DEF Alone, Inside

\* Everything on the list is there.
LEMMA ListedFacts ==
  ASSUME Known, ListSound
  PROVE  /\ next \in Pointers /\ list \in Clients \cup {NoClient}
         /\ Listed \in SUBSET Clients /\ Closed(next, Listed) /\ list \in Listed \cup {NoClient}
         /\ IsFiniteSet(Listed) /\ Cardinality(Listed) \in Nat
         /\ \A c \in Listed : ~Freed(c)
<1>1. next \in Pointers /\ list \in Clients \cup {NoClient}
  BY DEF Known, LinkInv, LinkTypeOK, Pointers
<1>2. Listed \in SUBSET Clients /\ Closed(next, Listed) /\ list \in Listed \cup {NoClient}
  BY <1>1, FromFacts DEF Listed
<1>3. IsFiniteSet(Listed) /\ Cardinality(Listed) \in Nat
  BY <1>2, LinkAssumption, FS_Subset, FS_CardinalityType
<1>4. 0 # RootSet
  BY UploadAssumption DEF RootSet
<1> QED BY <1>1, <1>2, <1>3, <1>4 DEF Known, LifeInv, ListSound, Freed

\* The list stays sound while its pointers stay as they are and nothing else on it
\* changes.
LEMMA SoundSame ==
  ASSUME Known, ListSound, UNCHANGED <<list, next, harm>>,
         \A c \in Listed : made'[c] = made[c] /\ cfg'[c] = cfg[c]
  PROVE  ListSound' /\ Listed' = Listed
<1>1. Listed' = Listed
  BY DEF Listed
<1> QED BY <1>1 DEF ListSound

\* main adds to an empty list.
LEMMA MainSound ==
  ASSUME Known, ListSound, eth_link_add_tcp_client_list("main")
  PROVE  ListSound' /\ adder'["udp"] = adder["udp"] /\ adder["udp"].pc = "ready"
<1> USE UploadAssumption
<1>0. /\ "main" \in Adders /\ "main" # "udp" /\ adder \in [Adders -> AdderState]
      /\ next \in Pointers /\ made \in [Clients -> 0..RootSet]
  BY DEF Known, LinkInv, LinkTypeOK, AdderState, UploadTypeOK, Adders, Pointers
<1>1. adder["main"].pc # "over"
  BY DEF eth_link_add_tcp_client_list, AddStart, AddWalk, AddDecide, AddRefuse, AddFails,
         AddCreate, AddInit, AddLink, AddUsesFreed
<1>2. /\ ~started /\ list = NoClient /\ next = [c \in Clients |-> NoClient]
      /\ adder["main"].at = NoClient /\ adder["main"].pc \in {"ready", "create", "init"}
      /\ adder["udp"].pc = "ready"
  BY <1>1 DEF Known, HeadInv
<1>3. ASSUME UNCHANGED <<list, next, harm>> PROVE ListSound'
  <2>1. Listed' = {} /\ Cardinality({}) = 0
    BY <1>0, <1>2, <1>3, FromNull, FS_EmptySet DEF Listed
  <2> QED BY <1>3, <2>1, LinkAssumption DEF ListSound
<1>4. ASSUME NEW v \in Servers, AddStart("main", v) PROVE ListSound' /\ adder'["udp"] = adder["udp"]
  BY <1>0, <1>3, <1>4 DEF AddStart
<1>5. ASSUME NEW c \in Clients, AddCreate("main", c) PROVE ListSound' /\ adder'["udp"] = adder["udp"]
  BY <1>0, <1>3, <1>5 DEF AddCreate
<1>6. CASE AddInit("main")
  BY <1>0, <1>2, <1>3, <1>6 DEF AddInit, listVars
<1>7. CASE AddLink("main")
  <2> DEFINE c == adder["main"].new
  <2>1. /\ c \in Clients /\ list' = c /\ next' = next /\ made' = [made EXCEPT ![c] = RootSet]
        /\ UNCHANGED harm /\ adder'["udp"] = adder["udp"]
    BY <1>0, <1>2, <1>7 DEF AddLink, SetRoot, Known, LinkInv, AdderInv
  <2>2. made'[c] = RootSet
    BY <1>0, <2>1
  <2> HIDE DEF c
  <2>3. From(next, c) = {c} \cup From(next, next[c]) /\ next[c] = NoClient
    BY <1>0, <1>2, <2>1, FromStep
  <2>4. Listed' = {c} /\ Cardinality({c}) = 1
    BY <1>0, <2>1, <2>3, FromNull, FS_Singleton DEF Listed
  <2> QED BY <1>2, <2>1, <2>2, <2>4, LinkAssumption DEF ListSound
<1>8. CASE AddUsesFreed("main")
  BY <1>2, <1>8 DEF AddUsesFreed
<1>9. CASE AddWalk("main") \/ AddDecide("main") \/ AddRefuse("main") \/ AddFails("main")
  BY <1>2, <1>9 DEF AddWalk, AddDecide, AddRefuse, AddFails
<1> QED BY <1>2, <1>4, <1>5, <1>6, <1>7, <1>8, <1>9 DEF eth_link_add_tcp_client_list

\* An addition that is alone links its connection behind the last element.
LEMMA LinkedGrows ==
  ASSUME Known, ListSound, AddSound, AddLink("udp")
  PROVE  LET c == adder["udp"].new
             p == adder["udp"].at
         IN  /\ c \in Clients /\ UNCHANGED <<harm, cfg, list, del>>
             /\ made' = [made EXCEPT ![c] = RootSet] /\ adder' = [adder EXCEPT !["udp"] = Ready]
             /\ p \in Listed /\ p \in Clients /\ next[p] = NoClient /\ c \notin Listed
             /\ Listed' = Listed \cup {c}
<1> USE UploadAssumption
<1> DEFINE u == adder["udp"]
           c == u.new
           p == u.at
<1>0. /\ "udp" \in Adders /\ "udp" # "main" /\ adder \in [Adders -> AdderState]
      /\ next \in Pointers /\ Listed \in SUBSET Clients /\ list \in Listed \cup {NoClient}
  BY ListedFacts DEF Known, LinkInv, LinkTypeOK, AdderState, Adders
<1>1. /\ u.pc = "init" /\ c \in Clients /\ UNCHANGED <<harm, cfg, del>>
      /\ made' = [made EXCEPT ![c] = RootSet] /\ adder' = [adder EXCEPT !["udp"] = Ready]
  BY <1>0 DEF AddLink, SetRoot, Over, Ready, Known, LinkInv, AdderInv
<1>2. p \in Listed /\ p \in Clients /\ next[p] = NoClient /\ c \notin Listed
  BY <1>0, <1>1 DEF AddSound, Counts
<1>3. list' = list /\ next' = [next EXCEPT ![p] = c, ![c] = NoClient]
  BY <1>2 DEF AddLink
<1>4. list \in Clients
  <2>1. started
    BY <1>1 DEF Known, HeadInv
  <2> QED BY <1>0, <2>1 DEF Known, HeadInv
<1> HIDE DEF c, p, u
<1>5. next' \in Pointers
  BY <1>0, <1>1, <1>3 DEF Pointers
<1>6. p \in From(next, list) /\ c \in Clients \ From(next, list)
  BY <1>1, <1>2 DEF Listed
<1>7. From(next', list) = From(next, list) \cup {c}
  <2>1. next \in Pointers /\ next[p] = NoClient
    BY <1>0, <1>2
  <2>2. /\ next'[p] = c /\ next'[c] = NoClient
        /\ \A d \in From(next, list) : d # p => next'[d] = next[d]
    BY <1>0, <1>1, <1>2, <1>3, <1>6 DEF Pointers, Listed
  <2> QED BY <1>4, <1>5, <1>6, <2>1, <2>2, FromLinked
<1>8. Listed' = Listed \cup {c}
  BY <1>3, <1>7 DEF Listed
<1> QED BY <1>1, <1>2, <1>3, <1>8 DEF c, p, u

\* The UDP thread counts what it passes, and links behind the last element.
LEMMA UdpSound ==
  ASSUME Known, WalksEnd, ListSound, AddSound, eth_link_add_tcp_client_list("udp")
  PROVE  ListSound' /\ AddSound'
<1> USE UploadAssumption
<1> DEFINE u == adder["udp"]
<1>0. /\ "udp" \in Adders /\ "udp" # "main" /\ adder \in [Adders -> AdderState]
      /\ next \in Pointers /\ made \in [Clients -> 0..RootSet] /\ cfg \in [Clients -> Servers]
      /\ u.at \in Clients \cup {NoClient} /\ u.count \in Nat
      /\ Listed \in SUBSET Clients /\ Closed(next, Listed) /\ list \in Listed \cup {NoClient}
      /\ IsFiniteSet(Listed) /\ Cardinality(Listed) \in Nat /\ \A c \in Listed : ~Freed(c)
  BY ListedFacts DEF Known, LinkInv, LinkTypeOK, AdderState, UploadTypeOK, Adders, Pointers
<1>1. ASSUME NEW v \in Servers, AddStart("udp", v) PROVE ListSound' /\ AddSound'
  <2>1. started /\ list \in Clients /\ UNCHANGED <<list, next, harm, made, cfg>>
        /\ adder' = [adder EXCEPT !["udp"] = Adding("walk", list, 1, v, NoClient)]
    BY <1>0, <1>1 DEF AddStart, uploadVars, Known, HeadInv
  <2>2. adder'["udp"] = Adding("walk", list, 1, v, NoClient)
    BY <1>0, <2>1
  <2>3. ListSound' /\ Listed' = Listed
    BY <2>1, SoundSame
  <2>4. Listed = {list} \cup From(next, next[list]) /\ list \notin From(next, next[list])
    BY <1>0, <2>1, FromStep, FromEnds DEF Listed
  <2>5. Listed \ From(next, next[list]) = {list} /\ Cardinality({list}) = 1
    BY <2>4, FS_Singleton
  <2>6. Listed \ From(next, list) = {}
    BY DEF Listed
  <2>7. Counts(Adding("walk", list, 1, v, NoClient), Listed, next, cfg)
    BY <1>0, <2>1, <2>5, <2>6 DEF Counts, Adding
  <2> QED BY <2>1, <2>2, <2>3, <2>7 DEF AddSound
<1>2. CASE AddWalk("udp")
  <2> DEFINE p == u.at
             q == next[p]
  <2>1. /\ u.pc = "walk" /\ q # NoClient /\ cfg[p] # u.server /\ UNCHANGED <<list, next, harm, made, cfg>>
        /\ adder' = [adder EXCEPT !["udp"] = Adding("walk", q, u.count + 1, u.server, NoClient)]
    BY <1>2 DEF AddWalk, AtEnd, uploadVars
  <2>2. adder'["udp"] = Adding("walk", q, u.count + 1, u.server, NoClient)
    BY <1>0, <2>1
  <2>3. ListSound' /\ Listed' = Listed
    BY <2>1, SoundSame
  <2>4. /\ p \in Listed /\ u.count = Cardinality(Listed \ From(next, q))
        /\ \A c \in Listed \ From(next, p) : cfg[c] # u.server
    BY <2>1 DEF AddSound, Counts
  <2> HIDE DEF u, p, q
  <2>5. q \in Listed
    BY <1>0, <2>1, <2>4 DEF Closed, q
  <2>6. From(next, q) = {q} \cup From(next, next[q]) /\ q \notin From(next, next[q])
    BY <1>0, <2>5, FromStep, FromEnds
  <2>7. Listed \ From(next, next[q]) = (Listed \ From(next, q)) \cup {q}
    BY <2>5, <2>6
  <2>8. Cardinality(Listed \ From(next, next[q])) = u.count + 1
    <3>1. IsFiniteSet(Listed \ From(next, q)) /\ q \notin Listed \ From(next, q)
      BY <1>0, <2>6, FS_Subset
    <3> DEFINE passed == Listed \ From(next, q)
    <3>2. Cardinality(passed \cup {q}) = Cardinality(passed) + 1
      <4> HIDE DEF passed
      <4>1. IsFiniteSet(passed) /\ q \notin passed
        BY <3>1 DEF passed
      <4> QED BY <4>1, FS_AddElement
    <3> QED BY <2>4, <2>7, <3>2
  <2>9. \A c \in Listed \ From(next, q) : cfg[c] # u.server
    <3>1. From(next, p) = {p} \cup From(next, q)
      BY <1>0, <2>4, FromStep DEF q
    <3> QED BY <2>1, <2>4, <3>1
  <2>10. Counts(Adding("walk", q, u.count + 1, u.server, NoClient), Listed, next, cfg)
    BY <2>5, <2>8, <2>9 DEF Counts, Adding
  <2> QED BY <2>1, <2>2, <2>3, <2>10 DEF AddSound
<1>3. CASE AddDecide("udp")
  <2>1. /\ u.pc = "walk" /\ UNCHANGED <<list, next, harm, made, cfg>>
        /\ adder' = [adder EXCEPT !["udp"] = Adding("create", u.at, u.count, u.server, NoClient)]
    BY <1>3 DEF AddDecide, uploadVars
  <2>2. adder'["udp"] = Adding("create", u.at, u.count, u.server, NoClient)
    BY <1>0, <2>1
  <2>3. next[u.at] = NoClient /\ cfg[u.at] # u.server /\ u.count < MaxClients
    <3>1. cfg[u.at] # u.server /\ MaxClients > u.count
      BY <1>3 DEF AddDecide, Accepts
    <3> QED BY <1>0, <1>3, <3>1, LinkAssumption DEF AddDecide, AtEnd
  <2>4. ListSound' /\ Listed' = Listed
    BY <2>1, SoundSame
  <2>5. /\ u.at \in Listed /\ u.count = Cardinality(Listed \ From(next, next[u.at]))
        /\ \A c \in Listed \ From(next, u.at) : cfg[c] # u.server
    BY <2>1 DEF AddSound, Counts
  <2> HIDE DEF u
  <2>6. Counts(Adding("create", u.at, u.count, u.server, NoClient), Listed, next, cfg)
    BY <2>3, <2>5 DEF Counts, Adding
  <2> QED BY <2>1, <2>2, <2>4, <2>6 DEF AddSound
<1>4. ASSUME ListSound', adder' = [adder EXCEPT !["udp"] = Ready] PROVE ListSound' /\ AddSound'
  <2>1. adder'["udp"].pc = "ready"
    BY <1>0, <1>4 DEF Ready, Adding
  <2> QED BY <1>4, <2>1 DEF AddSound, Counts
<1>5. CASE AddRefuse("udp")
  BY <1>4, <1>5, SoundSame DEF AddRefuse, Over, Ready, uploadVars
<1>6. CASE AddFails("udp")
  <2>1. /\ u.pc = "create" /\ adder' = [adder EXCEPT !["udp"] = Ready] /\ UNCHANGED <<harm, made, cfg>>
    BY <1>6 DEF AddFails, Over, Ready, uploadVars
  <2>2. u.at \in Listed /\ next[u.at] = NoClient
    BY <2>1 DEF AddSound, Counts
  <2>3. list' = list /\ next' = [next EXCEPT ![u.at] = NoClient]
    BY <1>0, <1>6, <2>2 DEF AddFails
  <2>4. next' = next
    BY <1>0, <2>2, <2>3 DEF Pointers
  <2> QED BY <1>4, <2>1, <2>3, <2>4, SoundSame
<1>7. ASSUME NEW c \in Clients, AddCreate("udp", c) PROVE ListSound' /\ AddSound'
  <2>1. /\ u.pc = "create" /\ UNCHANGED <<list, next, harm, made>>
        /\ cfg' = [cfg EXCEPT ![c] = u.server]
        /\ adder' = [adder EXCEPT !["udp"] = Adding("init", u.at, u.count, u.server, c)]
    BY <1>0, <1>7 DEF AddCreate, CreateRequested, tcp_client_create
  <2>2. adder'["udp"] = Adding("init", u.at, u.count, u.server, c)
    BY <1>0, <2>1
  <2>3. c \notin Listed
    BY <1>0, <1>7 DEF AddCreate, CreateRequested, tcp_client_create, Freed
  <2>4. cfg'[c] = u.server /\ \A d \in Listed : cfg'[d] = cfg[d]
    BY <1>0, <2>1, <2>3
  <2>5. ListSound' /\ Listed' = Listed
    BY <2>1, <2>4, SoundSame
  <2>6. /\ u.at \in Listed /\ u.count = Cardinality(Listed \ From(next, next[u.at]))
        /\ \A d \in Listed \ From(next, u.at) : cfg[d] # u.server
        /\ next[u.at] = NoClient /\ cfg[u.at] # u.server /\ u.count < MaxClients
    BY <2>1 DEF AddSound, Counts
  <2> HIDE DEF u
  <2>7. Counts(Adding("init", u.at, u.count, u.server, c), Listed, next, cfg')
    BY <2>3, <2>4, <2>6 DEF Counts, Adding
  <2> QED BY <2>1, <2>2, <2>5, <2>7 DEF AddSound
<1>8. CASE AddInit("udp")
  <2>1. u.pc = "init" /\ UNCHANGED <<list, next, harm, cfg, adder>>
        /\ \A d \in Clients : d # u.new => made'[d] = made[d]
    BY <1>0, <1>8 DEF AddInit, ConnectSend, SetUserCbk, listVars
  <2>2. u.new \notin Listed
    BY <2>1 DEF AddSound, Counts
  <2>3. \A d \in Listed : made'[d] = made[d]
    BY <1>0, <2>1, <2>2
  <2>4. ListSound' /\ Listed' = Listed
    BY <2>1, <2>3, SoundSame
  <2> QED BY <2>1, <2>4 DEF AddSound, Counts
<1>9. CASE AddLink("udp")
  <2> DEFINE c == u.new
             p == u.at
  <2>1. /\ c \in Clients /\ UNCHANGED <<harm, cfg>>
        /\ made' = [made EXCEPT ![c] = RootSet] /\ adder' = [adder EXCEPT !["udp"] = Ready]
        /\ p \in Listed /\ p \in Clients /\ next[p] = NoClient /\ c \notin Listed
    BY <1>9, LinkedGrows
  <2>2. /\ cfg[c] = u.server /\ cfg[p] # u.server /\ u.count < MaxClients
        /\ u.count = Cardinality(Listed \ From(next, next[p]))
        /\ \A d \in Listed \ From(next, p) : cfg[d] # u.server
    BY <1>9 DEF AddLink, AddSound, Counts
  <2>6. Listed' = Listed \cup {c}
    BY <1>9, LinkedGrows
  <2> HIDE DEF c, p, u
  <2>7. \A d \in Listed : cfg[d] # u.server
    <3>1. From(next, p) = {p}
      BY <1>0, <2>1, FromStep, FromNull
    <3> QED BY <2>1, <2>2, <3>1
  <2>8. u.count = Cardinality(Listed)
    <3>1. Listed \ From(next, next[p]) = Listed
      BY <1>0, <2>1, FromNull
    <3> QED BY <2>1, <2>2, <3>1
  <2>9. Cardinality(Listed \cup {c}) = Cardinality(Listed) + 1
    BY <1>0, <2>1, FS_AddElement
  <2>10. \A d \in Listed \cup {c} : made'[d] = RootSet
    BY <1>0, <2>1 DEF ListSound
  <2>11. \A d, e \in Listed \cup {c} : d # e => cfg'[d] # cfg'[e]
    BY <2>1, <2>2, <2>7 DEF ListSound
  <2>12. Cardinality(Listed \cup {c}) <= MaxClients
    BY <1>0, <2>2, <2>8, <2>9, LinkAssumption
  <2>13. ListSound'
    BY <2>1, <2>6, <2>10, <2>11, <2>12 DEF ListSound
  <2> QED BY <1>4, <2>1, <2>13
<1>10. CASE AddUsesFreed("udp")
  <2>1. u.pc \in {"walk", "create", "init"} /\ Freed(u.at)
    BY <1>10 DEF AddUsesFreed
  <2>2. u.at \in Listed
    BY <2>1 DEF AddSound, Counts
  <2> QED BY <1>0, <2>1, <2>2
<1> QED BY <1>1, <1>2, <1>3, <1>5, <1>6, <1>7, <1>8, <1>9, <1>10 DEF eth_link_add_tcp_client_list

\* A connection takes itself out, and whatever lies between it and the first.
LEMMA DelStepSound ==
  ASSUME Known, WalksEnd, ListSound, DelSound, NEW c \in Clients, eth_link_del_tcp_client_list(c),
         \A d \in Clients : d # c => del[d].pc = "start"
  PROVE  ListSound' /\ DelSound'
<1> USE UploadAssumption
<1>0. /\ next \in Pointers /\ made \in [Clients -> 0..RootSet] /\ cfg \in [Clients -> Servers]
      /\ del \in [Clients -> [pc : {"start", "walk", "free"}, last : Clients \cup {NoClient},
                              at : Clients \cup {NoClient}]]
      /\ Listed \in SUBSET Clients /\ Closed(next, Listed) /\ list \in Listed \cup {NoClient}
      /\ IsFiniteSet(Listed) /\ Cardinality(Listed) \in Nat /\ \A d \in Listed : ~Freed(d)
  BY ListedFacts DEF Known, LinkInv, LinkTypeOK, UploadTypeOK, Pointers
<1>1. Unlinking(c) /\ started /\ list = permanent /\ permanent \in Clients /\ c # permanent
  <2>1. Unlinking(c)
    BY DEF eth_link_del_tcp_client_list, DelStart, DelWalk, DelUnlink, DelNotFound, DelUsesFreed,
           DelFree, FreeClient, Unlinking
  <2> QED BY <2>1 DEF Unlinking, Known, HeadInv, LifeInv, UploadTypeOK
<1>2. list \in Listed
  BY <1>0, <1>1
<1>3. ASSUME Listed' = Listed, NEW e, del' = [del EXCEPT ![c] = e],
             e.pc = "walk" => e.at \in Listed \cup {NoClient} /\ c \notin Listed \ From(next', e.at),
             e.pc = "free" => c \notin Listed
      PROVE  DelSound'
  <2>1. del'[c] = e /\ \A d \in Clients : d # c => del'[d].pc = "start"
    BY <1>0, <1>3
  <2> QED BY <1>3, <2>1 DEF DelSound
<1>4. CASE DelStart(c)
  <2> DEFINE e == [pc |-> "walk", last |-> list, at |-> list]
  <2>1. UNCHANGED <<list, next, harm, made, cfg>> /\ del' = [del EXCEPT ![c] = e]
    BY <1>1, <1>4 DEF DelStart, uploadVars
  <2>2. ListSound' /\ Listed' = Listed
    BY <2>1, SoundSame
  <2>3. e.at \in Listed /\ c \notin Listed \ From(next', e.at) /\ e.pc # "free"
    BY <1>2, <2>1 DEF Listed
  <2> HIDE DEF e
  <2> QED BY <1>3, <2>1, <2>2, <2>3
<1>5. CASE DelWalk(c)
  <2> DEFINE p == del[c].at
             e == [pc |-> "walk", last |-> del[c].last, at |-> next[p]]
  <2>1. /\ UNCHANGED <<list, next, harm, made, cfg>> /\ del[c].pc = "walk" /\ p \notin {c, NoClient}
        /\ del' = [del EXCEPT ![c].at = next[p]]
    BY <1>5 DEF DelWalk, uploadVars
  <2>2. del' = [del EXCEPT ![c] = e]
    <3>1. [del[c] EXCEPT !.at = next[p]] = e
      BY <1>0, <2>1
    <3> QED BY <2>1, <3>1
  <2>3. ListSound' /\ Listed' = Listed
    BY <2>1, SoundSame
  <2>4. p \in Listed /\ c \notin Listed \ From(next, p)
    BY <2>1 DEF DelSound
  <2>5. From(next, p) = {p} \cup From(next, next[p]) /\ next[p] \in Listed \cup {NoClient}
    BY <1>0, <2>4, FromStep DEF Closed
  <2>6. c \notin Listed \ From(next', e.at)
    BY <2>1, <2>4, <2>5
  <2>7. e.pc # "free" /\ e.at \in Listed \cup {NoClient}
    BY <2>5
  <2> HIDE DEF e
  <2> QED BY <1>3, <2>2, <2>3, <2>6, <2>7
<1>6. CASE DelUnlink(c)
  <2>1. /\ UNCHANGED <<list, harm, made, cfg>> /\ del[c].pc = "walk" /\ del[c].at = c
        /\ del[c].last = permanent
        /\ next' = [next EXCEPT ![permanent] = next[c]] /\ del' = [del EXCEPT ![c] = Unlinked]
    BY <1>6 DEF DelUnlink, uploadVars, Known, HeadInv
  <2>2. c \in Listed
    BY <2>1 DEF DelSound
  <2>3. next' \in Pointers /\ \A d \in Clients : next[d] # permanent
    BY <1>0, <1>1, <2>1 DEF Pointers, Known, HeadInv
  <2>4. Listed' \subseteq Listed \ {c}
    <3>1. c \in From(next, list) /\ c # list /\ list \in Clients
      BY <1>1, <2>2 DEF Listed
    <3>2. next' = [next EXCEPT ![list] = next[c]] /\ \A d \in Clients : next[d] # list
      BY <1>1, <2>1, <2>3
    <3>3. From(next', list) \subseteq From(next, list) \ {c}
      BY <1>0, <2>3, <3>1, <3>2, FromUnlinked
    <3> QED BY <2>1, <3>3 DEF Listed
  <2>5. Cardinality(Listed') <= Cardinality(Listed) /\ Cardinality(Listed') \in Nat
    BY <1>0, <2>4, FS_Subset, FS_CardinalityType
  <2>6. ListSound'
    <3>1. Cardinality(Listed') <= MaxClients
      BY <1>0, <2>5, LinkAssumption DEF ListSound
    <3> QED BY <2>1, <2>4, <3>1 DEF ListSound
  <2>7. del'[c].pc = "free" /\ \A d \in Clients : d # c => del'[d].pc = "start"
    BY <1>0, <2>1 DEF Unlinked
  <2>8. DelSound'
    BY <2>4, <2>7 DEF DelSound
  <2> QED BY <2>6, <2>8
<1>7. CASE DelNotFound(c)
  <2>1. /\ UNCHANGED <<list, next, harm, made, cfg>> /\ del[c].pc = "walk" /\ del[c].at = NoClient
        /\ del' = [del EXCEPT ![c] = Unlinked]
    BY <1>7 DEF DelNotFound, uploadVars
  <2>2. ListSound' /\ Listed' = Listed
    BY <2>1, SoundSame
  <2>3. c \notin Listed
    BY <1>0, <2>1, FromNull DEF DelSound
  <2> QED BY <1>3, <2>1, <2>2, <2>3 DEF Unlinked
<1>8. CASE DelUsesFreed(c)
  <2>1. del[c].pc = "walk" /\ del[c].last = list /\ (del[c].at # NoClient => del[c].at \in Listed)
    BY <1>1, <1>8 DEF DelUsesFreed, DelSound, Known, HeadInv
  <2> QED BY <1>0, <1>2, <1>8, <2>1 DEF DelUsesFreed
<1>9. CASE DelFree(c)
  <2>1. /\ UNCHANGED <<list, harm>> /\ del[c].pc = "free" /\ del' = [del EXCEPT ![c] = NoDel]
        /\ next' = [next EXCEPT ![c] = NoClient] /\ made' = [made EXCEPT ![c] = 0]
        /\ cfg' = [cfg EXCEPT ![c] = DefaultServer]
    BY <1>9 DEF DelFree, FreeClient
  <2>2. c \notin Listed
    BY <2>1 DEF DelSound
  <2>3. \A d \in Listed : next'[d] = next[d] /\ made'[d] = made[d] /\ cfg'[d] = cfg[d]
    BY <1>0, <2>1, <2>2 DEF Pointers
  <2>4. next' \in Pointers
    BY <1>0, <2>1 DEF Pointers
  <2>5. Listed' = Listed
    <3>1. From(next', list) = From(next, list)
      BY <1>0, <1>1, <2>3, <2>4, FromSame DEF Listed
    <3> QED BY <2>1, <3>1 DEF Listed
  <2>6. ListSound'
    BY <2>1, <2>3, <2>5 DEF ListSound
  <2>7. NoDel.pc = "start"
    BY DEF NoDel
  <2> QED BY <1>3, <2>1, <2>5, <2>6, <2>7
<1> QED BY <1>4, <1>5, <1>6, <1>7, <1>8, <1>9 DEF eth_link_del_tcp_client_list

\* At most one thread inside, and it is the one that was.
LEMMA NoOverlap ==
  ASSUME LinkNext, ~overlap'
  PROVE  ~overlap /\ Alone'
<1>1. ~overlap /\ ~(Cardinality(Inside') > 1)
  BY Zenon DEF LinkNext
<1>2. IsFiniteSet(Inside')
  <2> DEFINE A == {a \in Adders  : adder'[a].pc \in {"walk", "create", "init"}}
             D == {c \in Clients : del'[c].pc \in {"walk", "free"}}
             fa == [a \in A |-> <<"add", a>>]
             fd == [c \in D |-> <<"del", c>>]
             IA == {<<"add", a>> : a \in A}
             ID == {<<"del", c>> : c \in D}
  <2>1. IsFiniteSet(A) /\ IsFiniteSet(D)
    <3>1. IsFiniteSet({"main", "udp"})
      <4>1. IsFiniteSet({"main"} \cup {"udp"})
        <5>1. IsFiniteSet({"main"})
          BY FS_Singleton
        <5> QED BY <5>1, FS_AddElement
      <4>2. {"main"} \cup {"udp"} = {"main", "udp"}
        OBVIOUS
      <4> QED BY <4>1, <4>2
    <3>2. A \in SUBSET {"main", "udp"} /\ D \in SUBSET Clients
      BY DEF Adders
    <3> QED BY <3>1, <3>2, FS_Subset, LinkAssumption
  <2> HIDE DEF A, D
  <2>2. fa \in Surjection(A, IA) /\ fd \in Surjection(D, ID)
    BY DEF Surjection
  <2>3. IsFiniteSet(IA) /\ IsFiniteSet(ID)
    BY <2>1, <2>2, FS_Surjection
  <2>4. Inside' = IA \cup ID
    BY DEF Inside, A, D
  <2> QED BY <2>3, <2>4, FS_Union
<1>3. ASSUME NEW x \in Inside', NEW y \in Inside', x # y PROVE FALSE
  <2>1. Cardinality({x, y}) = 2
    <3>1. IsFiniteSet({x}) /\ Cardinality({x}) = 1
      BY FS_Singleton
    <3>2. Cardinality({x} \cup {y}) = 2
      <4>1. Cardinality({x} \cup {y}) = IF y \in {x} THEN Cardinality({x}) ELSE Cardinality({x}) + 1
        BY <3>1, FS_AddElement
      <4>2. y \notin {x}
        BY <1>3
      <4> QED BY <3>1, <4>1, <4>2
    <3>3. {x} \cup {y} = {x, y}
      OBVIOUS
    <3> QED BY <3>2, <3>3
  <2>2. Cardinality({x, y}) <= Cardinality(Inside') /\ Cardinality(Inside') \in Nat
    BY <1>2, FS_Subset, FS_CardinalityType
  <2> QED BY <1>1, <2>1, <2>2
<1> QED BY <1>1, <1>3 DEF Alone

LEMMA SoundStep ==
  ASSUME Known, WalksEnd, SoundInv, [LinkNext]_linkVars
  PROVE  SoundInv'
<1> SUFFICES ASSUME ~overlap' PROVE (Alone /\ ListSound /\ AddSound /\ DelSound)'
  BY DEF SoundInv
<1>0. adder \in [Adders -> AdderState] /\ del \in [Clients -> [pc : {"start", "walk", "free"},
        last : Clients \cup {NoClient}, at : Clients \cup {NoClient}]]
      /\ Adders = {"main", "udp"}
  BY DEF Known, LinkInv, LinkTypeOK, AdderState, Adders
<1>1. CASE UNCHANGED linkVars
  <2>1. ~overlap /\ UNCHANGED <<list, next, cfg, harm, made, adder, del>>
    BY <1>1 DEF linkVars, listVars, uploadVars
  <2>2. ListSound' /\ Listed' = Listed
    BY <2>1, SoundSame DEF SoundInv
  <2> QED BY <2>1, <2>2 DEF SoundInv, Alone, Inside, AddSound, Counts, DelSound
<1>2. CASE LinkNext
  <2>0. Alone' /\ Alone /\ ListSound /\ AddSound /\ DelSound
    BY <1>2, NoOverlap DEF SoundInv
  <2>1. ASSUME UNCHANGED listVars, UNCHANGED made PROVE ListSound' /\ AddSound' /\ DelSound'
    <3>1. UNCHANGED <<list, next, cfg, harm, made, adder, del>>
      BY <2>1 DEF listVars
    <3>2. ListSound' /\ Listed' = Listed
      BY <2>0, <3>1, SoundSame
    <3> QED BY <2>0, <3>1, <3>2 DEF AddSound, DelSound
  <2>2. ASSUME NEW a \in Adders, eth_link_add_tcp_client_list(a)
        PROVE  ListSound' /\ AddSound' /\ DelSound'
    <3>1. del' = del
      BY <2>2 DEF eth_link_add_tcp_client_list, AddStart, AddWalk, AddDecide, AddRefuse, AddFails,
                  AddCreate, AddInit, AddLink, AddUsesFreed, UseAfterFree, listVars
    <3>2. \/ adder[a].pc \in {"walk", "create", "init"}
          \/ adder'[a].pc \in {"walk", "create", "init"}
      <4>1. ASSUME NEW v \in Servers, AddStart(a, v)
            PROVE  adder'[a].pc \in {"walk", "create", "init"}
        BY <1>0, <4>1 DEF AddStart, Adding
      <4> QED BY <2>2, <4>1 DEF eth_link_add_tcp_client_list, AddWalk, AddDecide, AddRefuse, AddFails,
                  AddCreate, AddInit, AddLink, AddUsesFreed
    <3>3. \A c \in Clients : del'[c].pc = "start"
      BY <1>0, <2>0, <3>1, <3>2, AloneFacts
    <3>4. DelSound'
      BY <3>3 DEF DelSound
    <3>5. CASE a = "main"
      <4>1. ListSound' /\ adder'["udp"].pc = "ready"
        BY <2>0, <2>2, <3>5, MainSound
      <4> QED BY <3>4, <4>1 DEF AddSound, Counts
    <3>6. CASE a = "udp"
      BY <2>0, <2>2, <3>4, <3>6, UdpSound
    <3> QED BY <1>0, <3>5, <3>6
  <2>3. ASSUME NEW c \in Clients, eth_link_del_tcp_client_list(c)
        PROVE  ListSound' /\ AddSound' /\ DelSound'
    <3>1. adder' = adder
      BY <2>3 DEF eth_link_del_tcp_client_list, DelStart, DelWalk, DelUnlink, DelNotFound,
                  DelUsesFreed, DelFree, UseAfterFree
    <3>2. del[c].pc \in {"walk", "free"} \/ del'[c].pc \in {"walk", "free"}
      <4>1. ASSUME DelStart(c) PROVE del'[c].pc \in {"walk", "free"}
        BY <1>0, <4>1 DEF DelStart, Unlinked
      <4> QED BY <2>3, <4>1 DEF eth_link_del_tcp_client_list, DelWalk, DelUnlink, DelNotFound,
                                DelUsesFreed, DelFree
    <3>3. \A d \in Clients : d # c => del'[d] = del[d]
      BY <1>0, <2>3 DEF eth_link_del_tcp_client_list, DelStart, DelWalk, DelUnlink, DelNotFound,
                  DelUsesFreed, DelFree, UseAfterFree
    <3>4. \A d \in Clients : d # c => del[d].pc = "start"
      BY <1>0, <2>0, <3>2, <3>3, AloneRemoving
    <3>5. adder["udp"].pc \notin {"walk", "create", "init"}
      BY <1>0, <2>0, <3>1, <3>2, AloneFacts
    <3>6. AddSound'
      BY <3>1, <3>5 DEF AddSound, Counts
    <3> QED BY <2>0, <2>3, <3>4, <3>6, DelStepSound
  <2>4. ASSUME NEW c \in Clients, tcp_client_task(c), UNCHANGED listVars
        PROVE  ListSound' /\ AddSound' /\ DelSound'
    BY <2>1, <2>4, ElsewhereUnchanged
  <2>5. ASSUME NEW s \in Senders, alink_upload_send_package(s), UNCHANGED listVars
        PROVE  ListSound' /\ AddSound' /\ DelSound'
    BY <2>1, <2>5, ElsewhereUnchanged
  <2> QED BY <1>2, <2>0, <2>2, <2>3, <2>4, <2>5 DEF LinkNext
<1> QED BY <1>1, <1>2

LEMMA LinkInitSound == LinkInit => SoundInv
<1> SUFFICES ASSUME LinkInit PROVE SoundInv
  OBVIOUS
<1>1. next \in Pointers /\ list = NoClient /\ ~harm
  BY DEF LinkInit, Pointers
<1>2. Listed = {} /\ Cardinality({}) = 0
  BY <1>1, FromNull, FS_EmptySet DEF Listed
<1>3. ListSound
  BY <1>1, <1>2, LinkAssumption DEF ListSound
<1>4. \A a \in Adders : adder[a].pc = "ready"
  BY DEF LinkInit, Ready, Adding
<1>5. \A c \in Clients : del[c].pc = "start"
  BY DEF LinkInit, NoDel
<1>6. Alone
  BY <1>4, <1>5 DEF Alone, Inside
<1>7. AddSound
  BY <1>4 DEF AddSound, Counts, Adders
<1>8. DelSound
  BY <1>5 DEF DelSound
<1> QED BY <1>3, <1>6, <1>7, <1>8 DEF SoundInv

\* Without overlap no freed connection is reached through the list, it holds one
\* connection per server, and never more than it may.
THEOREM ListIsSound == LinkSpec => []SoundWhenExclusive
<1>1. UploadInv => UploadTypeOK /\ LifeInv
  BY DEF UploadInv
<1>2. LinkSpec => UploadSpec
  BY LinkIsUpload
<1>3. LinkInv /\ UploadInv /\ HeadInv /\ [LinkNext]_linkVars => HeadInv'
  BY <1>1, HeadStep DEF Known
<1>4. LinkInv /\ UploadInv /\ HeadInv /\ WalksEnd /\ SoundInv /\ [LinkNext]_linkVars => SoundInv'
  BY <1>1, SoundStep DEF Known
<1>5. LinkInv /\ UploadInv /\ HeadInv /\ SoundInv => SoundWhenExclusive
  <2> SUFFICES ASSUME Known, SoundInv, ~overlap PROVE SoundWhenExclusive
    BY <1>1 DEF Known, SoundWhenExclusive
  <2>1. ListSound
    BY DEF SoundInv
  <2> QED BY <2>1, ListedFacts DEF SoundWhenExclusive, ListSound
<1> QED BY <1>2, <1>3, <1>4, <1>5, WalksAlwaysEnd, LinkInitInv, LinkStepInv, LinkInitHead,
        LinkInitSound, UploadInvariant, PTL DEF LinkSpec
-----------------------------------------------------------------------------
(***************************************************************************)
(* Nobody is lost from the list                                            *)
(***************************************************************************)
\* A connection is finished and has not taken itself out.
InUse(c) == made[c] = RootSet /\ del[c].pc # "free"

LiveInv == ~overlap /\ ~dropped => \A c \in Clients : InUse(c) => c \in Listed

\* A step that leaves the list alone and finishes no connection keeps it complete.
LEMMA LiveSame ==
  ASSUME Known, \A c \in Clients : InUse(c) => c \in Listed, UNCHANGED <<list, next>>,
         \A c \in Clients : InUse(c)' => InUse(c)
  PROVE  \A c \in Clients : InUse(c)' => c \in Listed'
BY DEF Listed

\* An addition keeps everybody and lists the new one.
LEMMA AddLive ==
  ASSUME Known, ListSound, AddSound, \A c \in Clients : InUse(c) => c \in Listed,
         NEW a \in Adders, eth_link_add_tcp_client_list(a)
  PROVE  \A c \in Clients : InUse(c)' => c \in Listed'
<1> USE UploadAssumption
<1>0. /\ a \in {"main", "udp"} /\ adder \in [Adders -> AdderState] /\ next \in Pointers
      /\ made \in [Clients -> 0..RootSet] /\ Listed \in SUBSET Clients
  BY ListedFacts DEF Known, LinkInv, LinkTypeOK, AdderState, UploadTypeOK, Adders
<1>1. ASSUME UNCHANGED <<list, next, del>>, \A c \in Clients : made'[c] = RootSet => made[c] = RootSet
      PROVE  \A c \in Clients : InUse(c)' => c \in Listed'
  BY <1>1, LiveSame DEF InUse
<1>2. CASE \/ \E v \in Servers : AddStart(a, v)
           \/ \E c \in Clients : AddCreate(a, c)
           \/ AddWalk(a) \/ AddDecide(a) \/ AddRefuse(a) \/ AddUsesFreed(a)
  <2>1. UNCHANGED <<list, next, del, made>>
    BY <1>2 DEF AddStart, AddCreate, CreatePermanent, CreateRequested, tcp_client_create, AddWalk,
                AddDecide, AddRefuse, AddUsesFreed, UseAfterFree, uploadVars
  <2> QED BY <1>1, <2>1
<1>3. CASE AddInit(a)
  <2> DEFINE c == adder[a].new
  <2>1. UNCHANGED <<list, next, del>> /\ (ConnectSend(c) \/ SetUserCbk(c))
    BY <1>3 DEF AddInit, listVars
  <2>2. c \in Clients
    BY <1>3 DEF AddInit, Known, LinkInv, AdderInv
  <2> HIDE DEF c
  <2>3. \A d \in Clients : made'[d] = RootSet => made[d] = RootSet
    BY <1>0, <2>1, <2>2 DEF ConnectSend, SetUserCbk, UserSet, RootSet
  <2> QED BY <1>1, <2>1, <2>3
<1>4. CASE AddFails(a)
  <2>1. a = "udp" /\ adder[a].pc = "create" /\ UNCHANGED <<made, del>>
    BY <1>0, <1>4 DEF AddFails, uploadVars
  <2>2. adder[a].at \in Listed /\ next[adder[a].at] = NoClient
    BY <2>1 DEF AddSound, Counts
  <2>3. list' = list /\ next' = [next EXCEPT ![adder[a].at] = NoClient]
    BY <1>0, <1>4, <2>2 DEF AddFails
  <2>4. next' = next
    BY <1>0, <2>2, <2>3 DEF Pointers
  <2> QED BY <1>1, <2>1, <2>3, <2>4
<1>5. CASE AddLink(a) /\ a = "main"
  <2> DEFINE c == adder[a].new
  <2>1. /\ ~started /\ adder[a].at = NoClient /\ \A d \in Clients : made[d] # RootSet
    BY <1>5 DEF AddLink, Known, HeadInv
  <2>2. c \in Clients /\ list' = c /\ next' = next /\ made' = [made EXCEPT ![c] = RootSet]
    BY <1>5, <2>1 DEF AddLink, SetRoot, Known, LinkInv, AdderInv
  <2>3. c \in Listed'
    BY <1>0, <2>2, FromFacts DEF Listed
  <2> QED BY <1>0, <2>1, <2>2, <2>3 DEF InUse
<1>6. CASE AddLink(a) /\ a = "udp"
  <2> DEFINE c == adder[a].new
  <2>1. made' = [made EXCEPT ![c] = RootSet] /\ del' = del /\ Listed' = Listed \cup {c}
    BY <1>6, LinkedGrows
  <2> QED BY <1>0, <2>1 DEF InUse
<1> QED BY <1>0, <1>2, <1>3, <1>4, <1>5, <1>6 DEF eth_link_add_tcp_client_list

\* A removal from the second place takes out its own connection and no other.
LEMMA DelLive ==
  ASSUME Known, WalksEnd, ListSound, DelSound, \A d \in Clients : InUse(d) => d \in Listed,
         NEW c \in Clients, eth_link_del_tcp_client_list(c), ~(DropsOthers(c) /\ del'[c] = Unlinked)
  PROVE  \A d \in Clients : InUse(d)' => d \in Listed'
<1> USE UploadAssumption
<1>0. /\ next \in Pointers /\ made \in [Clients -> 0..RootSet] /\ Listed \in SUBSET Clients
      /\ del \in [Clients -> [pc : {"start", "walk", "free"}, last : Clients \cup {NoClient},
                              at : Clients \cup {NoClient}]]
  BY ListedFacts DEF Known, LinkInv, LinkTypeOK, UploadTypeOK
<1>1. Unlinking(c) /\ started /\ list = permanent /\ permanent \in Clients /\ c # permanent
  <2>1. Unlinking(c)
    BY DEF eth_link_del_tcp_client_list, DelStart, DelWalk, DelUnlink, DelNotFound, DelUsesFreed,
           DelFree, FreeClient, Unlinking
  <2> QED BY <2>1 DEF Unlinking, Known, HeadInv, LifeInv, UploadTypeOK
<1>2. ASSUME UNCHANGED <<list, next, made>>, \A d \in Clients : d # c => del'[d] = del[d],
             del[c].pc = "free" => del'[c].pc = "free"
      PROVE  \A d \in Clients : InUse(d)' => d \in Listed'
  BY <1>2, LiveSame DEF InUse
<1>3. CASE DelStart(c) \/ DelWalk(c) \/ DelNotFound(c) \/ DelUsesFreed(c)
  <2>1. UNCHANGED <<list, next, made>> /\ \A d \in Clients : d # c => del'[d] = del[d]
    BY <1>0, <1>1, <1>3 DEF DelStart, DelWalk, DelNotFound, DelUsesFreed, UseAfterFree, uploadVars
  <2>2. del[c].pc # "free"
    BY <1>3 DEF DelStart, DelWalk, DelNotFound, DelUsesFreed
  <2> QED BY <1>2, <2>1, <2>2
<1>4. CASE DelUnlink(c)
  <2>1. /\ UNCHANGED <<list, made>> /\ del[c].last = permanent /\ del'[c].pc = "free"
        /\ next' = [next EXCEPT ![list] = next[c]] /\ \A d \in Clients : d # c => del'[d] = del[d]
    BY <1>0, <1>1, <1>4 DEF DelUnlink, Unlinked, uploadVars, Known, HeadInv
  <2>2. next[list] = c
    <3>1. del'[c] = Unlinked
      BY <1>0, <1>4 DEF DelUnlink
    <3> QED BY <1>1, <1>4, <2>1, <3>1 DEF DropsOthers, DelUnlink
  <2>3. next' \in Pointers /\ next[c] \in Clients \cup {NoClient}
    BY <1>0, <1>1, <2>1 DEF Pointers
  <2>4. Listed = {list} \cup From(next, c) /\ list \notin From(next, c)
    BY <1>0, <1>1, <2>2, FromStep, FromEnds DEF Listed
  <2>5. From(next, c) = {c} \cup From(next, next[c])
    BY <1>0, FromStep
  <2>6. From(next', next[c]) = From(next, next[c])
    <3>1. \A d \in From(next, next[c]) : next'[d] = next[d]
      BY <1>0, <2>1, <2>4, <2>5 DEF Pointers, Listed
    <3> QED BY <1>0, <2>3, <3>1, FromSame
  <2>7. Listed' = {list} \cup From(next', next[c])
    <3>1. next'[list] = next[c] /\ list' = list
      BY <1>0, <1>1, <2>1 DEF Pointers
    <3>2. From(next', list) = {list} \cup From(next', next'[list])
      BY <1>1, <2>3, FromStep
    <3> QED BY <3>1, <3>2 DEF Listed
  <2>8. Listed' = Listed \ {c}
    <3>1. c \notin From(next, next[c]) /\ c # list
      BY <1>0, <1>1, FromEnds
    <3> QED BY <2>4, <2>5, <2>6, <2>7, <3>1
  <2> QED BY <2>1, <2>8 DEF InUse
<1>5. CASE DelFree(c)
  <2>1. /\ list' = list /\ del[c].pc = "free" /\ del' = [del EXCEPT ![c] = NoDel]
        /\ next' = [next EXCEPT ![c] = NoClient] /\ made' = [made EXCEPT ![c] = 0]
    BY <1>5 DEF DelFree, FreeClient
  <2>2. c \notin Listed /\ next' \in Pointers
    BY <1>0, <2>1 DEF DelSound, Pointers
  <2>3. Listed' = Listed
    <3>1. \A d \in Listed : next'[d] = next[d]
      BY <1>0, <2>1, <2>2 DEF Pointers
    <3>2. From(next', list) = From(next, list)
      BY <1>0, <1>1, <2>2, <3>1, FromSame DEF Listed
    <3> QED BY <2>1, <3>2 DEF Listed
  <2>4. 0 # RootSet
    BY DEF RootSet
  <2> QED BY <1>0, <2>1, <2>3, <2>4 DEF InUse
<1> QED BY <1>3, <1>4, <1>5 DEF eth_link_del_tcp_client_list

LEMMA LiveStep ==
  ASSUME Known, WalksEnd, SoundInv, LiveInv, [LinkNext]_linkVars
  PROVE  LiveInv'
<1> SUFFICES ASSUME ~overlap', ~dropped' PROVE \A c \in Clients : InUse(c)' => c \in Listed'
  BY DEF LiveInv
<1>1. CASE UNCHANGED linkVars
  BY <1>1 DEF linkVars, listVars, uploadVars, LiveInv, InUse, Listed
<1>2. CASE LinkNext
  <2>1. ~overlap /\ ~dropped /\ \A c \in Clients : ~(DropsOthers(c) /\ del'[c] = Unlinked)
    BY <1>2, NoOverlap, Zenon DEF LinkNext
  <2>2. ListSound /\ AddSound /\ DelSound /\ \A c \in Clients : InUse(c) => c \in Listed
    BY <2>1 DEF SoundInv, LiveInv
  <2>3. ASSUME UNCHANGED listVars, UNCHANGED made
        PROVE  \A c \in Clients : InUse(c)' => c \in Listed'
    BY <2>2, <2>3 DEF listVars, InUse, Listed
  <2>4. ASSUME NEW c \in Clients, eth_link_del_tcp_client_list(c)
        PROVE  \A d \in Clients : InUse(d)' => d \in Listed'
    BY <2>1, <2>2, <2>4, DelLive
  <2>5. ASSUME \/ \E c \in Clients : tcp_client_task(c)
               \/ \E s \in Senders : alink_upload_send_package(s),
               UNCHANGED listVars
        PROVE  \A c \in Clients : InUse(c)' => c \in Listed'
    BY <2>3, <2>5, ElsewhereUnchanged
  <2>6. ASSUME NEW a \in Adders, eth_link_add_tcp_client_list(a)
        PROVE  \A c \in Clients : InUse(c)' => c \in Listed'
    BY <2>2, <2>6, AddLive
  <2> QED BY <1>2, <2>4, <2>5, <2>6 DEF LinkNext
<1> QED BY <1>1, <1>2

\* No addition and no removal that has the list to itself loses a connection in use from
\* it, but for removals at the third place or later; until then no server has two.
THEOREM LiveStayListed == LinkSpec => []LiveAreListed
<1>1. UploadInv => UploadTypeOK /\ LifeInv
  BY DEF UploadInv
<1>2. LinkSpec => UploadSpec
  BY LinkIsUpload
<1>3. LinkInv /\ UploadInv /\ HeadInv /\ [LinkNext]_linkVars => HeadInv'
  BY <1>1, HeadStep DEF Known
<1>4. LinkInv /\ UploadInv /\ HeadInv /\ WalksEnd /\ SoundInv /\ [LinkNext]_linkVars => SoundInv'
  BY <1>1, SoundStep DEF Known
<1>5. LinkInv /\ UploadInv /\ HeadInv /\ WalksEnd /\ SoundInv /\ LiveInv /\ [LinkNext]_linkVars => LiveInv'
  BY <1>1, LiveStep DEF Known
<1>6. SoundInv /\ LiveInv => LiveAreListed
  <2> SUFFICES ASSUME SoundInv, LiveInv, ~overlap, ~dropped
               PROVE  /\ \A c \in Clients : Live(c) => c \in Listed
                      /\ \A c, d \in Clients : Live(c) /\ Live(d) /\ c # d => cfg[c] # cfg[d]
    BY DEF LiveAreListed
  <2>1. \A c \in Clients : Live(c) => c \in Listed
    BY DEF LiveInv, Live, InUse
  <2> QED BY <2>1 DEF SoundInv, ListSound
<1>7. LinkInit => LiveInv
  BY UploadAssumption DEF LinkInit, UploadInit, LiveInv, InUse, RootSet
<1> QED BY <1>2, <1>3, <1>4, <1>5, <1>6, <1>7, LinkInitInv, LinkStepInv, LinkInitHead, LinkInitSound,
           UploadInvariant, WalksAlwaysEnd, PTL DEF LinkSpec
=============================================================================

