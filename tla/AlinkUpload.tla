---------------------------- MODULE AlinkUpload ----------------------------
(***************************************************************************)
(* The upload of messages to the connected servers: the send lists of      *)
(* alink_upload.c and alink_package.c, the connections that subscribe to   *)
(* them (c2_network.c) and the thread of each connection (tcp_client.c).   *)
(*                                                                         *)
(* A client is the address of an eth_link_tcp_client_list_t together with  *)
(* the c2_network_t created for it; malloc may hand out a freed address    *)
(* again.  Its thread runs from tcp_client_create on, while the creator    *)
(* still subscribes the context to one message after the other; on its way *)
(* out the thread unsubscribes it the same way, then frees both.  The send *)
(* list of a message is a sequence: every change to it is made under the   *)
(* upload mutex, and a context is linked into a list at most once.         *)
(*                                                                         *)
(* The process ends when a thread frees a connection its creator has not   *)
(* finished (psRoot is still NULL), and when send() meets a connection the *)
(* peer has reset (SIGPIPE is not ignored).  After that nothing moves.     *)
(***************************************************************************)
EXTENDS Integers, Sequences, SequencesExt

CONSTANTS Clients,       \* addresses of connections
          NoClient,      \* NULL
          Senders,       \* threads that upload: heartbeat, tracker, ...
          NoSender,      \* the upload mutex is free
          MessageCount,  \* message ids a connection subscribes to (six)
          ConnectTime    \* failed connects after which a client gives up

ASSUME UploadAssumption ==
  /\ NoClient \notin Clients
  /\ NoSender \notin Senders
  /\ MessageCount \in Nat \ {0}
  /\ ConnectTime \in Nat \ {0}

VARIABLES thread,     \* state of tcp_client_task, "none" when freed
          made,       \* subscriptions made; then psUserCbk set, psRoot set
          left,       \* subscriptions withdrawn by c2_network_cbk_delete
          fails,      \* uConnectCount
          permanent,  \* the connection of eth_link_add_type (wConnectTime 0)
          started,    \* c2_network_init has returned
          subs,       \* psSendList of each message
          mutex,      \* owner of the upload mutex
          sender,     \* progress of alink_upload_send_package per thread
          dead        \* the process is gone

uploadVars == <<thread, made, left, fails, permanent, started, subs, mutex,
                sender, dead>>

Messages == 1..MessageCount
UserSet  == MessageCount + 1   \* value of made once psUserCbk is assigned
RootSet  == MessageCount + 2   \* value of made once psRoot is assigned

\* An upload of message m that stands at element c of the list.
Upload(pc, m, c) == [pc |-> pc, msg |-> m, at |-> c]
Idle == Upload("idle", 1, NoClient)

UploadInit ==
  /\ thread = [c \in Clients |-> "none"]
  /\ made   = [c \in Clients |-> 0]
  /\ left   = [c \in Clients |-> 0]
  /\ fails  = [c \in Clients |-> 0]
  /\ permanent = NoClient
  /\ started = FALSE
  /\ subs   = [m \in Messages |-> <<>>]
  /\ mutex  = NoSender
  /\ sender = [s \in Senders |-> Idle]
  /\ dead   = FALSE

-----------------------------------------------------------------------------
(***************************************************************************)
(* Send lists.                                                             *)
(***************************************************************************)
\* alink_package_connect_send: to the end, unless it is in the list already.
alink_package_connect_send(list, c) ==
  IF Contains(list, c) THEN list ELSE Append(list, c)

\* Mutant: the elements behind the one taken out are lost.
DisconnectCuts(list, c) ==
  IF ~Contains(list, c) THEN list
  ELSE SubSeq(list, 1, (CHOOSE j \in DOMAIN list : list[j] = c) - 1)

\* alink_package_disconnect_send: taking out the first element empties the list.
alink_package_disconnect_send(list, c) ==
  IF ~Contains(list, c) THEN list
  ELSE LET i == CHOOSE j \in DOMAIN list : list[j] = c
       IN  IF i = 1 THEN <<>> ELSE RemoveAt(list, i)

\* psSendList->psNext of an element of a list.
psNext(list, c) ==
  LET i == CHOOSE j \in DOMAIN list : list[j] = c
  IN  IF i = Len(list) THEN NoClient ELSE list[i + 1]

-----------------------------------------------------------------------------
(***************************************************************************)
(* Creation of a connection: eth_link_create_tcp_client_list starts the    *)
(* thread, then c2_network_create subscribes to each message in turn.      *)
(***************************************************************************)
tcp_client_create(c) ==
  /\ ~dead
  /\ thread[c] = "none"
  /\ thread' = [thread EXCEPT ![c] = "connecting"]
  /\ UNCHANGED <<made, left, fails, subs, mutex, sender, dead>>

\* The connection eth_link_add_type makes: wConnectTime is 0.
CreatePermanent(c) ==
  /\ permanent = NoClient /\ ~started
  /\ permanent' = c
  /\ tcp_client_create(c)
  /\ UNCHANGED started

\* eth_link_add_type goes without: no socket or no thread is to be had.
NoPermanent ==
  /\ ~dead
  /\ permanent = NoClient /\ ~started
  /\ started' = TRUE
  /\ UNCHANGED <<thread, made, left, fails, permanent, subs, mutex, sender, dead>>

\* A connection a server asked for: wConnectTime is ConnectTime.
CreateRequested(c) ==
  /\ tcp_client_create(c)
  /\ UNCHANGED <<permanent, started>>

ConnectSend(c) ==
  /\ ~dead
  /\ thread[c] # "none" /\ made[c] < MessageCount
  /\ mutex = NoSender
  /\ subs' = [subs EXCEPT ![made[c] + 1] = alink_package_connect_send(@, c)]
  /\ made' = [made EXCEPT ![c] = @ + 1]
  /\ UNCHANGED <<thread, left, fails, permanent, started, mutex, sender, dead>>

SetUserCbk(c) ==
  /\ ~dead
  /\ thread[c] # "none" /\ made[c] = MessageCount
  /\ made' = [made EXCEPT ![c] = UserSet]
  /\ UNCHANGED <<thread, left, fails, permanent, started, subs, mutex, sender, dead>>

SetRoot(c) ==
  /\ ~dead
  /\ thread[c] # "none" /\ made[c] = UserSet
  /\ made' = [made EXCEPT ![c] = RootSet]
  /\ started' = (started \/ c = permanent)
  /\ UNCHANGED <<thread, left, fails, permanent, subs, mutex, sender, dead>>

-----------------------------------------------------------------------------
(***************************************************************************)
(* The thread of a connection.                                             *)
(***************************************************************************)
wConnectTime(c) == IF c = permanent THEN 0 ELSE ConnectTime

Connected(c) ==
  /\ ~dead
  /\ thread[c] = "connecting"
  /\ thread' = [thread EXCEPT ![c] = "connected"]
  /\ fails'  = [fails EXCEPT ![c] = 0]
  /\ UNCHANGED <<made, left, permanent, started, subs, mutex, sender, dead>>

Disconnected(c) ==
  /\ ~dead
  /\ thread[c] = "connected"
  /\ thread' = [thread EXCEPT ![c] = "connecting"]
  /\ UNCHANGED <<made, left, fails, permanent, started, subs, mutex, sender, dead>>

ConnectFails(c) ==
  /\ ~dead
  /\ thread[c] = "connecting"
  /\ wConnectTime(c) > fails[c] + 1
  /\ fails' = [fails EXCEPT ![c] = @ + 1]
  /\ UNCHANGED <<thread, made, left, permanent, started, subs, mutex, sender, dead>>

\* The last connect fails (four seconds and more after the first, long after
\* start-up): the socket is closed and the delete callback runs.
\* A creator still in c2_network_create leaves it nothing to unsubscribe and a
\* NULL psRoot to follow.
GivesUp(c) ==
  /\ ~dead
  /\ thread[c] = "connecting" /\ started
  /\ wConnectTime(c) # 0 /\ wConnectTime(c) <= fails[c] + 1
  /\ IF made[c] >= UserSet
     THEN thread' = [thread EXCEPT ![c] = "deleting"] /\ UNCHANGED dead
     ELSE dead' = TRUE /\ UNCHANGED thread
  /\ UNCHANGED <<made, left, fails, permanent, started, subs, mutex, sender>>

\* Mutant: the list is changed without the mutex.
DisconnectUnlocked(c) ==
  /\ ~dead
  /\ thread[c] = "deleting" /\ left[c] < MessageCount
  /\ subs' = [subs EXCEPT ![left[c] + 1] = alink_package_disconnect_send(@, c)]
  /\ left' = [left EXCEPT ![c] = @ + 1]
  /\ UNCHANGED <<thread, made, fails, permanent, started, mutex, sender, dead>>

DisconnectSend(c) ==
  /\ ~dead
  /\ thread[c] = "deleting" /\ left[c] < MessageCount
  /\ mutex = NoSender
  /\ subs' = [subs EXCEPT ![left[c] + 1] = alink_package_disconnect_send(@, c)]
  /\ left' = [left EXCEPT ![c] = @ + 1]
  /\ UNCHANGED <<thread, made, fails, permanent, started, mutex, sender, dead>>

\* Mutant: the last message is forgotten.
FreeNetworkEarly(c) ==
  /\ ~dead
  /\ thread[c] = "deleting" /\ left[c] = MessageCount - 1
  /\ thread' = [thread EXCEPT ![c] = "unlinking"]
  /\ UNCHANGED <<made, left, fails, permanent, started, subs, mutex, sender, dead>>

FreeNetwork(c) ==
  /\ ~dead
  /\ thread[c] = "deleting" /\ left[c] = MessageCount
  /\ thread' = [thread EXCEPT ![c] = "unlinking"]
  /\ UNCHANGED <<made, left, fails, permanent, started, subs, mutex, sender, dead>>

\* eth_link_del_tcp_client_list follows psRoot ...
RootMissing(c) ==
  /\ ~dead
  /\ thread[c] = "unlinking" /\ made[c] # RootSet
  /\ dead' = TRUE
  /\ UNCHANGED <<thread, made, left, fails, permanent, started, subs, mutex, sender>>

\* ... takes the connection out of the list and frees it.
FreeClient(c) ==
  /\ ~dead
  /\ thread[c] = "unlinking" /\ made[c] = RootSet
  /\ thread' = [thread EXCEPT ![c] = "none"]
  /\ made'   = [made EXCEPT ![c] = 0]
  /\ left'   = [left EXCEPT ![c] = 0]
  /\ fails'  = [fails EXCEPT ![c] = 0]
  /\ UNCHANGED <<permanent, started, subs, mutex, sender, dead>>

-----------------------------------------------------------------------------
(***************************************************************************)
(* alink_upload_send_package.                                              *)
(***************************************************************************)
\* The list is tested before the mutex is taken.
UploadPackage(s, m) ==
  /\ ~dead
  /\ sender[s].pc = "idle"
  /\ subs[m] # <<>>
  /\ sender' = [sender EXCEPT ![s] = Upload("locking", m, NoClient)]
  /\ UNCHANGED <<thread, made, left, fails, permanent, started, subs, mutex, dead>>

UploadLock(s) ==
  /\ ~dead
  /\ sender[s].pc = "locking"
  /\ mutex = NoSender
  /\ mutex' = s
  /\ LET list == subs[sender[s].msg]
         head == IF list = <<>> THEN NoClient ELSE list[1]
     IN  sender' = [sender EXCEPT ![s] = Upload("walking", @.msg, head)]
  /\ UNCHANGED <<thread, made, left, fails, permanent, started, subs, dead>>

\* Mutant: an unconnected client is not passed over.
SendToStuck(s) ==
  /\ ~dead
  /\ sender[s].pc = "walking" /\ sender[s].at # NoClient
  /\ thread[sender[s].at] = "connected"
  /\ sender' = [sender EXCEPT ![s] = Upload("sending", @.msg, @.at)]
  /\ UNCHANGED <<thread, made, left, fails, permanent, started, subs, mutex, dead>>

\* tcp_client_send tests bFlagConnect before it takes the client's mutex.
SendTo(s) ==
  /\ ~dead
  /\ sender[s].pc = "walking" /\ sender[s].at # NoClient
  /\ IF thread[sender[s].at] = "connected"
     THEN sender' = [sender EXCEPT ![s] = Upload("sending", @.msg, @.at)]
     ELSE sender' = [sender EXCEPT ![s] = Upload("walking", @.msg, psNext(subs[@.msg], @.at))]
  /\ UNCHANGED <<thread, made, left, fails, permanent, started, subs, mutex, dead>>

\* send returns, at the latest after its 500 ms timeout.
Sent(s) ==
  /\ ~dead
  /\ sender[s].pc = "sending"
  /\ sender' = [sender EXCEPT ![s] = Upload("walking", @.msg, psNext(subs[@.msg], @.at))]
  /\ UNCHANGED <<thread, made, left, fails, permanent, started, subs, mutex, dead>>

\* The connection was reset after bFlagConnect was tested: SIGPIPE.
SendKilled(s) ==
  /\ ~dead
  /\ sender[s].pc = "sending"
  /\ dead' = TRUE
  /\ UNCHANGED <<thread, made, left, fails, permanent, started, subs, mutex, sender>>

UploadUnlock(s) ==
  /\ ~dead
  /\ sender[s].pc = "walking" /\ sender[s].at = NoClient
  /\ mutex'  = NoSender
  /\ sender' = [sender EXCEPT ![s] = Idle]
  /\ UNCHANGED <<thread, made, left, fails, permanent, started, subs, dead>>

-----------------------------------------------------------------------------
Creator(c) == ConnectSend(c) \/ SetUserCbk(c) \/ SetRoot(c)

tcp_client_task(c) ==
  \/ Connected(c)      \/ Disconnected(c) \/ ConnectFails(c) \/ GivesUp(c)
  \/ DisconnectSend(c) \/ FreeNetwork(c)  \/ RootMissing(c)

alink_upload_send_package(s) ==
  \/ \E m \in Messages : UploadPackage(s, m)
  \/ UploadLock(s) \/ SendTo(s) \/ Sent(s) \/ SendKilled(s) \/ UploadUnlock(s)

UploadNext ==
  \/ NoPermanent
  \/ \E c \in Clients : \/ CreatePermanent(c) \/ CreateRequested(c)
                        \/ Creator(c) \/ tcp_client_task(c) \/ FreeClient(c)
  \/ \E s \in Senders : alink_upload_send_package(s)

UploadSpec == UploadInit /\ [][UploadNext]_uploadVars

\* A thread that can go on does, send() returns, and the mutex is not taken
\* away from a waiter for ever: uploads are periodic and leave it free between.
UploadFairness ==
  /\ \A c \in Clients :
       /\ SF_uploadVars(ConnectSend(c))
       /\ SF_uploadVars(DisconnectSend(c))
       /\ WF_uploadVars(SetUserCbk(c) \/ SetRoot(c))
       /\ WF_uploadVars(FreeNetwork(c) \/ RootMissing(c) \/ FreeClient(c))
  /\ \A s \in Senders : WF_uploadVars(SendTo(s) \/ Sent(s) \/ UploadUnlock(s))

FairUploadSpec == UploadSpec /\ UploadFairness

-----------------------------------------------------------------------------
(***************************************************************************)
(* Properties.                                                             *)
(***************************************************************************)
\* Types; in particular a client gives up before it counts ConnectTime failures.
UploadTypeOK ==
  /\ thread \in [Clients -> {"none", "connecting", "connected", "deleting", "unlinking"}]
  /\ made   \in [Clients -> 0..RootSet]
  /\ left   \in [Clients -> 0..MessageCount]
  /\ fails  \in [Clients -> 0..(ConnectTime - 1)]
  /\ permanent \in Clients \cup {NoClient}
  /\ started \in BOOLEAN
  /\ subs   \in [Messages -> Seq(Clients)]
  /\ mutex  \in Senders \cup {NoSender}
  /\ sender \in [Senders -> [pc  : {"idle", "locking", "walking", "sending"},
                             msg : Messages,
                             at  : Clients \cup {NoClient}]]
  /\ dead   \in BOOLEAN

\* The connection is subscribed to m, and not yet on its way out of m.
Entitled(c, m) ==
  /\ thread[c] \in {"connecting", "connected", "deleting"}
  /\ made[c] >= m
  /\ left[c] < m

\* A send list never holds a freed connection, nor one whose delete callback
\* has withdrawn it: alink_upload.c walks the list without looking at the
\* connection's state, so a stale entry would be memory used after free.
SubscribersLive ==
  \A m \in Messages : \A i \in DOMAIN subs[m] : Entitled(subs[m][i], m)

\* The memory an upload is about to send through is not freed under it, although
\* the thread of the connection may give up at any moment.
SendsToLive ==
  \A s \in Senders : sender[s].pc \in {"walking", "sending"} /\ sender[s].at # NoClient
      => Entitled(sender[s].at, sender[s].msg)

Headed(m)   == subs[m] # <<>> /\ subs[m][1] = permanent
Complete(m) == \A c \in Clients : Entitled(c, m) => Contains(subs[m], c)

\* Once the permanent connection heads the list of a message it stays there, and
\* every connection gets that message until it leaves itself.  (Taking out the
\* head of a list drops all the others; the permanent connection never leaves.)
NobodyDropped == [][\A m \in Messages : Headed(m) => Headed(m)' /\ Complete(m)']_uploadVars

\* How many elements an upload that stands at c has ahead of it, at most: if c were
\* taken out under it nobody could say, and no list is longer than there are clients.
Ahead(q, c) == CASE c = NoClient -> 0
                 [] c # NoClient /\ Contains(q, c)
                    -> Len(q) + 1 - (CHOOSE j \in DOMAIN q : q[j] = c)
                 [] OTHER -> Cardinality(Clients) + 1

\* How many steps an upload that holds the mutex may still take, at most: a test and a
\* send for each element from where it stands, and the unlock.
UploadLeft(s) ==
  LET n == Ahead(subs[sender[s].msg], sender[s].at)
  IN  CASE sender[s].pc = "walking" -> 2 * n + 1
        [] sender[s].pc = "sending" -> 2 * n
        [] OTHER                    -> 0

\* An upload that has the mutex gives it back after a number of steps that the list
\* bounds: each of its steps brings it nearer to the end of the list, and neither a
\* subscription nor a connection on its way out makes the list longer or shorter under it.
UploadAdvances ==
  [][\A s \in Senders : mutex = s =>
       UploadLeft(s)' < UploadLeft(s) \/ UNCHANGED <<sender[s], subs>>]_uploadVars

\* A connection being subscribed gets all its subscriptions, and one that gave up
\* is freed, whatever the uploads do with the mutex (unless the process dies).
WaitersServed ==
  \A c \in Clients :
    /\ thread[c] # "none" /\ made[c] < RootSet ~> made[c] = RootSet \/ dead
    /\ thread[c] = "deleting" ~> thread[c] = "none" \/ dead
=============================================================================
