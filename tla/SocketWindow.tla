---------------------------- MODULE SocketWindow ----------------------------
(* The helper window of CAsyncSocketEx: one hidden window per thread takes *)
(* the events of every socket of the thread as messages.  A message names  *)
(* its socket by the slot of a table, and by the socket handle (events of  *)
(* Winsock), the address of the object (events of a layer) or the handle   *)
(* of a name lookup.  All of these are used again after the socket they    *)
(* belonged to is gone, and messages wait in a queue meanwhile.            *)
EXTENDS Integers, FiniteSets, FiniteSetsExt

CONSTANTS Objects,  \* addresses of socket objects
          Handles,  \* socket handles of Windows
          Lookups,  \* handles of WSAAsyncGetHostByName
          Size,     \* slots of a new table (512) and by how much it grows
          Margin,   \* free slots a table always keeps (10)
          Waiting,  \* messages that wait together (bound)
          Reaches   \* bounds of a behaviour: objects, lookups, sockets made

VARIABLES reach,    \* the bounds of this behaviour
          sock,     \* object -> its fields; life is a ghost that numbers sockets
          table,    \* slot -> object or None
          place,    \* m_nWindowDataPos
          held,     \* m_nSocketCount
          members,  \* nInstanceCount of the thread
          queue,    \* messages of the window
          asked,    \* lookups Windows is working on: lookup -> life
          adds,     \* ghost: sockets added so far
          mixed,    \* ghost: a message reached another socket than its own too soon
          dropped,  \* ghost: a message of an open socket was dropped
          strayed   \* ghost: the answer of a lookup reached another socket

windowVars == <<reach, sock, table, place, held, members, queue, asked, adds, mixed, dropped, strayed>>

None == "none"
Fresh == [there |-> FALSE, joined |-> FALSE, handle |-> None, slot |-> -1, layered |-> FALSE,
          selected |-> FALSE, lookup |-> None, buffer |-> FALSE, life |-> 0, since |-> 0]

Slots == DOMAIN table
Open(o) == sock[o].handle # None

WindowInit ==
  /\ reach \in Reaches
  /\ sock = [o \in Objects |-> Fresh] /\ table = <<>> /\ place = 0 /\ held = 0 /\ members = 0
  /\ queue = {} /\ asked = <<>> /\ adds = 0
  /\ mixed = FALSE /\ dropped = FALSE /\ strayed = FALSE

(* The constructor, and a proxy layer put under the object before it has a *)
(* socket.                                                                 *)
New(o) ==
  /\ ~sock[o].there /\ o \in reach.objects /\ adds < reach.most
  /\ \E layered \in BOOLEAN : sock' = [sock EXCEPT ![o] = [Fresh EXCEPT !.there = TRUE, !.layered = layered]]
  /\ UNCHANGED <<reach, table, place, held, members, queue, asked, adds, mixed, dropped, strayed>>

(* InitAsyncSocketExInstance: the first object of the thread makes the     *)
(* window with an empty table.                                             *)
Joined(o) == sock[o].joined
TableOf(o) == IF ~Joined(o) /\ members = 0 THEN [i \in 0 .. Size - 1 |-> None] ELSE table
PlaceOf(o) == IF ~Joined(o) /\ members = 0 THEN 0 ELSE place
HeldOf(o)  == IF ~Joined(o) /\ members = 0 THEN 0 ELSE held
InitAsyncSocketExInstance(o) == members' = IF Joined(o) THEN members ELSE members + 1

(* AddSocket: the table grows while it still has Margin free slots, and    *)
(* the search starts behind the slot given out last.                       *)
Grown(t, n) ==
  IF n >= Cardinality(DOMAIN t) - Margin
  THEN [i \in 0 .. Cardinality(DOMAIN t) + Size - 1 |-> IF i \in DOMAIN t THEN t[i] ELSE None]
  ELSE t
Behind(t, from, i) == (i - from) % Cardinality(DOMAIN t)
FreeSlotFirst(t, from) == Min({i \in DOMAIN t : t[i] = None})   \* mutant: not behind the last one
FreeSlot(t, from) ==
  CHOOSE i \in DOMAIN t : t[i] = None /\ \A j \in DOMAIN t : t[j] = None => Behind(t, from, i) <= Behind(t, from, j)
AddSocket(o, t, from, n) ==
  /\ table' = [t EXCEPT ![FreeSlot(t, from)] = o]
  /\ place' = (FreeSlot(t, from) + 1) % Cardinality(DOMAIN t)
  /\ held' = n + 1
  /\ adds' = adds + 1

(* Windows gives out any handle that is not open.                          *)
Unused == {h \in Handles : \A o \in Objects : sock[o].handle # h}

(* Create, Attach and Accept: the socket gets a slot; what Create and      *)
(* CreateNext do after that (select the events, bind) may fail, which      *)
(* closes the socket again.  A failed socket() leaves the object joined.   *)
Take(o, h, selected) ==
  /\ sock[o].there /\ ~Open(o) /\ adds < reach.most
  /\ InitAsyncSocketExInstance(o)
  /\ AddSocket(o, Grown(TableOf(o), HeldOf(o)), PlaceOf(o), HeldOf(o))
  /\ sock' = [sock EXCEPT ![o] = [@ EXCEPT !.joined = TRUE, !.handle = h, !.selected = selected,
                                          !.slot = FreeSlot(Grown(TableOf(o), HeldOf(o)), PlaceOf(o)),
                                          !.life = adds + 1, !.since = adds + 1]]
Create(o) ==
  /\ \E h \in Unused : Take(o, h, TRUE)
  /\ UNCHANGED <<reach, queue, asked, mixed, dropped, strayed>>
Attach(o) ==
  /\ ~sock[o].layered /\ \E h \in Unused, selected \in BOOLEAN : Take(o, h, selected)
  /\ UNCHANGED <<reach, queue, asked, mixed, dropped, strayed>>
CreateNoSocket(o) ==
  /\ sock[o].there /\ ~Open(o) /\ ~Joined(o)
  /\ InitAsyncSocketExInstance(o)
  /\ table' = TableOf(o) /\ place' = PlaceOf(o) /\ held' = HeldOf(o)
  /\ sock' = [sock EXCEPT ![o].joined = TRUE]
  /\ UNCHANGED <<reach, queue, asked, adds, mixed, dropped, strayed>>
(* AsyncSelect of a socket that was accepted without events.               *)
AsyncSelect(o) ==
  /\ Open(o) /\ ~sock[o].selected
  /\ sock' = [sock EXCEPT ![o].selected = TRUE]
  /\ UNCHANGED <<reach, table, place, held, members, queue, asked, adds, mixed, dropped, strayed>>

(* DetachHandle and RemoveSocket; Close also lets go of the layers and of  *)
(* a lookup, which WSACancelAsyncRequest stops unless it has answered.     *)
RemoveSocket(o, t) == IF sock[o].slot = -1 THEN t ELSE [t EXCEPT ![sock[o].slot] = None]
Detached(o) == IF Open(o) THEN RemoveSocket(o, table) ELSE table
HeldWithout(o) == IF Open(o) THEN held - 1 ELSE held
Closed(o) == [sock[o] EXCEPT !.handle = None, !.slot = -1, !.layered = FALSE, !.selected = FALSE,
                             !.lookup = None, !.buffer = FALSE]
Cancelled(o) == [l \in DOMAIN asked \ {sock[o].lookup} |-> asked[l]]
Close(o) ==
  /\ sock[o].there /\ (Open(o) \/ sock[o].buffer)
  /\ sock' = [sock EXCEPT ![o] = Closed(o)]
  /\ table' = Detached(o) /\ held' = HeldWithout(o) /\ asked' = Cancelled(o)
  /\ UNCHANGED <<reach, place, members, queue, adds, mixed, dropped, strayed>>

(* The destructor: Close and FreeAsyncSocketExInstance.  The last object   *)
(* of the thread destroys the window with what it has not yet dispatched.  *)
FreeAsyncSocketExInstance(o) == members' = IF Joined(o) THEN members - 1 ELSE members
Delete(o) ==
  /\ sock[o].there
  /\ sock' = [sock EXCEPT ![o] = Fresh]
  /\ FreeAsyncSocketExInstance(o)
  /\ asked' = Cancelled(o)
  /\ IF Joined(o) /\ members = 1
     THEN table' = <<>> /\ place' = 0 /\ held' = 0 /\ queue' = {}
     ELSE table' = Detached(o) /\ held' = HeldWithout(o) /\ UNCHANGED <<place, queue>>
  /\ UNCHANGED <<reach, adds, mixed, dropped, strayed>>

(* What is put into the queue.  life and since are ghosts.                 *)
Notice(o)  == [kind |-> "notify", slot |-> sock[o].slot, handle |-> sock[o].handle, object |-> None,
               life |-> sock[o].life, since |-> sock[o].since]
Message(o) == [kind |-> "trigger", slot |-> sock[o].slot, handle |-> None, object |-> o,
               life |-> sock[o].life, since |-> sock[o].since]
Answer(l)  == [kind |-> "host", slot |-> 0, handle |-> l, object |-> None, life |-> asked[l], since |-> 0]
Put(m) == m \notin queue /\ Cardinality(queue) < Waiting /\ queue' = queue \cup {m}

(* Winsock reports an event of a selected socket.                          *)
Event(o) ==
  /\ Open(o) /\ sock[o].selected /\ Put(Notice(o))
  /\ UNCHANGED <<reach, sock, table, place, held, members, asked, adds, mixed, dropped, strayed>>
(* TriggerEvent: with layers an allocated message, without them the same   *)
(* notice Winsock posts.                                                   *)
TriggerEvent(o) ==
  /\ Open(o) /\ Put(IF sock[o].layered THEN Message(o) ELSE Notice(o))
  /\ UNCHANGED <<reach, sock, table, place, held, members, asked, adds, mixed, dropped, strayed>>

(* ConnectRawByName of a host name: the lookup answers with a message.     *)
(* When the lookup cannot be started the buffer stays until Close.         *)
Queued(l) == \E m \in queue : m.kind = "host" /\ m.handle = l
ConnectRawByName(o) ==
  /\ Open(o) /\ ~sock[o].buffer
  /\ \/ \E l \in reach.lookups \ DOMAIN asked :
          /\ ~Queued(l)
          /\ asked' = [x \in DOMAIN asked \cup {l} |-> IF x = l THEN sock[o].life ELSE asked[x]]
          /\ sock' = [sock EXCEPT ![o] = [@ EXCEPT !.buffer = TRUE, !.lookup = l]]
     \/ sock' = [sock EXCEPT ![o].buffer = TRUE] /\ UNCHANGED asked
  /\ UNCHANGED <<reach, table, place, held, members, queue, adds, mixed, dropped, strayed>>
Resolve(l) ==
  /\ l \in DOMAIN asked /\ Put(Answer(l))
  /\ asked' = [x \in DOMAIN asked \ {l} |-> asked[x]]
  /\ UNCHANGED <<reach, sock, table, place, held, members, adds, mixed, dropped, strayed>>

(* WindowProc finds the object a message is for, or nobody.                *)
OfSlot(i) == IF i \in Slots /\ table[i] # None THEN {table[i]} ELSE {}
ForNotice(m) == {o \in OfSlot(m.slot) : sock[o].handle = m.handle}
IsSocketValid(i, o) == table[i % Cardinality(Slots)] = o
ForMessage(m) == IF IsSocketValid(m.slot, m.object) /\ Open(m.object) THEN {m.object} ELSE {}
Asking(l) == {i \in Slots : table[i] # None /\ sock[table[i]].lookup = l}
ForAnswer(l) == IF Asking(l) = {} THEN {} ELSE {table[Min(Asking(l))]}
Alive(m) == \E o \in Objects : sock[o].life = m.life /\ Open(o)

(* A notice or a trigger is handed to the object found; what its handler   *)
(* does (read, close, delete itself) are actions of their own.             *)
Dispatch(m, found) ==
  /\ mixed' = (mixed \/ \E o \in found : sock[o].life # m.life /\ adds - m.since < Margin)
  /\ dropped' = (dropped \/ (found = {} /\ Alive(m)))
  /\ queue' = queue \ {m}
  /\ UNCHANGED <<reach, sock, table, place, held, members, asked, adds, strayed>>
OnNotify(m)  == m.kind = "notify" /\ Dispatch(m, ForNotice(m))
OnTrigger(m) == m.kind = "trigger" /\ Dispatch(m, ForMessage(m))

(* WM_SOCKETEX_GETHOST: an error goes to OnConnect, where every owner      *)
(* closes the socket; an address is connected to and the buffer freed.     *)
OnHost(m) ==
  /\ m.kind = "host" /\ queue' = queue \ {m}
  /\ strayed' = (strayed \/ \E o \in ForAnswer(m.handle) : sock[o].life # m.life)
  /\ \/ ForAnswer(m.handle) = {} /\ UNCHANGED <<sock, table, held, asked>>
     \/ \E o \in ForAnswer(m.handle) :
          \/ /\ sock' = [sock EXCEPT ![o] = [@ EXCEPT !.buffer = FALSE, !.lookup = None]]
             /\ UNCHANGED <<table, held, asked>>
          \/ /\ sock' = [sock EXCEPT ![o] = Closed(o)]
             /\ table' = Detached(o) /\ held' = HeldWithout(o) /\ asked' = Cancelled(o)
  /\ UNCHANGED <<reach, place, members, adds, mixed, dropped>>

WindowNext ==
  \/ \E o \in Objects : \/ New(o) \/ Create(o) \/ Attach(o) \/ CreateNoSocket(o) \/ AsyncSelect(o)
                        \/ Close(o) \/ Delete(o) \/ Event(o) \/ TriggerEvent(o) \/ ConnectRawByName(o)
  \/ \E l \in Lookups : Resolve(l)
  \/ \E m \in queue : OnNotify(m) \/ OnTrigger(m) \/ OnHost(m)

WindowSpec == WindowInit /\ [][WindowNext]_windowVars

-----------------------------------------------------------------------------
WindowTypeOK ==
  /\ \A o \in Objects : sock[o].slot \in {-1} \cup Slots /\ sock[o].lookup \in {None} \cup Lookups
  /\ place \in {0} \cup Slots /\ held \in 0 .. Cardinality(Objects) /\ members \in 0 .. Cardinality(Objects)
  /\ Cardinality(queue) <= Waiting
(* The table and the objects tell the same story: a slot holds the object  *)
(* that believes to be in it, an open socket has one, the count and the    *)
(* free slots are exact (AddSocket, RemoveSocket, DetachHandle).           *)
TableExact ==
  /\ \A o \in Objects : Open(o) <=> sock[o].slot # -1
  /\ \A i \in Slots, o \in Objects : table[i] = o <=> sock[o].slot = i
  /\ held = Cardinality({i \in Slots : table[i] # None})
  /\ members > 0 => held + Margin <= Cardinality(Slots)
(* The window lives exactly as long as an object of the thread uses it     *)
(* (InitAsyncSocketExInstance, FreeAsyncSocketExInstance).                 *)
WindowOutlives == members = Cardinality({o \in Objects : Joined(o)}) /\ (members = 0 <=> Slots = {})
(* A message never reaches a socket made after its own unless Margin other *)
(* sockets were made since its own got its slot, whatever handles and      *)
(* addresses Windows gives out again: that is what the search from         *)
(* m_nWindowDataPos is for.                                                *)
NotMixedUp == ~mixed
(* WindowProc drops only messages of sockets that are closed.              *)
NothingDropped == ~dropped
(* The answer of a lookup reaches the socket that asked, though Windows    *)
(* uses lookup handles again and a failed lookup keeps its handle until    *)
(* its socket is closed; a buffer belongs to an open socket.               *)
AnswersOwn == ~strayed /\ \A o \in Objects : sock[o].buffer => Open(o)

=============================================================================
