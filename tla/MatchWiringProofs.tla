------------------------- MODULE MatchWiringProofs -------------------------
(***************************************************************************)
(* Proofs about MatchActor: the channels between the match and its         *)
(* connections.  Wiring is inductive, given GraceInv, and implies          *)
(* NoSendOnClosed, NoConnAbandoned and EndReleasesAll.  With it each step  *)
(* of the match is one of MatchSeats, which MatchActor implements.         *)
(***************************************************************************)
EXTENDS MatchGraceProofs

(* How the connections move on in a handler, c excepted: whoever was       *)
(* answered keeps its state, and nobody else is admitted.                  *)
Kept(c) ==
  \A d \in Conns : d # c =>
    /\ conn[d] \in {"open", "blocked", "gone"} => conn'[d] = conn[d]
    /\ conn'[d] \in {"open", "blocked"} => conn'[d] = conn[d]

(* Draining the inbox answers joins, c with success, and moves no other.   *)
LEMMA KeptByDrain ==
  ASSUME TypeOK, NEW c, DrainInboxAfterEnd(c)
  PROVE  Kept(c) /\ (c \in Conns => conn'[c] = "open")
BY DEF DrainInboxAfterEnd, Kept, TypeOK

(* Answering c moves no other connection.                                  *)
LEMMA KeptByReply ==
  ASSUME TypeOK, NEW c \in Conns, NEW how \in {"open", "gone"}, Reply(c, how)
  PROVE  Kept(c) /\ conn'[c] = how
BY DEF Reply, Kept, TypeOK

(* The wiring of a handler that answers nobody, and of one that admits the *)
(* connection c to its slot.                                               *)
Before(o, j) ==
  /\ WiredTo(o, j, closed, conn') /\ Fed(o, closed, conn') /\ Shut(closed, sealed, conn')
  /\ sealed \cap j = {}

(* A handler that answers nobody starts from well-wired slots.             *)
LEMMA BeforeKept ==
  ASSUME TypeOK, Wiring, state # "ended", NEW c, c \notin Conns, Kept(c)
  PROVE  Before(out, joined)
<1>1. \A d \in Conns : /\ conn[d] \in {"open", "blocked", "gone"} => conn'[d] = conn[d]
                       /\ conn'[d] \in {"open", "blocked"} => conn'[d] = conn[d]
  BY DEF Kept
<1>2. /\ \A p \in Players : out[p] \in Conns \cup {None}
      /\ closed \subseteq Conns
  BY DEF TypeOK
<1> QED BY <1>1, <1>2 DEF Wiring, WiredTo, Fed, Shut, Before

(* Binding an unbound, unsealed slot to its own connection keeps it wired. *)
LEMMA BeforeAdmitted ==
  ASSUME TypeOK, Wiring, state # "ended", NEW c \in Conns, conn[c] = "joining",
         out[token[c]] = None, token[c] \notin sealed, conn'[c] = "open", Kept(c)
  PROVE  Before([out EXCEPT ![token[c]] = c], joined \cup {token[c]})
<1> DEFINE p == token[c]
           o == [out EXCEPT ![p] = c]
<1>1. p \in Players /\ out \in [Players -> Conns \cup {None}] /\ closed \subseteq Conns
  BY DEF TypeOK
<1>2. o[p] = c /\ \A q \in Players \ {p} : o[q] = out[q]  BY <1>1
<1>3. c \notin closed  BY DEF Wiring, Shut
<1>4. \A d \in Conns : d # c => token[d] \in Players  BY DEF TypeOK
<1>5. c # None  BY MatchAssumption
<1>6. WiredTo(o, joined \cup {p}, closed, conn')
  <2> SUFFICES ASSUME NEW q \in Players, o[q] # None
               PROVE  /\ q \in joined \cup {p} /\ o[q] \notin closed /\ token[o[q]] = q
                      /\ conn'[o[q]] \in {"open", "blocked", "gone"}
    BY DEF WiredTo
  <2>1. CASE q = p  BY <1>2, <1>3, <2>1
  <2>2. CASE q # p
    <3>1. o[q] = out[q] /\ out[q] \in Conns  BY <1>1, <1>2, <2>2
    <3>2. /\ q \in joined /\ out[q] \notin closed /\ token[out[q]] = q
          /\ conn[out[q]] \in {"open", "blocked", "gone"}
      BY <3>1 DEF Wiring, WiredTo
    <3> QED BY <3>1, <3>2 DEF Kept
  <2> QED BY <2>1, <2>2
<1>7. Fed(o, closed, conn')
  <2> SUFFICES ASSUME NEW d \in Conns, conn'[d] \in {"open", "blocked"}, d \notin closed
               PROVE  o[token[d]] = d
    BY DEF Fed
  <2>1. CASE d = c  BY <1>2, <2>1
  <2>2. CASE d # c
    <3>1. conn[d] \in {"open", "blocked"}  BY <2>2 DEF Kept
    <3>2. out[token[d]] = d  BY <3>1 DEF Wiring, Fed
    <3>3. token[d] # p  BY <3>2, MatchAssumption
    <3> QED BY <1>2, <1>4, <2>2, <3>2, <3>3
  <2> QED BY <2>1, <2>2
<1>8. Shut(closed, sealed, conn')
  BY <1>1, <1>3 DEF Wiring, Shut, Kept
<1>9. sealed \cap (joined \cup {p}) = {}  BY DEF Wiring
<1> QED BY <1>6, <1>7, <1>8, <1>9 DEF Before

(* Closing the slots S, and unjoining the slots T of which S are those     *)
(* with a channel.                                                         *)
LEMMA SealWired ==
  ASSUME TypeOK, NEW j \in SUBSET Players, NEW o \in [Players -> Conns \cup {None}],
         Before(o, j), NEW S \in SUBSET Players, NEW T, S \subseteq T,
         \A p \in T \cap Players : o[p] # None => p \in S,
         CloseSlot(S, o), joined' = j \ T, UNCHANGED token
  PROVE  /\ WiredTo(out, joined, closed, conn)' /\ Fed(out, closed, conn)'
         /\ Shut(closed, sealed, conn)' /\ sealed' \cap joined' = {}
         /\ \A p \in Players : out'[p] = None \/ out'[p] = o[p]
<1>1. \A p \in Players : out'[p] = IF p \in S \ sealed THEN None ELSE o[p]
  BY DEF CloseSlot
<1>2. /\ sealed' = sealed \cup S
      /\ closed' = closed \cup Bound(o, S \ sealed)
  BY DEF CloseSlot
<1>3. \A c \in Bound(o, S \ sealed) : \E p \in S \ sealed : c = o[p] /\ o[p] # None
  BY DEF Bound
<1>4. WiredTo(out, joined, closed, conn)'
  <2> SUFFICES ASSUME NEW p \in Players, out'[p] # None
               PROVE  /\ p \in joined' /\ out'[p] \notin closed' /\ token[out'[p]] = p
                      /\ conn'[out'[p]] \in {"open", "blocked", "gone"}
    BY DEF WiredTo
  <2>1. out'[p] = o[p] /\ o[p] # None /\ p \notin S \ sealed  BY <1>1
  <2>2. /\ p \in j /\ o[p] \notin closed /\ token[o[p]] = p
        /\ conn'[o[p]] \in {"open", "blocked", "gone"}
    BY <2>1 DEF Before, WiredTo
  <2>3. p \notin sealed  BY <2>2 DEF Before
  <2>4. p \notin T  BY <2>1, <2>3
  <2>5. o[p] \notin Bound(o, S \ sealed)
    <3> SUFFICES ASSUME NEW q \in S \ sealed, o[p] = o[q]  PROVE FALSE  BY <1>3
    <3>1. token[o[q]] = q  BY <2>1 DEF Before, WiredTo
    <3> QED BY <2>1, <2>2, <3>1
  <2> QED BY <1>2, <2>1, <2>2, <2>4, <2>5
<1>5. Fed(out, closed, conn)'
  <2> SUFFICES ASSUME NEW c \in Conns, conn'[c] \in {"open", "blocked"}, c \notin closed'
               PROVE  out'[token[c]] = c
    BY DEF Fed
  <2>1. o[token[c]] = c /\ token[c] \in Players /\ c # None
    BY <1>2, MatchAssumption DEF Before, Fed, TypeOK
  <2>2. token[c] \notin S \ sealed  BY <1>2, <2>1 DEF Bound
  <2> QED BY <1>1, <2>1, <2>2
<1>6. Shut(closed, sealed, conn)'
  <2> SUFFICES ASSUME NEW c \in closed'
               PROVE  token[c] \in sealed' /\ conn'[c] \in {"open", "blocked", "gone"}
    BY DEF Shut
  <2>1. CASE c \in closed  BY <1>2, <2>1 DEF Before, Shut
  <2>2. CASE c \in Bound(o, S \ sealed)
    <3>1. PICK p \in S \ sealed : c = o[p] /\ o[p] # None  BY <1>3, <2>2
    <3> QED BY <1>2, <3>1 DEF Before, WiredTo
  <2> QED BY <1>2, <2>1, <2>2
<1>7. sealed' \cap joined' = {}  BY <1>2 DEF Before
<1> QED BY <1>1, <1>4, <1>5, <1>6, <1>7

(* sendFrameTo keeps the wiring: a slot it unbinds is closed first.        *)
LEMMA SendWired ==
  ASSUME TypeOK, NEW j, NEW n, NEW o, Slotted(j, n, o), Before(o, j),
         NEW S \in SUBSET Players, SendFrameTo(S, j, n, o), UNCHANGED token
  PROVE  /\ WiredTo(out, joined, closed, conn)' /\ Fed(out, closed, conn)'
         /\ Shut(closed, sealed, conn)' /\ sealed' \cap joined' = {}
         /\ \A p \in Players : out'[p] = None \/ out'[p] = o[p]
         /\ joined' \subseteq j /\ sealed' \subseteq sealed \cup j
<1> DEFINE full == Full(S, o)
<1>1. full \in SUBSET Players /\ \A p \in full : o[p] # None  BY DEF Full
<1>2. CloseSlot(full, o) /\ joined' = j \ full  BY DEF SendFrameTo, MarkUnjoined
<1>3. full \subseteq j  BY <1>1 DEF Before, WiredTo
<1>4. sealed' = sealed \cup full  BY <1>2 DEF CloseSlot
<1>5. \A p \in full \cap Players : o[p] # None => p \in full  OBVIOUS
<1> HIDE DEF full
<1> QED BY <1>1, <1>2, <1>3, <1>4, <1>5, SealWired DEF Slotted

(* An end that closes every bound slot leaves nothing wired.               *)
LEMMA CloseWired ==
  ASSUME TypeOK, NEW j, NEW n, NEW o, Slotted(j, n, o), Before(o, j), j \subseteq slots,
         NEW S \in SUBSET slots, \A p \in Players : o[p] # None => p \in S,
         NEW last, CloseAll(S, j, n, o, last), UNCHANGED token
  PROVE  Wiring'
<1>1. state' = "ended" /\ joined' = j \ slots /\ CloseSlot(S, o)
  BY DEF CloseAll, MarkUnjoined
<1>2. S \in SUBSET Players  BY DEF TypeOK
<1> QED BY <1>1, <1>2, SealWired DEF Slotted, Wiring

(* Both branches of abort close every bound slot.                          *)
LEMMA AbortWired ==
  ASSUME TypeOK, NEW j, NEW n, NEW o, Slotted(j, n, o), Before(o, j), j \subseteq slots,
         Abort(j, n, o), UNCHANGED token
  PROVE  Wiring'
<1>1. \A p \in Players : o[p] # None => p \in j  BY DEF Before, WiredTo
<1>2. CASE state = "live"  BY <1>1, <1>2, CloseWired DEF Abort
<1>3. CASE state # "live"
  <2> DEFINE S == {p \in slots : o[p] # None}
  <2>1. CloseAll(S, j, n, o, {})  BY <1>3 DEF Abort
  <2>2. S \in SUBSET slots /\ \A p \in Players : o[p] # None => p \in S  BY <1>1
  <2> HIDE DEF S
  <2> QED BY <2>1, <2>2, CloseWired
<1> QED BY <1>2, <1>3

-----------------------------------------------------------------------------
(* The inbox.                                                              *)

(* Where a message of the tail was in the inbox.                           *)
LEMMA TailOf ==
  ASSUME TypeOK, inbox # <<>>
  PROVE  /\ 1 \in DOMAIN inbox /\ inbox[1] = Head(inbox)
         /\ \A i \in DOMAIN Tail(inbox) :
              /\ i \in Int /\ i + 1 \in DOMAIN inbox /\ i + 1 # 1
              /\ Tail(inbox)[i] = inbox[i + 1]
BY DEF TypeOK

(* Where a message of the longer inbox comes from.                         *)
LEMMA AppendOf ==
  ASSUME TypeOK, NEW m
  PROVE  \A i \in DOMAIN Append(inbox, m) :
            IF i \in DOMAIN inbox THEN Append(inbox, m)[i] = inbox[i]
                                  ELSE i = Len(inbox) + 1 /\ Append(inbox, m)[i] = m
BY DEF TypeOK

(* The fields of the messages in the inbox are in range.                   *)
LEMMA MessageFields ==
  ASSUME TypeOK, NEW i \in DOMAIN inbox
  PROVE  /\ inbox[i].kind = "join" => inbox[i].conn \in Conns
         /\ inbox[i].kind \in {"dc", "input"} => inbox[i].player \in Players
<1>1. inbox[i] \in Message  BY DEF TypeOK
<1> QED BY <1>1 DEF Message

(* Taking a message off the inbox leaves the other joins unanswered.       *)
LEMMA JoinsTail ==
  ASSUME TypeOK, inbox # <<>>, JoinsWaiting(inbox, conn), NEW k,
         \A d \in Conns : conn[d] = "joining" /\ ~(Head(inbox).kind = "join" /\ Head(inbox).conn = d)
                             => k[d] = "joining"
  PROVE  JoinsWaiting(Tail(inbox), k)
<1> SUFFICES ASSUME NEW i \in DOMAIN Tail(inbox), Tail(inbox)[i].kind = "join"
             PROVE  /\ k[Tail(inbox)[i].conn] = "joining"
                    /\ \A l \in DOMAIN Tail(inbox) :
                         Tail(inbox)[l].kind = "join" /\ Tail(inbox)[l].conn = Tail(inbox)[i].conn
                            => l = i
  BY DEF JoinsWaiting
<1>1. i + 1 \in DOMAIN inbox /\ Tail(inbox)[i] = inbox[i + 1] /\ i \in Int /\ i + 1 # 1  BY TailOf
<1>2. /\ conn[inbox[i + 1].conn] = "joining"
      /\ \A l \in DOMAIN inbox : inbox[l].kind = "join" /\ inbox[l].conn = inbox[i + 1].conn
                                    => l = i + 1
  BY <1>1 DEF JoinsWaiting
<1>3. ~(Head(inbox).kind = "join" /\ Head(inbox).conn = inbox[i + 1].conn)
  BY <1>1, <1>2, TailOf
<1>4. inbox[i + 1].conn \in Conns  BY <1>1, MessageFields
<1>5. ASSUME NEW l \in DOMAIN Tail(inbox), Tail(inbox)[l].kind = "join",
             Tail(inbox)[l].conn = Tail(inbox)[i].conn
      PROVE  l = i
  <2>1. l + 1 \in DOMAIN inbox /\ Tail(inbox)[l] = inbox[l + 1] /\ l \in Int  BY TailOf
  <2>2. l + 1 = i + 1  BY <1>1, <1>2, <1>5, <2>1
  <2> QED BY <1>1, <2>1, <2>2
<1> QED BY <1>1, <1>2, <1>3, <1>4, <1>5

(* Taking a message off the inbox keeps what is known of the other DCs.    *)
LEMMA DropsTail ==
  ASSUME TypeOK, inbox # <<>>, DropsPending(inbox, out, dc, bySession, joined, conn),
         NEW o, NEW d, NEW b, NEW j, NEW k,
         \A p \in Players :
            /\ p \notin dc \cup bySession /\ (out[p] # None => conn[out[p]] = "gone")
            /\ Head(inbox).kind = "dc" /\ Head(inbox).player = p => p \notin joined
            => /\ p \notin d \cup b /\ (o[p] # None => k[o[p]] = "gone")
               /\ p \in j => p \in joined
  PROVE  DropsPending(Tail(inbox), o, d, b, j, k)
<1> SUFFICES ASSUME NEW i \in DOMAIN Tail(inbox), Tail(inbox)[i].kind = "dc",
                    NEW p, p = Tail(inbox)[i].player
             PROVE  /\ p \notin d \cup b
                    /\ o[p] # None => k[o[p]] = "gone"
                    /\ p \in j => \A l \in DOMAIN Tail(inbox) :
                         Tail(inbox)[l].kind = "dc" /\ Tail(inbox)[l].player = p => l = i
  BY DEF DropsPending
<1>1. i + 1 \in DOMAIN inbox /\ Tail(inbox)[i] = inbox[i + 1] /\ i \in Int /\ i + 1 # 1  BY TailOf
<1>2. /\ p \notin dc \cup bySession /\ (out[p] # None => conn[out[p]] = "gone")
      /\ p \in joined => \A l \in DOMAIN inbox : inbox[l].kind = "dc" /\ inbox[l].player = p
                                                   => l = i + 1
  BY <1>1 DEF DropsPending
<1>3. Head(inbox).kind = "dc" /\ Head(inbox).player = p => p \notin joined
  BY <1>1, <1>2, TailOf
<1>4. p \in Players  BY <1>1, MessageFields
<1>5. /\ p \notin d \cup b /\ (o[p] # None => k[o[p]] = "gone")
      /\ p \in j => p \in joined
  BY <1>2, <1>3, <1>4
<1>6. ASSUME p \in j, NEW l \in DOMAIN Tail(inbox), Tail(inbox)[l].kind = "dc",
             Tail(inbox)[l].player = p
      PROVE  l = i
  <2>1. l + 1 \in DOMAIN inbox /\ Tail(inbox)[l] = inbox[l + 1] /\ l \in Int  BY TailOf
  <2>2. l + 1 = i + 1  BY <1>2, <1>5, <1>6, <2>1
  <2> QED BY <1>1, <2>1, <2>2
<1> QED BY <1>5, <1>6

(* Posting a message keeps the joins unanswered and single.                *)
LEMMA JoinsPost ==
  ASSUME TypeOK, JoinsWaiting(inbox, conn), NEW m,
         inbox' = inbox \/ inbox' = Append(inbox, m),
         \A c \in Conns : conn[c] = "joining" => conn'[c] = "joining",
         inbox' # inbox /\ m.kind = "join" => conn[m.conn] # "joining" /\ conn'[m.conn] = "joining"
  PROVE  JoinsWaiting(inbox, conn)'
<1>1. ASSUME NEW i \in DOMAIN inbox, inbox[i].kind = "join"
      PROVE  /\ conn[inbox[i].conn] = "joining" /\ conn'[inbox[i].conn] = "joining"
             /\ \A l \in DOMAIN inbox : inbox[l].kind = "join" /\ inbox[l].conn = inbox[i].conn => l = i
  BY <1>1, MessageFields DEF JoinsWaiting
<1>2. CASE inbox' = inbox  BY <1>1, <1>2 DEF JoinsWaiting
<1>3. CASE inbox' = Append(inbox, m) /\ inbox' # inbox
  <2> DEFINE q == Append(inbox, m)
  <2>1. \A i \in DOMAIN q : IF i \in DOMAIN inbox THEN q[i] = inbox[i]
                                                  ELSE i = Len(inbox) + 1 /\ q[i] = m
    BY AppendOf
  <2>2. inbox' = q  BY <1>3
  <2>3. m.kind = "join" => conn[m.conn] # "joining" /\ conn'[m.conn] = "joining"  BY <1>3
  <2> HIDE DEF q
  <2>4. ASSUME NEW i \in DOMAIN q, q[i].kind = "join"
        PROVE  conn'[q[i].conn] = "joining"
    BY <1>1, <2>1, <2>3, <2>4
  <2>5. ASSUME NEW i \in DOMAIN q, NEW l \in DOMAIN q, q[i].kind = "join", q[l].kind = "join",
               q[l].conn = q[i].conn
        PROVE  l = i
    BY <1>1, <2>1, <2>3, <2>5
  <2> QED BY <2>2, <2>4, <2>5 DEF JoinsWaiting
<1> QED BY <1>2, <1>3

(* Posting a message keeps the DCs single and of connections that left.    *)
LEMMA DropsPost ==
  ASSUME TypeOK, DropsPending(inbox, out, dc, bySession, joined, conn), NEW m,
         inbox' = inbox \/ inbox' = Append(inbox, m),
         \A c \in Conns : conn[c] = "gone" => conn'[c] = "gone",
         UNCHANGED <<out, dc, bySession, joined>>,
         m.kind = "dc" =>
            /\ m.player \notin dc \cup bySession
            /\ out[m.player] # None => conn[out[m.player]] # "gone" /\ conn'[out[m.player]] = "gone"
            /\ m.player \in joined => out[m.player] # None
  PROVE  DropsPending(inbox, out, dc, bySession, joined, conn)'
<1>1. ASSUME NEW i \in DOMAIN inbox, inbox[i].kind = "dc", NEW p, p = inbox[i].player
      PROVE  /\ p \notin dc \cup bySession
             /\ out[p] # None => conn[out[p]] = "gone" /\ conn'[out[p]] = "gone"
             /\ p \in joined => \A l \in DOMAIN inbox :
                  inbox[l].kind = "dc" /\ inbox[l].player = p => l = i
  <2>1. p \in Players  BY <1>1, MessageFields
  <2>2. out[p] \in Conns \cup {None}  BY <2>1 DEF TypeOK
  <2> QED BY <1>1, <2>2 DEF DropsPending
<1>2. CASE inbox' = inbox
  BY <1>1, <1>2 DEF DropsPending
<1>3. CASE inbox' = Append(inbox, m)
  <2> DEFINE q == Append(inbox, m)
  <2>1. \A i \in DOMAIN q : IF i \in DOMAIN inbox THEN q[i] = inbox[i]
                                                  ELSE i = Len(inbox) + 1 /\ q[i] = m
    BY AppendOf
  <2>2. inbox' = q  BY <1>3
  <2> HIDE DEF q
  <2>3. ASSUME NEW i \in DOMAIN q, q[i].kind = "dc", NEW p, p = q[i].player
        PROVE  p \notin dc \cup bySession /\ (out[p] # None => conn'[out[p]] = "gone")
    BY <1>1, <2>1, <2>3
  <2>4. ASSUME NEW i \in DOMAIN q, NEW l \in DOMAIN q, q[i].kind = "dc", q[l].kind = "dc",
               q[l].player = q[i].player, q[i].player \in joined
        PROVE  l = i
    BY <1>1, <2>1, <2>4
  <2> QED BY <2>2, <2>3, <2>4 DEF DropsPending
<1> QED BY <1>2, <1>3

-----------------------------------------------------------------------------
(* The steps.                                                              *)

(* A producer's step: the slots stay as they are.                          *)
LEMMA WiringPost ==
  ASSUME TypeOK, Wiring, NEW m, inbox' = inbox \/ inbox' = Append(inbox, m),
         UNCHANGED <<state, joined, out, closed, sealed, token, dc, bySession>>,
         NEW c \in Conns, Kept(c),
         conn[c] # "joining" \/ state = "ended" \/ conn'[c] = conn[c],
         \A d \in Conns : d # c => conn'[d] = conn[d],
         conn'[c] \in {"open", "blocked"} => conn[c] \in {"open", "blocked"},
         conn[c] \in {"open", "blocked", "gone"} => conn'[c] \in {"open", "blocked", "gone"},
         conn[c] = "gone" => conn'[c] = "gone",
         state # "ended" /\ inbox' # inbox /\ m.kind = "join" =>
            m.conn = c /\ conn[c] # "joining" /\ conn'[c] = "joining",
         state # "ended" /\ m.kind = "dc" =>
            /\ m.player \notin dc \cup bySession
            /\ out[m.player] # None => conn[out[m.player]] # "gone" /\ conn'[out[m.player]] = "gone"
            /\ m.player \in joined => out[m.player] # None
  PROVE  Wiring'
<1>1. /\ \A p \in Players : out[p] \in Conns \cup {None}
      /\ closed \subseteq Conns
  BY DEF TypeOK
<1>2. WiredTo(out, joined, closed, conn)'
  <2> SUFFICES ASSUME NEW p \in Players, out[p] # None
               PROVE  /\ p \in joined /\ out[p] \notin closed /\ token[out[p]] = p
                      /\ conn'[out[p]] \in {"open", "blocked", "gone"}
    BY DEF WiredTo
  <2>1. /\ p \in joined /\ out[p] \notin closed /\ token[out[p]] = p
        /\ conn[out[p]] \in {"open", "blocked", "gone"} /\ out[p] \in Conns
    BY <1>1 DEF Wiring, WiredTo
  <2> QED BY <2>1
<1>3. Fed(out, closed, conn)'  BY DEF Wiring, Fed
<1>4. Shut(closed, sealed, conn)'  BY <1>1 DEF Wiring, Shut
<1>5. CASE state = "ended"  BY <1>2, <1>3, <1>4, <1>5 DEF Wiring
<1>6. CASE state # "ended"
  <2>1. JoinsWaiting(inbox, conn)'  BY <1>6, JoinsPost DEF Wiring
  <2>2. DropsPending(inbox, out, dc, bySession, joined, conn)'  BY <1>6, DropsPost DEF Wiring
  <2> QED BY <1>2, <1>3, <1>4, <1>6, <2>1, <2>2 DEF Wiring
<1> QED BY <1>5, <1>6

(* Every step of a connection, the lobby or the registry keeps Wiring.     *)
LEMMA WiringNet == TypeOK /\ GraceInv /\ Wiring /\ Net => Wiring'
<1> SUFFICES ASSUME TypeOK, GraceInv, Wiring, Net  PROVE Wiring'  OBVIOUS
<1>1. conn \in [Conns -> ConnState] /\ token \in [Conns -> Players]  BY DEF TypeOK
<1> USE DEF Producer, slotVars, Reply, Kept, Post, PostOrDrop
<1>2. ASSUME NEW c \in Conns, Dial(c) \/ JoinTimeout(c) \/ WriterSend(c) \/ WriterClose(c)
      PROVE  Wiring'
  <2> DEFINE m == [kind |-> "shutdown"]
  <2>1. inbox' = inbox /\ m.kind # "dc"  BY <1>2 DEF Dial, JoinTimeout, WriterSend, WriterClose
  <2>2. UNCHANGED <<state, joined, out, closed, sealed, token, dc, bySession>>
    BY <1>2 DEF Dial, JoinTimeout, WriterSend, WriterClose
  <2>3. /\ \A d \in Conns : d # c => conn'[d] = conn[d]
        /\ \/ conn[c] = "idle" /\ conn'[c] \in {"gone", "dialing"}
           \/ conn[c] = "joining" /\ state = "ended" /\ conn'[c] = "gone"
           \/ conn'[c] = conn[c]
    BY <1>1, <1>2 DEF Dial, JoinTimeout, WriterSend, WriterClose, TypeOK
  <2> HIDE DEF m
  <2> QED BY <2>1, <2>2, <2>3, WiringPost
<1>3. ASSUME NEW c \in Conns, SubmitJoin(c)  PROVE Wiring'
  <2> DEFINE m == [kind |-> "join", conn |-> c]
  <2>1. /\ UNCHANGED <<state, joined, out, closed, sealed, token, dc, bySession>>
        /\ m.kind = "join" /\ m.conn = c
    BY <1>3 DEF SubmitJoin
  <2>2. /\ \A d \in Conns : d # c => conn'[d] = conn[d]
        /\ conn[c] = "dialing"
        /\ \/ conn'[c] = "joining" /\ inbox' = Append(inbox, m)
           \/ conn'[c] = "gone" /\ inbox' = inbox
    BY <1>1, <1>3 DEF SubmitJoin
  <2> HIDE DEF m
  <2> QED BY <2>1, <2>2, WiringPost
<1>4. ASSUME NEW c \in Conns, ClientFrame(c) \/ UnblockInput(c)  PROVE Wiring'
  <2>1. PICK k \in ClientFrames \cup {"input"} :
           \/ inbox' = Append(inbox, [kind |-> k, player |-> token[c]])
           \/ inbox' = inbox
    BY <1>4 DEF ClientFrame, UnblockInput
  <2>2. k # "dc" /\ k # "join"  BY MatchAssumption
  <2>3. UNCHANGED <<state, joined, out, closed, sealed, token, dc, bySession>>
    BY <1>4 DEF ClientFrame, UnblockInput
  <2>4. /\ \A d \in Conns : d # c => conn'[d] = conn[d]
        /\ conn[c] \in {"open", "blocked"} /\ conn'[c] \in {"open", "blocked"}
    BY <1>1, <1>4 DEF ClientFrame, UnblockInput
  <2> DEFINE m == [kind |-> k, player |-> token[c]]
  <2>5. m.kind # "dc" /\ m.kind # "join" /\ (inbox' = Append(inbox, m) \/ inbox' = inbox)
    BY <2>1, <2>2
  <2> HIDE DEF m
  <2> QED BY <2>3, <2>4, <2>5, WiringPost
<1>5. ASSUME NEW c \in Conns, Disconnect(c)  PROVE Wiring'
  <2> DEFINE p == token[c]
             m == [kind |-> "dc", player |-> p]
  <2>1. /\ UNCHANGED <<state, joined, out, closed, sealed, token, dc, bySession>>
        /\ inbox' = Append(inbox, m) \/ inbox' = inbox
        /\ m.kind = "dc" /\ m.player = p
    BY <1>5 DEF Disconnect
  <2>2. /\ \A d \in Conns : d # c => conn'[d] = conn[d]
        /\ conn[c] = "open" /\ conn'[c] = "gone"
    BY <1>1, <1>5 DEF Disconnect
  <2>3. p \in Players /\ (c \in closed \/ out[p] = c)
    BY <1>1, <2>2 DEF Wiring, Fed
  <2>4. ASSUME state # "ended"
        PROVE  /\ p \notin dc \cup bySession
               /\ out[p] # None => conn[out[p]] # "gone" /\ conn'[out[p]] = "gone"
               /\ p \in joined => out[p] # None
    <3>1. CASE out[p] = c
      <4>1. c # None /\ p \in joined  BY <2>3, <3>1, MatchAssumption DEF Wiring, WiredTo
      <4> QED BY <2>2, <2>3, <2>4, <3>1, <4>1 DEF Wiring, GraceInv
    <3>2. CASE c \in closed
      <4>1. p \in sealed  BY <3>2 DEF Wiring, Shut
      <4>2. p \notin joined /\ p \notin bySession  BY <2>4, <4>1 DEF Wiring
      <4>3. out[p] = None  BY <2>3, <4>2 DEF Wiring, WiredTo
      <4> QED BY <2>4, <4>2, <4>3 DEF GraceInv
    <3> QED BY <2>3, <3>1, <3>2
  <2> HIDE DEF m, p
  <2> QED BY <2>1, <2>2, <2>4, WiringPost
<1>6. ASSUME NEW m, m \in [kind : {"revoke"}, player : Players] \cup [kind : {"shutdown", "abort"}],
             inbox' = inbox \/ inbox' = Append(inbox, m),
             UNCHANGED <<state, joined, out, closed, sealed, token, dc, bySession, conn>>
      PROVE  Wiring'
  <2>1. m.kind # "dc" /\ m.kind # "join"  BY <1>6
  <2>2. CASE Conns = {}
    <3>1. \A i \in DOMAIN inbox : inbox[i].kind = "join" => FALSE  BY <2>2, MessageFields
    <3>2. CASE state = "ended"  BY <1>6, <3>2 DEF Wiring, WiredTo, Fed, Shut
    <3>3. CASE state # "ended"
      <4>1. JoinsWaiting(inbox, conn)'  BY <1>6, <2>1, <2>2, <3>3, JoinsPost DEF Wiring
      <4>2. DropsPending(inbox, out, dc, bySession, joined, conn)'
        BY <1>6, <2>1, <3>3, DropsPost DEF Wiring
      <4> QED BY <1>6, <3>3, <4>1, <4>2 DEF Wiring, WiredTo, Fed, Shut
    <3> QED BY <3>2, <3>3
  <2>3. ASSUME NEW c \in Conns  PROVE Wiring'
    BY <1>6, <2>1, WiringPost
  <2> QED BY <2>2, <2>3
<1>7. ASSUME NEW p \in Players, RevokeToken(p)  PROVE Wiring'
  <2> DEFINE m == [kind |-> "revoke", player |-> p]
  <2>1. m \in [kind : {"revoke"}, player : Players]  OBVIOUS
  <2>2. /\ inbox' = inbox \/ inbox' = Append(inbox, m)
        /\ UNCHANGED <<state, joined, out, closed, sealed, token, dc, bySession, conn>>
    BY <1>7 DEF RevokeToken
  <2> HIDE DEF m
  <2> QED BY <1>6, <2>1, <2>2
<1>8. CASE StopAll
  <2> DEFINE m == [kind |-> "shutdown"]
  <2>1. m \in [kind : {"shutdown", "abort"}]  OBVIOUS
  <2>2. /\ inbox' = inbox \/ inbox' = Append(inbox, m)
        /\ UNCHANGED <<state, joined, out, closed, sealed, token, dc, bySession, conn>>
    BY <1>8 DEF StopAll
  <2> HIDE DEF m
  <2> QED BY <1>6, <2>1, <2>2
<1>9. CASE SweepZeroPlayers
  <2> DEFINE m == [kind |-> "abort"]
  <2>1. m \in [kind : {"shutdown", "abort"}]  OBVIOUS
  <2>2. /\ inbox' = inbox \/ inbox' = Append(inbox, m)
        /\ UNCHANGED <<state, joined, out, closed, sealed, token, dc, bySession, conn>>
    BY <1>9 DEF SweepZeroPlayers
  <2> HIDE DEF m
  <2> QED BY <1>6, <2>1, <2>2
<1> QED BY <1>2, <1>3, <1>4, <1>5, <1>7, <1>8, <1>9 DEF Net

(* A handler that consumed a message and goes on: what is left to show     *)
(* after a burst, from the channels o and the joined slots j.              *)
LEMMA WiringHandled ==
  ASSUME TypeOK, Wiring, state # "ended", inbox # <<>>, inbox' = Tail(inbox),
         NEW j, NEW n, NEW o, Slotted(j, n, o), Before(o, j),
         NEW S \in SUBSET Players, SendFrameTo(S, j, n, o), UNCHANGED token,
         state' # "ended", bySession' \subseteq bySession, bySession' \cap j = {},
         \A d \in Conns : conn[d] = "joining" /\ ~(Head(inbox).kind = "join" /\ Head(inbox).conn = d)
                             => conn'[d] = "joining",
         \A d \in Conns : conn[d] = "gone" => conn'[d] = "gone",
         \A p \in Players :
            /\ p \notin dc \cup bySession
            /\ Head(inbox).kind = "dc" /\ Head(inbox).player = p => p \notin joined
            => p \notin dc' /\ (o[p] = None \/ o[p] = out[p]) /\ (p \in j => p \in joined)
  PROVE  Wiring'
<1>1. /\ WiredTo(out, joined, closed, conn)' /\ Fed(out, closed, conn)'
      /\ Shut(closed, sealed, conn)' /\ sealed' \cap joined' = {}
      /\ \A p \in Players : out'[p] = None \/ out'[p] = o[p]
      /\ joined' \subseteq j /\ sealed' \subseteq sealed \cup j
  BY SendWired
<1>2. bySession' \cap (sealed' \cup joined') = {}  BY <1>1 DEF Wiring
<1>3. JoinsWaiting(Tail(inbox), conn')  BY JoinsTail DEF Wiring
<1>4. \A p \in Players : out[p] \in Conns \cup {None}  BY DEF TypeOK
<1>5. DropsPending(Tail(inbox), out', dc', bySession', joined', conn')
  <2>1. \A p \in Players :
            /\ p \notin dc \cup bySession /\ (out[p] # None => conn[out[p]] = "gone")
            /\ Head(inbox).kind = "dc" /\ Head(inbox).player = p => p \notin joined
            => /\ p \notin dc' \cup bySession' /\ (out'[p] # None => conn'[out'[p]] = "gone")
               /\ p \in joined' => p \in joined
    BY <1>1, <1>4
  <2>2. DropsPending(inbox, out, dc, bySession, joined, conn)  BY DEF Wiring
  <2> QED BY <2>1, <2>2, DropsTail
<1> QED BY <1>1, <1>2, <1>3, <1>5 DEF Wiring, JoinsWaiting, DropsPending

(* A handler that consumed a message and left the slots alone, refusing    *)
(* the connection it answers, if it answers one.                           *)
LEMMA WiringIgnored ==
  ASSUME TypeOK, Wiring, state # "ended", inbox # <<>>, inbox' = Tail(inbox),
         UNCHANGED <<state, joined, out, closed, sealed, token, dc>>,
         bySession' \subseteq bySession,
         \/ Head(inbox).kind # "join" /\ UNCHANGED conn
         \/ Head(inbox).kind = "join" /\ Reply(Head(inbox).conn, "gone")
  PROVE  Wiring'
<1>1. /\ \A p \in Players : out[p] \in Conns \cup {None}
      /\ closed \subseteq Conns /\ conn \in [Conns -> ConnState]
  BY DEF TypeOK
<1>2. \A d \in Conns :
        /\ conn[d] \in {"open", "blocked", "gone"} => conn'[d] = conn[d]
        /\ conn'[d] \in {"open", "blocked"} => conn'[d] = conn[d]
        /\ conn[d] = "joining" /\ ~(Head(inbox).kind = "join" /\ Head(inbox).conn = d)
             => conn'[d] = "joining"
  <2>1. CASE UNCHANGED conn  BY <2>1
  <2>2. CASE Head(inbox).kind = "join" /\ Reply(Head(inbox).conn, "gone")
    <3>1. conn[Head(inbox).conn] = "joining"  BY <2>2, TailOf DEF Wiring, JoinsWaiting
    <3>2. Head(inbox).conn \in Conns  BY <2>2, HeadFields
    <3> QED BY <1>1, <2>2, <3>1, <3>2 DEF Reply
  <2> QED BY <2>1, <2>2
<1>3. WiredTo(out, joined, closed, conn)'
  BY <1>1, <1>2 DEF Wiring, WiredTo
<1>4. Fed(out, closed, conn)' /\ Shut(closed, sealed, conn)'
  BY <1>1, <1>2 DEF Wiring, Fed, Shut
<1>5. JoinsWaiting(inbox, conn)'
  <2>1. JoinsWaiting(Tail(inbox), conn')  BY <1>2, JoinsTail DEF Wiring
  <2> QED BY <2>1 DEF JoinsWaiting
<1>6. DropsPending(inbox, out, dc, bySession, joined, conn)'
  <2>1. DropsPending(Tail(inbox), out', dc', bySession', joined', conn')
    <3>1. DropsPending(inbox, out, dc, bySession, joined, conn)  BY DEF Wiring
    <3>2. \A p \in Players :
            /\ p \notin dc \cup bySession /\ (out[p] # None => conn[out[p]] = "gone")
            /\ Head(inbox).kind = "dc" /\ Head(inbox).player = p => p \notin joined
            => /\ p \notin dc' \cup bySession' /\ (out'[p] # None => conn'[out'[p]] = "gone")
               /\ p \in joined' => p \in joined
      BY <1>1, <1>2
    <3> QED BY <3>1, <3>2, DropsTail
  <2> QED BY <2>1 DEF DropsPending
<1> QED BY <1>3, <1>4, <1>5, <1>6 DEF Wiring

(* A burst from the ticker, which consumes no message.                     *)
LEMMA WiringTicked ==
  ASSUME TypeOK, Wiring, state # "ended",
         NEW j, NEW n, Slotted(j, n, out), j \subseteq joined, Before(out, j),
         NEW S \in SUBSET Players, SendFrameTo(S, j, n, out),
         UNCHANGED <<token, inbox, conn, bySession>>, dc' \subseteq dc, state' # "ended"
  PROVE  Wiring'
<1>1. /\ WiredTo(out, joined, closed, conn)' /\ Fed(out, closed, conn)'
      /\ Shut(closed, sealed, conn)' /\ sealed' \cap joined' = {}
      /\ \A p \in Players : out'[p] = None \/ out'[p] = out[p]
      /\ joined' \subseteq j /\ sealed' \subseteq sealed \cup j
  BY SendWired
<1>2. bySession' \cap (sealed' \cup joined') = {}  BY <1>1 DEF Wiring
<1>3. JoinsWaiting(inbox, conn)'  BY DEF Wiring, JoinsWaiting
<1>4. DropsPending(inbox, out, dc, bySession, joined, conn)'
  <2> SUFFICES ASSUME NEW i \in DOMAIN inbox, inbox[i].kind = "dc", NEW p, p = inbox[i].player
               PROVE  /\ p \notin dc' \cup bySession /\ (out'[p] # None => conn[out'[p]] = "gone")
                      /\ p \in joined' => \A l \in DOMAIN inbox :
                           inbox[l].kind = "dc" /\ inbox[l].player = p => l = i
    BY DEF DropsPending
  <2>1. /\ p \notin dc \cup bySession /\ (out[p] # None => conn[out[p]] = "gone")
        /\ p \in joined => \A l \in DOMAIN inbox :
             inbox[l].kind = "dc" /\ inbox[l].player = p => l = i
    BY DEF Wiring, DropsPending
  <2>2. p \in Players  BY MessageFields
  <2> QED BY <1>1, <2>1, <2>2
<1> QED BY <1>1, <1>2, <1>3, <1>4 DEF Wiring

(* Dropping the expired slots, which are unbound, keeps the wiring.        *)
LEMMA BeforeTick ==
  ASSUME TypeOK, GraceInv, Wiring, state = "live", NEW c, c \notin Conns, Kept(c)
  PROVE  Before(out, joined \ Expired)
<1>1. Before(out, joined)  BY BeforeKept
<1>2. \A p \in Expired : p \in Players /\ out[p] = None  BY DEF Expired, GraceInv, TypeOK
<1> QED BY <1>1, <1>2 DEF Before, WiredTo

(* Once the match is over nobody is admitted any more, only turned away.   *)
LEMMA WiringEnded ==
  ASSUME TypeOK, Wiring, state = "ended",
         UNCHANGED <<state, joined, out, closed, sealed, token>>,
         \A d \in Conns : conn'[d] = conn[d] \/ conn'[d] = "gone"
  PROVE  Wiring'
<1>1. joined = {} /\ \A p \in Players : out[p] = None  BY DEF Wiring, WiredTo
<1> QED BY <1>1 DEF Wiring, WiredTo, Fed, Shut, TypeOK

(* Every step of the actor keeps Wiring.                                   *)
LEMMA WiringRun == TypeOK /\ GraceInv /\ CountMatchesSlots /\ Wiring /\ Run => Wiring'
<1> SUFFICES ASSUME TypeOK, GraceInv, CountMatchesSlots, Wiring, Run  PROVE Wiring'  OBVIOUS
<1>1. /\ Slotted(joined, joinedCount, out) /\ joined \subseteq slots
      /\ joined \in SUBSET Players /\ None \notin Conns
  BY MatchAssumption DEF Slotted, TypeOK, CountMatchesSlots
<1>2. UNCHANGED conn => Kept(None)  BY DEF Kept
<1>3. CASE WarmupTimeout
  <2>1. state = "waiting" /\ UNCHANGED <<token, dc, bySession>>  BY <1>3 DEF WarmupTimeout
  <2>2. CASE Start(joined, joinedCount, out) /\ UNCHANGED <<inbox, conn>>
    <3>1. SendFrameTo(joined, joined, joinedCount, out) /\ state' # "ended"  BY <2>2 DEF Start
    <3>2. Before(out, joined)  BY <1>1, <1>2, <2>1, <2>2, BeforeKept
    <3> QED BY <1>1, <2>1, <2>2, <3>1, <3>2, WiringTicked
  <2>3. CASE Abort(joined, joinedCount, out) /\ DrainInboxAfterEnd(None)
    <3>1. Before(out, joined)  BY <1>1, <2>1, <2>3, KeptByDrain, BeforeKept
    <3> QED BY <1>1, <2>1, <2>3, <3>1, AbortWired
  <2> QED BY <1>3, <2>2, <2>3 DEF WarmupTimeout, StartAborts
<1>4. CASE JoinAccepted
  <2> DEFINE c == Head(inbox).conn
             p == token[c]
             j == joined \cup {p}
             n == joinedCount + 1
             o == [out EXCEPT ![p] = c]
  <2>1. /\ state = "waiting" /\ inbox # <<>> /\ Head(inbox).kind = "join"
        /\ p \in bySession /\ p \in slots /\ p \notin joined /\ UNCHANGED <<token, dc>>
        /\ bySession' = bySession \ {p}
    BY <1>4 DEF JoinAccepted, Receive, Admissible
  <2>2. c \in Conns /\ p \in Players /\ conn[c] = "joining"
    <3>1. c \in Conns  BY <2>1, HeadFields
    <3>2. conn[c] = "joining"  BY <2>1, TailOf DEF Wiring, JoinsWaiting
    <3> QED BY <3>1, <3>2 DEF TypeOK
  <2>3. p \notin sealed /\ out[p] = None
    BY <2>1, <2>2 DEF Wiring, WiredTo
  <2>4. Slotted(j, n, o) /\ j \subseteq slots
    BY <1>1, <2>1, <2>2 DEF Slotted, TypeOK
  <2>5. \/ Abort(j, n, o) /\ DrainInboxAfterEnd(c)
        \/ /\ inbox' = Tail(inbox) /\ Reply(c, "open") /\ state' # "ended"
           /\ SendFrameTo(j, j, n, o) \/ SendFrameTo({p}, j, n, o)
    BY <1>4, <2>1 DEF JoinAccepted, StartAborts, Start
  <2>6. Kept(c) /\ conn'[c] = "open"
    BY <2>2, <2>5, KeptByDrain, KeptByReply
  <2>7. Before(o, j)  BY <2>1, <2>2, <2>3, <2>6, BeforeAdmitted
  <2>8. CASE Abort(j, n, o) /\ DrainInboxAfterEnd(c)
    <3> HIDE DEF j, n, o, c, p
    <3> QED BY <2>1, <2>4, <2>7, <2>8, AbortWired
  <2>9. CASE /\ inbox' = Tail(inbox) /\ Reply(c, "open") /\ state' # "ended"
             /\ SendFrameTo(j, j, n, o) \/ SendFrameTo({p}, j, n, o)
    <3>1. /\ \A d \in Conns : conn[d] = "joining" /\ d # c => conn'[d] = "joining"
          /\ \A d \in Conns : conn[d] = "gone" => conn'[d] = "gone"
      BY <2>2, <2>9 DEF Reply, TypeOK
    <3>2. \A q \in Players : q \notin bySession => q # p /\ o[q] = out[q]
      BY <2>1, <2>2 DEF TypeOK
    <3>3. \A q \in Players :
            /\ q \notin dc \cup bySession
            /\ Head(inbox).kind = "dc" /\ Head(inbox).player = q => q \notin joined
            => q \notin dc' /\ (o[q] = None \/ o[q] = out[q]) /\ (q \in j => q \in joined)
      BY <2>1, <3>2
    <3>4. bySession' \subseteq bySession /\ bySession' \cap j = {}  BY <2>1 DEF Wiring
    <3>5. PICK S \in SUBSET Players : SendFrameTo(S, j, n, o)
      <4>1. j \in SUBSET Players /\ {p} \in SUBSET Players  BY <2>2, <2>4 DEF Slotted
      <4> QED BY <2>9, <4>1
    <3>6. \A d \in Conns : conn[d] = "joining" /\ ~(Head(inbox).kind = "join" /\ Head(inbox).conn = d)
                             => conn'[d] = "joining"
      BY <2>1, <3>1
    <3> HIDE DEF j, n, o, c, p
    <3> QED BY <2>1, <2>4, <2>7, <2>9, <3>1, <3>3, <3>4, <3>5, <3>6, WiringHandled
  <2> QED BY <2>5, <2>8, <2>9
<1>5. CASE Reconnect
  <2> DEFINE c == Head(inbox).conn
             p == token[c]
             o == [out EXCEPT ![p] = c]
  <2>1. /\ state # "ended" /\ inbox # <<>> /\ Head(inbox).kind = "join"
        /\ inbox' = Tail(inbox) /\ UNCHANGED <<state, token, bySession>>
    BY <1>5 DEF Reconnect, Receive
  <2>2. c \in Conns /\ p \in Players /\ conn[c] = "joining"
    <3>1. c \in Conns  BY <2>1, HeadFields
    <3>2. conn[c] = "joining"  BY <2>1, TailOf DEF Wiring, JoinsWaiting
    <3> QED BY <3>1, <3>2 DEF TypeOK
  <2>3. CASE Reconnectable(p)
    <3>1. /\ dc' = dc \ {p} /\ Reply(c, "open")
          /\ SendFrameTo(joined \cup {p}, joined, joinedCount, o) /\ p \in dc
      BY <1>5, <2>3 DEF Reconnect, Reconnectable
    <3>2. p \in joined /\ out[p] = None /\ p \notin sealed
      BY <2>1, <3>1 DEF GraceInv, Wiring
    <3>3. Kept(c) /\ conn'[c] = "open"  BY <2>2, <3>1, KeptByReply
    <3>4. joined \cup {p} = joined  BY <3>2
    <3>5. Before(o, joined)
      <4>1. Before(o, joined \cup {p})  BY <2>1, <2>2, <3>2, <3>3, BeforeAdmitted
      <4> QED BY <3>4, <4>1
    <3>6. Slotted(joined, joinedCount, o)  BY <1>1, <2>2 DEF Slotted
    <3>7. /\ \A d \in Conns : conn[d] = "joining" /\ d # c => conn'[d] = "joining"
          /\ \A d \in Conns : conn[d] = "gone" => conn'[d] = "gone"
      BY <2>2, <3>1 DEF Reply, TypeOK
    <3>8. \A q \in Players : q \notin dc => q # p /\ o[q] = out[q]  BY <2>2, <3>1 DEF TypeOK
    <3>9. \A q \in Players :
            /\ q \notin dc \cup bySession
            /\ Head(inbox).kind = "dc" /\ Head(inbox).player = q => q \notin joined
            => q \notin dc' /\ (o[q] = None \/ o[q] = out[q]) /\ (q \in joined => q \in joined)
      BY <3>1, <3>8
    <3>10. bySession' \subseteq bySession /\ bySession' \cap joined = {}  BY <2>1 DEF Wiring
    <3>11. \A d \in Conns : conn[d] = "joining" /\ ~(Head(inbox).kind = "join" /\ Head(inbox).conn = d)
                             => conn'[d] = "joining"
      BY <2>1, <3>7
    <3>12. SendFrameTo(joined, joined, joinedCount, o)  BY <3>1, <3>4
    <3> HIDE DEF o, c, p
    <3> QED BY <1>1, <2>1, <3>5, <3>6, <3>7, <3>9, <3>10, <3>11, <3>12, WiringHandled
  <2>4. CASE ~Reconnectable(p)
    <3>1. UNCHANGED <<dc, joined, out, sealed, closed>> /\ Reply(c, "gone")
      BY <1>5, <2>4 DEF Reconnect
    <3> QED BY <2>1, <3>1, WiringIgnored
  <2> QED BY <2>3, <2>4
<1>6. CASE HandleDC
  <2> DEFINE p == Head(inbox).player
             o == [out EXCEPT ![p] = None]
  <2>1. /\ state # "ended" /\ inbox # <<>> /\ Head(inbox).kind = "dc"
        /\ inbox' = Tail(inbox) /\ UNCHANGED <<state, token, bySession, conn>> /\ p \in Players
    BY <1>6, HeadFields DEF HandleDC, Receive, Quiet
  <2>2. CASE p \in slots \cap joined /\ p \notin dc
    <3>1. dc' = dc \cup {p} /\ SendFrameTo(joined, joined, joinedCount, o)
      BY <1>6, <2>2 DEF HandleDC
    <3>2. \A q \in Players : o[q] = IF q = p THEN None ELSE out[q]  BY <2>1 DEF TypeOK
    <3>3. Before(out, joined)  BY <1>1, <1>2, <2>1, BeforeKept
    <3>4. out[p] # None => conn[out[p]] = "gone"
      BY <2>1, TailOf DEF Wiring, DropsPending
    <3>5. Before(o, joined)
      <4>1. WiredTo(o, joined, closed, conn')
        <5> HIDE DEF p, o
        <5> QED BY <3>2, <3>3 DEF Before, WiredTo
      <4>2. Fed(o, closed, conn')
        <5> SUFFICES ASSUME NEW d \in Conns, conn[d] \in {"open", "blocked"}, d \notin closed
                     PROVE  o[token[d]] = d
          BY <2>1 DEF Fed
        <5>1. out[token[d]] = d /\ token[d] \in Players /\ d # None
          BY <1>1 DEF Wiring, Fed, TypeOK
        <5>2. token[d] # p  BY <3>4, <5>1
        <5> HIDE DEF p, o
        <5> QED BY <3>2, <5>1, <5>2
      <4> QED BY <3>3, <4>1, <4>2 DEF Before
    <3>6. Slotted(joined, joinedCount, o)  BY <1>1, <2>1 DEF Slotted
    <3>7. \A q \in Players :
            /\ q \notin dc \cup bySession
            /\ Head(inbox).kind = "dc" /\ Head(inbox).player = q => q \notin joined
            => q \notin dc' /\ (o[q] = None \/ o[q] = out[q]) /\ (q \in joined => q \in joined)
      <4>1. p \in joined  BY <2>2
      <4>2. \A q \in Players : o[q] = None \/ o[q] = out[q]  BY <3>2
      <4> HIDE DEF o
      <4> QED BY <2>1, <3>1, <4>1, <4>2
    <3>8. bySession' \subseteq bySession /\ bySession' \cap joined = {}  BY <2>1 DEF Wiring
    <3> HIDE DEF p, o
    <3> QED BY <1>1, <2>1, <3>1, <3>5, <3>6, <3>7, <3>8, WiringHandled
  <2>3. CASE ~(p \in slots \cap joined /\ p \notin dc)
    <3>1. UNCHANGED <<dc, joined, out, sealed, closed>>  BY <1>6, <2>3 DEF HandleDC
    <3> QED BY <2>1, <3>1, WiringIgnored
  <2> QED BY <2>2, <2>3
<1>7. CASE HandleClientPing
  <2> DEFINE S == {Head(inbox).player} \cap slots \cap joined
  <2>1. /\ state # "ended" /\ inbox # <<>> /\ Head(inbox).kind = "ping" /\ inbox' = Tail(inbox)
        /\ UNCHANGED <<state, token, bySession, conn, dc>>
        /\ SendFrameTo(S, joined, joinedCount, out)
    BY <1>7 DEF HandleClientPing, Receive, Quiet
  <2>2. Before(out, joined)  BY <1>1, <1>2, <2>1, BeforeKept
  <2>3. S \in SUBSET Players /\ bySession \cap joined = {}  BY <1>1, <2>1 DEF Wiring
  <2> HIDE DEF S
  <2> QED BY <1>1, <2>1, <2>2, <2>3, WiringHandled
<1>8. CASE HandleInput \/ HandleChat \/ HandleRevoke
  BY <1>8, WiringIgnored DEF HandleInput, HandleChat, HandleRevoke, Receive, Quiet
<1>9. CASE JoinRefused
  BY <1>9, WiringIgnored DEF JoinRefused, Receive
<1>10. CASE Shutdown
  <2> DEFINE S == {p \in slots : out[p] # None}
  <2>1. /\ state # "ended" /\ UNCHANGED token /\ CloseAll(S, joined, joinedCount, out, {})
        /\ DrainInboxAfterEnd(None)
    BY <1>10 DEF Shutdown, Receive
  <2>2. Before(out, joined)  BY <1>1, <2>1, KeptByDrain, BeforeKept
  <2>3. S \in SUBSET slots /\ \A p \in Players : out[p] # None => p \in S
    BY <1>1 DEF Wiring, WiredTo
  <2> HIDE DEF S
  <2> QED BY <1>1, <2>1, <2>2, <2>3, CloseWired
<1>11. CASE Tick
  <2> DEFINE j == joined \ Expired
             n == joinedCount - Cardinality(joined \cap Expired)
  <2>1. /\ state = "live" /\ UNCHANGED <<token, bySession>> /\ dc' \subseteq dc
        /\ \/ CloseAll(j, j, n, out, j) /\ DrainInboxAfterEnd(None)
           \/ \E told \in {{}, j} : SendFrameTo(told, j, n, out) /\ UNCHANGED <<state, inbox, conn>>
    BY <1>11 DEF Tick, TickWith, DropDCSlots
  <2>2. Kept(None)  BY <1>2, <2>1, KeptByDrain
  <2>3. Before(out, j)  BY <1>1, <2>1, <2>2, BeforeTick
  <2>4. j \in SUBSET Players /\ j \subseteq joined  BY <1>1
  <2>5. Slotted(j, n, out) /\ j \subseteq slots
    <3>1. Cardinality(joined \cap Expired) \in Nat  BY <1>1, Sets
    <3> QED BY <1>1, <2>4, <3>1 DEF Slotted
  <2>6. \A p \in Players : out[p] # None => p \in j  BY <2>3 DEF Before, WiredTo
  <2>7. {} \in SUBSET Players  OBVIOUS
  <2> HIDE DEF j, n
  <2>8. CASE CloseAll(j, j, n, out, j)
    BY <2>1, <2>3, <2>5, <2>6, <2>8, CloseWired
  <2>9. CASE \E told \in {{}, j} : SendFrameTo(told, j, n, out) /\ UNCHANGED <<state, inbox, conn>>
    BY <2>1, <2>3, <2>4, <2>5, <2>7, <2>9, WiringTicked
  <2> QED BY <2>1, <2>8, <2>9
<1>12. CASE TickFails \/ HandleAbort
  <2>1. /\ state # "ended" /\ UNCHANGED token /\ Abort(joined, joinedCount, out)
        /\ DrainInboxAfterEnd(None)
    BY <1>12 DEF TickFails, HandleAbort, Receive
  <2>2. Before(out, joined)  BY <1>1, <2>1, KeptByDrain, BeforeKept
  <2> QED BY <1>1, <2>1, <2>2, AbortWired
<1>13. CASE HandleLast
  <2>1. /\ state = "ended" /\ UNCHANGED <<state, joined, out, closed, sealed, token>>
        /\ \A d \in Conns : conn'[d] = conn[d] \/ conn'[d] = "gone"
    BY <1>13 DEF HandleLast, Reply, TypeOK
  <2> QED BY <2>1, WiringEnded
<1> QED BY <1>3, <1>4, <1>5, <1>6, <1>7, <1>8, <1>9, <1>10, <1>11, <1>12, <1>13
        DEF Run, HandleControl

(* The absorber of a finished match keeps Wiring.                          *)
LEMMA WiringAbsorb == TypeOK /\ Wiring /\ Absorb => Wiring'
<1> SUFFICES ASSUME TypeOK, Wiring, Absorb  PROVE Wiring'  OBVIOUS
<1>1. /\ state = "ended" /\ UNCHANGED <<state, joined, out, closed, sealed, token>>
      /\ \A d \in Conns : conn'[d] = conn[d] \/ conn'[d] = "gone"
  BY DEF Absorb, slotVars, TypeOK
<1> QED BY <1>1, WiringEnded

(* The wiring of channels, slots and connections holds in every match.     *)
THEOREM WiringCorrect == Safety => []Wiring
<1>1. Init => Wiring
  BY DEF Init, NewMatch, Wiring, WiredTo, Fed, Shut, JoinsWaiting, DropsPending
<1>2. TypeOK /\ GraceInv /\ CountMatchesSlots /\ Wiring /\ [Next]_vars => Wiring'
  <2>1. Wiring /\ UNCHANGED vars => Wiring'
    BY DEF vars, slotVars, netVars, Wiring, WiredTo, Fed, Shut, JoinsWaiting, DropsPending
  <2> QED BY <2>1, WiringRun, WiringNet, WiringAbsorb DEF Next, Terminated
<1> QED BY <1>1, <1>2, TypeCorrect, CountCorrect, GraceInvCorrect, PTL DEF Safety

-----------------------------------------------------------------------------
(* Inputs and DC-grace.                                                    *)

(* Taking a message off the inbox leaves the other inputs before the DCs.  *)
LEMMA InputsTail ==
  ASSUME TypeOK, inbox # <<>>, InputsPending(inbox, dc, bySession, joined),
         NEW d, NEW b, NEW j,
         \A p \in Players :
            /\ p \notin dc \cup bySession
            /\ Head(inbox).kind = "dc" /\ Head(inbox).player = p => p \notin joined
            => p \notin d \cup b /\ (p \in j => p \in joined)
  PROVE  InputsPending(Tail(inbox), d, b, j)
<1> SUFFICES ASSUME NEW i \in DOMAIN Tail(inbox), Tail(inbox)[i].kind = "input",
                    NEW p, p = Tail(inbox)[i].player
             PROVE  /\ p \notin d \cup b
                    /\ p \in j => \A l \in DOMAIN Tail(inbox) :
                         Tail(inbox)[l].kind = "dc" /\ Tail(inbox)[l].player = p => i < l
  BY DEF InputsPending
<1>1. i + 1 \in DOMAIN inbox /\ Tail(inbox)[i] = inbox[i + 1] /\ i \in Nat /\ i + 1 # 1
  BY TailOf DEF TypeOK
<1>2. /\ p \notin dc \cup bySession
      /\ p \in joined => \A l \in DOMAIN inbox : inbox[l].kind = "dc" /\ inbox[l].player = p
                                                   => i + 1 < l
  BY <1>1 DEF InputsPending
<1>3. Head(inbox).kind = "dc" /\ Head(inbox).player = p => p \notin joined
  BY <1>1, <1>2, TailOf
<1>4. p \in Players  BY <1>1, MessageFields
<1>5. p \notin d \cup b /\ (p \in j => p \in joined)  BY <1>2, <1>3, <1>4
<1>6. ASSUME p \in j, NEW l \in DOMAIN Tail(inbox), Tail(inbox)[l].kind = "dc",
             Tail(inbox)[l].player = p
      PROVE  i < l
  <2>1. l + 1 \in DOMAIN inbox /\ Tail(inbox)[l] = inbox[l + 1] /\ l \in Int  BY TailOf
  <2>2. i + 1 < l + 1  BY <1>2, <1>5, <1>6, <2>1
  <2> QED BY <1>1, <2>1, <2>2
<1> QED BY <1>5, <1>6

(* Posting a message puts no input behind a DC of its player.              *)
LEMMA InputsPost ==
  ASSUME TypeOK, InputsPending(inbox, dc, bySession, joined), NEW m,
         inbox' = inbox \/ inbox' = Append(inbox, m), UNCHANGED <<dc, bySession, joined>>,
         m.kind = "input" =>
            /\ m.player \notin dc \cup bySession
            /\ m.player \in joined =>
                 \A l \in DOMAIN inbox : ~(inbox[l].kind = "dc" /\ inbox[l].player = m.player)
  PROVE  InputsPending(inbox, dc, bySession, joined)'
<1>1. CASE inbox' = inbox  BY <1>1 DEF InputsPending
<1>2. CASE inbox' = Append(inbox, m)
  <2> DEFINE q == Append(inbox, m)
  <2>1. \A i \in DOMAIN q : IF i \in DOMAIN inbox THEN q[i] = inbox[i]
                                                  ELSE i = Len(inbox) + 1 /\ q[i] = m
    BY AppendOf
  <2>2. \A i \in DOMAIN inbox : i \in Int /\ i < Len(inbox) + 1  BY DEF TypeOK
  <2>3. inbox' = q  BY <1>2
  <2> HIDE DEF q
  <2>4. ASSUME NEW i \in DOMAIN q, q[i].kind = "input"
        PROVE  q[i].player \notin dc \cup bySession
    BY <2>1, <2>4 DEF InputsPending
  <2>5. ASSUME NEW i \in DOMAIN q, NEW l \in DOMAIN q, q[i].kind = "input", q[l].kind = "dc",
               q[l].player = q[i].player, q[i].player \in joined
        PROVE  i < l
    <3>1. CASE i \in DOMAIN inbox /\ l \in DOMAIN inbox
      BY <2>1, <2>5, <3>1 DEF InputsPending
    <3>2. CASE i \in DOMAIN inbox /\ l \notin DOMAIN inbox
      BY <2>1, <2>2, <3>2
    <3>3. CASE i \notin DOMAIN inbox
      <4>1. q[i] = m /\ q[l] # m  BY <2>1, <2>5, <3>3
      <4> QED BY <2>1, <2>5, <4>1
    <3> QED BY <3>1, <3>2, <3>3
  <2> QED BY <2>3, <2>4, <2>5 DEF InputsPending
<1> QED BY <1>1, <1>2

(* An input comes from a connection whose slot is in grace no longer, or   *)
(* has lost its seat.                                                      *)
LEMMA InputSource ==
  ASSUME TypeOK, GraceInv, Wiring, state # "ended", NEW c \in Conns,
         conn[c] \in {"open", "blocked"}
  PROVE  /\ token[c] \notin dc \cup bySession
         /\ token[c] \in joined =>
              \A l \in DOMAIN inbox : ~(inbox[l].kind = "dc" /\ inbox[l].player = token[c])
<1>1. token[c] \in Players /\ c # None  BY MatchAssumption DEF TypeOK
<1>2. CASE c \in closed
  <2>1. token[c] \in sealed  BY <1>2 DEF Wiring, Shut
  <2> QED BY <2>1 DEF Wiring, GraceInv
<1>3. CASE out[token[c]] = c
  <2>1. token[c] \in joined  BY <1>1, <1>3 DEF Wiring, WiredTo
  <2>2. \A l \in DOMAIN inbox : ~(inbox[l].kind = "dc" /\ inbox[l].player = token[c])
    BY <1>1, <1>3 DEF Wiring, DropsPending
  <2> QED BY <1>1, <1>3, <2>1, <2>2 DEF Wiring, GraceInv
<1> QED BY <1>2, <1>3 DEF Wiring, Fed

(* What a handler that goes on does to the slots that inputs wait for.     *)
LEMMA InputsHandled ==
  ASSUME TypeOK, InputInv, state # "ended", inbox # <<>>, inbox' = Tail(inbox),
         \A p \in Players :
            /\ p \notin dc \cup bySession
            /\ Head(inbox).kind = "dc" /\ Head(inbox).player = p => p \notin joined
            => p \notin dc' \cup bySession' /\ (p \in joined' => p \in joined)
  PROVE  InputsPending(inbox, dc, bySession, joined)'
<1>1. InputsPending(inbox, dc, bySession, joined)  BY DEF InputInv
<1>2. InputsPending(Tail(inbox), dc', bySession', joined')  BY <1>1, InputsTail
<1> QED BY <1>2 DEF InputsPending

(* A step of the match that takes no message off the inbox.                *)
LEMMA InputsKept ==
  ASSUME InputsPending(inbox, dc, bySession, joined), UNCHANGED inbox,
         dc' \subseteq dc, bySession' \subseteq bySession, joined' \subseteq joined
  PROVE  InputsPending(inbox, dc, bySession, joined)'
BY DEF InputsPending

(* Every step of a connection, the lobby or the registry keeps InputInv.   *)
LEMMA InputNet == TypeOK /\ GraceInv /\ Wiring /\ InputInv /\ Net => InputInv'
<1> SUFFICES ASSUME TypeOK, GraceInv, Wiring, InputInv, Net, state # "ended"
             PROVE  InputsPending(inbox, dc, bySession, joined)'
  BY DEF InputInv, Net, Producer, slotVars, simVars, Dial, SubmitJoin, JoinTimeout, ClientFrame,
         UnblockInput, Disconnect, WriterSend, WriterClose, RevokeToken, SweepZeroPlayers, StopAll
<1>1. InputsPending(inbox, dc, bySession, joined) /\ UNCHANGED <<dc, bySession, joined>>
  BY DEF InputInv, Net, Producer, slotVars, Dial, SubmitJoin, JoinTimeout, ClientFrame,
         UnblockInput, Disconnect, WriterSend, WriterClose, RevokeToken, SweepZeroPlayers, StopAll
<1>2. ASSUME NEW c \in Conns, ClientFrame(c) \/ UnblockInput(c)
      PROVE  InputsPending(inbox, dc, bySession, joined)'
  <2>1. PICK k \in ClientFrames \cup {"input"} :
           \/ inbox' = Append(inbox, [kind |-> k, player |-> token[c]])
           \/ inbox' = inbox
    BY <1>2 DEF ClientFrame, UnblockInput, Post, PostOrDrop
  <2>2. conn[c] \in {"open", "blocked"}  BY <1>2 DEF ClientFrame, UnblockInput
  <2> DEFINE m == [kind |-> k, player |-> token[c]]
  <2>3. m.player = token[c] /\ (inbox' = Append(inbox, m) \/ inbox' = inbox)  BY <2>1
  <2> HIDE DEF m
  <2> QED BY <1>1, <2>2, <2>3, InputSource, InputsPost
<1>3. ASSUME NEW m, m.kind # "input", inbox' = inbox \/ inbox' = Append(inbox, m)
      PROVE  InputsPending(inbox, dc, bySession, joined)'
  BY <1>1, <1>3, InputsPost
<1>4. ASSUME UNCHANGED inbox
      PROVE  InputsPending(inbox, dc, bySession, joined)'
  BY <1>1, <1>4, InputsKept
<1>5. ASSUME NEW c \in Conns, SubmitJoin(c)
      PROVE  InputsPending(inbox, dc, bySession, joined)'
  <2> DEFINE m == [kind |-> "join", conn |-> c]
  <2>1. m.kind # "input" /\ (inbox' = inbox \/ inbox' = Append(inbox, m))
    BY <1>5 DEF SubmitJoin, Post
  <2> HIDE DEF m
  <2> QED BY <1>3, <2>1
<1>6. ASSUME NEW c \in Conns, Disconnect(c)
      PROVE  InputsPending(inbox, dc, bySession, joined)'
  <2> DEFINE m == [kind |-> "dc", player |-> token[c]]
  <2>1. m.kind # "input" /\ (inbox' = inbox \/ inbox' = Append(inbox, m))
    BY <1>6 DEF Disconnect, PostOrDrop
  <2> HIDE DEF m
  <2> QED BY <1>3, <2>1
<1>7. ASSUME NEW p \in Players, RevokeToken(p)
      PROVE  InputsPending(inbox, dc, bySession, joined)'
  <2> DEFINE m == [kind |-> "revoke", player |-> p]
  <2>1. m.kind # "input" /\ (inbox' = inbox \/ inbox' = Append(inbox, m))
    BY <1>7 DEF RevokeToken, PostOrDrop
  <2> HIDE DEF m
  <2> QED BY <1>3, <2>1
<1>8. ASSUME StopAll \/ SweepZeroPlayers
      PROVE  InputsPending(inbox, dc, bySession, joined)'
  <2>1. PICK k \in {"shutdown", "abort"} : inbox' = inbox \/ inbox' = Append(inbox, [kind |-> k])
    BY <1>8 DEF StopAll, SweepZeroPlayers, Post, PostOrDrop
  <2> DEFINE m == [kind |-> k]
  <2>2. m.kind # "input" /\ (inbox' = inbox \/ inbox' = Append(inbox, m))  BY <2>1
  <2> HIDE DEF m
  <2> QED BY <1>3, <2>2
<1> QED BY <1>2, <1>4, <1>5, <1>6, <1>7, <1>8
        DEF Net, Dial, JoinTimeout, WriterSend, WriterClose

(* InputInv is inductive, given Wiring and GraceInv.                       *)
LEMMA InputStep == TypeOK /\ GraceInv /\ Wiring /\ InputInv /\ [Next]_vars => InputInv'
<1> SUFFICES ASSUME TypeOK, GraceInv, Wiring, InputInv, [Next]_vars, state' # "ended"
             PROVE  InputInv'
  BY DEF InputInv
<1>1. CASE WarmupTimeout
  <2>1. /\ Start(joined, joinedCount, out) /\ UNCHANGED <<inbox, dc, bySession, pending>>
        /\ state = "waiting"
    BY <1>1 DEF WarmupTimeout, StartAborts, Abort, CloseAll
  <2>2. joined' \subseteq joined  BY <2>1, SendKeepsUnbound DEF Start
  <2>3. InputsPending(inbox, dc, bySession, joined)'  BY <2>1, <2>2, InputsKept DEF InputInv
  <2> QED BY <2>1, <2>3 DEF InputInv
<1>2. CASE JoinAccepted
  <2> DEFINE p == token[Head(inbox).conn]
             j == joined \cup {p}
  <2>1. /\ state = "waiting" /\ inbox # <<>> /\ p \in bySession
        /\ UNCHANGED <<dc, pending>> /\ bySession' = bySession \ {p}
    BY <1>2 DEF JoinAccepted, Receive, Admissible
  <2>2. /\ inbox' = Tail(inbox)
        /\ \E S, o : SendFrameTo(S, j, joinedCount + 1, o)
    BY <1>2 DEF JoinAccepted, StartAborts, Start, Abort, CloseAll
  <2>3. joined' \subseteq j  BY <2>2, SendKeepsUnbound
  <2>4. InputsPending(inbox, dc, bySession, joined)'
    <3> HIDE DEF p
    <3> QED BY <2>1, <2>2, <2>3, InputsHandled
  <2> QED BY <2>1, <2>4 DEF InputInv
<1>3. CASE Reconnect
  <2> DEFINE p == token[Head(inbox).conn]
  <2>1. /\ state # "ended" /\ inbox # <<>> /\ inbox' = Tail(inbox)
        /\ UNCHANGED <<state, tick, bySession, pending>>
    BY <1>3 DEF Reconnect, Receive, simVars
  <2>2. /\ dc' \subseteq dc /\ joined' \subseteq joined
        /\ \A q \in dc' : dcDeadline'[q] = dcDeadline[q]
    <3>1. CASE Reconnectable(p)
      <4>1. /\ dc' = dc \ {p} /\ dcDeadline' = [dcDeadline EXCEPT ![p] = 0]
            /\ \E o : SendFrameTo(joined \cup {p}, joined, joinedCount, o)
        BY <1>3, <3>1 DEF Reconnect
      <4>2. dc \subseteq Players /\ dcDeadline \in [Players -> Nat]  BY DEF TypeOK
      <4>3. joined' \subseteq joined
        <5> HIDE DEF p
        <5> QED BY <4>1, SendKeepsUnbound
      <4>4. \A q \in dc' : dcDeadline'[q] = dcDeadline[q]
        <5> HIDE DEF p
        <5> QED BY <4>1, <4>2
      <4> QED BY <4>1, <4>3, <4>4
    <3>2. CASE ~Reconnectable(p)
      <4>1. UNCHANGED <<dc, dcDeadline, joined>>  BY <1>3, <3>2 DEF Reconnect
      <4> QED BY <4>1
    <3> QED BY <3>1, <3>2
  <2>3. InputsPending(inbox, dc, bySession, joined)'  BY <2>1, <2>2, InputsHandled
  <2> QED BY <2>1, <2>2, <2>3 DEF InputInv
<1>4. CASE HandleDC
  <2> DEFINE p == Head(inbox).player
  <2>1. /\ state # "ended" /\ inbox # <<>> /\ inbox' = Tail(inbox) /\ Head(inbox).kind = "dc"
        /\ UNCHANGED <<state, tick, bySession, pending>>
    BY <1>4 DEF HandleDC, Receive, Quiet, simVars
  <2>2. /\ joined' \subseteq joined
        /\ \A q \in dc' : q \in dc \/ (q = p /\ p \in joined)
        /\ state = "live" =>
             \A q \in dc' : dcDeadline'[q] = tick + Grace \/ (q \in dc /\ dcDeadline'[q] = dcDeadline[q])
    <3>1. CASE p \in slots \cap joined /\ p \notin dc
      <4>1. /\ dc' = dc \cup {p} /\ \E o : SendFrameTo(joined, joined, joinedCount, o)
            /\ state = "live" => dcDeadline' = [dcDeadline EXCEPT ![p] = tick + Grace]
        BY <1>4, <3>1 DEF HandleDC
      <4>2. joined' \subseteq joined  BY <4>1, SendKeepsUnbound
      <4>3. dc \subseteq Players /\ dcDeadline \in [Players -> Nat] /\ p \in Players
        BY <3>1 DEF TypeOK
      <4>4. state = "live" => \A q \in Players : dcDeadline'[q] = IF q = p THEN tick + Grace
                                                                          ELSE dcDeadline[q]
        <5> HIDE DEF p
        <5> QED BY <4>1, <4>3
      <4> HIDE DEF p
      <4> QED BY <3>1, <4>1, <4>2, <4>3, <4>4
    <3>2. CASE ~(p \in slots \cap joined /\ p \notin dc)
      <4>1. UNCHANGED <<dc, dcDeadline, joined>>  BY <1>4, <3>2 DEF HandleDC
      <4> QED BY <4>1
    <3> QED BY <3>1, <3>2
  <2>3. InputsPending(inbox, dc, bySession, joined)'  BY <2>1, <2>2, InputsHandled
  <2> QED BY <2>1, <2>2, <2>3 DEF InputInv
<1>5. CASE HandleInput
  <2> DEFINE p == Head(inbox).player
  <2>1. /\ state # "ended" /\ inbox # <<>> /\ inbox' = Tail(inbox) /\ Head(inbox).kind = "input"
        /\ UNCHANGED <<state, tick, bySession, dc, dcDeadline, joined>>
        /\ pending' = pending \/ (state = "live" /\ pending' = pending \cup {p})
    BY <1>5 DEF HandleInput, Receive, Quiet, simVars
  <2>2. p \notin dc  BY <2>1, TailOf DEF InputInv, InputsPending
  <2>3. InputsPending(inbox, dc, bySession, joined)'  BY <2>1, InputsHandled
  <2> HIDE DEF p
  <2> QED BY <2>1, <2>2, <2>3 DEF InputInv
<1>6. CASE JoinRefused \/ HandleChat \/ HandleRevoke
  <2>1. /\ state # "ended" /\ inbox # <<>> /\ inbox' = Tail(inbox) /\ bySession' \subseteq bySession
        /\ UNCHANGED <<state, tick, dc, dcDeadline, joined, pending>>
    BY <1>6 DEF JoinRefused, HandleChat, HandleRevoke, Receive, Quiet, simVars
  <2>2. InputsPending(inbox, dc, bySession, joined)'  BY <2>1, InputsHandled
  <2> QED BY <2>1, <2>2 DEF InputInv
<1>7. CASE HandleClientPing
  <2>1. /\ state # "ended" /\ inbox # <<>> /\ inbox' = Tail(inbox)
        /\ UNCHANGED <<state, tick, dc, dcDeadline, bySession, pending>>
        /\ \E S : SendFrameTo(S, joined, joinedCount, out)
    BY <1>7 DEF HandleClientPing, Receive, Quiet, simVars
  <2>2. joined' \subseteq joined  BY <2>1, SendKeepsUnbound
  <2>3. InputsPending(inbox, dc, bySession, joined)'  BY <2>1, <2>2, InputsHandled
  <2> QED BY <2>1, <2>3 DEF InputInv
<1>8. CASE Tick
  <2>1. /\ state = "live" /\ pending' = {} /\ dc' \subseteq dc /\ UNCHANGED <<inbox, bySession, state>>
        /\ \E told, n : SendFrameTo(told, joined \ Expired, n, out)
    BY <1>8 DEF Tick, TickWith, DropDCSlots, CloseAll
  <2>2. joined' \subseteq joined  BY <2>1, SendKeepsUnbound
  <2>3. InputsPending(inbox, dc, bySession, joined)'  BY <2>1, <2>2, InputsKept DEF InputInv
  <2> QED BY <2>1, <2>3 DEF InputInv
<1>9. CASE Shutdown \/ TickFails \/ HandleAbort \/ HandleLast \/ Absorb
  BY <1>9 DEF Shutdown, TickFails, HandleAbort, Abort, CloseAll, HandleLast, Absorb, TypeOK
<1>10. CASE Net  BY <1>10, InputNet
<1>11. CASE UNCHANGED vars
  BY <1>11 DEF vars, slotVars, simVars, InputInv, InputsPending
<1> QED BY <1>1, <1>2, <1>3, <1>4, <1>5, <1>6, <1>7, <1>8, <1>9, <1>10, <1>11
        DEF Next, Run, HandleControl, Terminated

(* No input is handled later than the drop of its connection, so that none *)
(* is buffered in DC-grace that was not there when it began.               *)
THEOREM InputCorrect == Safety => []InputInv
<1>1. Init => InputInv
  BY DEF Init, NewMatch, InputInv, InputsPending
<1> QED BY <1>1, InputStep, TypeCorrect, GraceInvCorrect, WiringCorrect, PTL DEF Safety

(* In every running match, however large, a slot is in DC-grace exactly    *)
(* while its token is redeemable, unbound, in the sim, with a deadline     *)
(* that is armed and not reached, and without an input once the match has  *)
(* ticked.                                                                 *)
THEOREM GraceCorrect == Safety => []GraceConsistent
<1>1. GraceInv /\ TypeOK /\ InputInv => GraceConsistent
  BY DEF GraceInv, InputInv, GraceConsistent, TypeOK
<1> QED BY <1>1, GraceInvCorrect, TypeCorrect, InputCorrect, PTL

-----------------------------------------------------------------------------
(* Joins that wait for their answer.                                       *)

(* Whoever waits for the answer of a join has it in the inbox q.           *)
JoinsPosted(q, k) ==
  \A c \in Conns : k[c] = "joining" => \E i \in DOMAIN q : q[i] = [kind |-> "join", conn |-> c]

JoinInv == ~done => JoinsPosted(inbox, conn)

(* A handler that answers the join it takes off the inbox, if it took one. *)
LEMMA PostedTail ==
  ASSUME TypeOK, JoinsPosted(inbox, conn), inbox # <<>>, inbox' = Tail(inbox),
         \/ Head(inbox).kind # "join" /\ UNCHANGED conn
         \/ \E how \in {"open", "gone"} : Reply(Head(inbox).conn, how)
  PROVE  JoinsPosted(inbox, conn)'
<1> SUFFICES ASSUME NEW c \in Conns, conn'[c] = "joining"
             PROVE  \E i \in DOMAIN inbox' : inbox'[i] = [kind |-> "join", conn |-> c]
  BY DEF JoinsPosted
<1>1. conn[c] = "joining" /\ Head(inbox) # [kind |-> "join", conn |-> c]
  <2>1. CASE Head(inbox).kind # "join" /\ UNCHANGED conn  BY <2>1
  <2>2. CASE \E how \in {"open", "gone"} : Reply(Head(inbox).conn, how)
    BY <2>2 DEF Reply, TypeOK
  <2> QED BY <2>1, <2>2
<1>2. PICK i \in DOMAIN inbox : inbox[i] = [kind |-> "join", conn |-> c]
  BY <1>1 DEF JoinsPosted
<1>3. inbox \in Seq(Message) /\ inbox[1] = Head(inbox)  BY TailOf DEF TypeOK
<1>4. i \in Nat /\ i # 1 /\ i <= Len(inbox) /\ i >= 1  BY <1>1, <1>2, <1>3
<1>5. i - 1 \in DOMAIN Tail(inbox) /\ Tail(inbox)[i - 1] = inbox[i]  BY <1>3, <1>4
<1> QED BY <1>2, <1>5

(* Posting a message loses none.                                           *)
LEMMA PostedPost ==
  ASSUME TypeOK, JoinsPosted(inbox, conn), NEW m,
         inbox' = inbox \/ inbox' = Append(inbox, m),
         \A c \in Conns : conn'[c] = "joining" =>
            conn[c] = "joining" \/ (m = [kind |-> "join", conn |-> c] /\ inbox' # inbox)
  PROVE  JoinsPosted(inbox, conn)'
<1> SUFFICES ASSUME NEW c \in Conns, conn'[c] = "joining"
             PROVE  \E i \in DOMAIN inbox' : inbox'[i] = [kind |-> "join", conn |-> c]
  BY DEF JoinsPosted
<1>1. inbox \in Seq(Message) /\ Len(inbox) \in Nat  BY DEF TypeOK
<1>2. /\ DOMAIN inbox \subseteq DOMAIN Append(inbox, m)
      /\ \A i \in DOMAIN inbox : Append(inbox, m)[i] = inbox[i]
      /\ Len(inbox) + 1 \in DOMAIN Append(inbox, m) /\ Append(inbox, m)[Len(inbox) + 1] = m
  BY <1>1
<1>3. CASE conn[c] = "joining"
  <2>1. PICK i \in DOMAIN inbox : inbox[i] = [kind |-> "join", conn |-> c]
    BY <1>3 DEF JoinsPosted
  <2> QED BY <1>2, <2>1
<1>4. CASE m = [kind |-> "join", conn |-> c] /\ inbox' # inbox
  BY <1>2, <1>4
<1> QED BY <1>3, <1>4

(* The end of a match answers every join that waits.                       *)
LEMMA PostedDrain ==
  ASSUME TypeOK, DrainInboxAfterEnd(None)
  PROVE  JoinsPosted(inbox, conn)'
BY MatchAssumption DEF DrainInboxAfterEnd, JoinsPosted

(* No step leaves a join unanswered, until Run returns.                    *)
LEMMA JoinStep == TypeOK /\ JoinInv /\ [Next]_vars => JoinInv'
<1> SUFFICES ASSUME TypeOK, JoinInv, [Next]_vars, ~done'
             PROVE  JoinsPosted(inbox, conn)'
  BY DEF JoinInv
<1>1. CASE UNCHANGED <<inbox, conn, done>>
  BY <1>1 DEF JoinInv, JoinsPosted
<1>2. CASE WarmupTimeout \/ Tick
  <2>1. CASE WarmupTimeout
    BY <1>1, <2>1, PostedDrain DEF WarmupTimeout, StartAborts
  <2>2. CASE Tick
    <3>1. state = "live" /\ state' # "ended"  BY <2>2 DEF Tick, ReturnIfEnded
    <3>2. ~done  BY <3>1 DEF TypeOK
    <3>3. UNCHANGED <<inbox, conn>>  BY <2>2, <3>1 DEF Tick, TickWith, CloseAll
    <3> QED BY <3>2, <3>3 DEF JoinInv, JoinsPosted
  <2> QED BY <1>2, <2>1, <2>2
<1>3. CASE JoinAccepted \/ JoinRefused \/ Reconnect
  <2>1. /\ state # "ended" /\ inbox # <<>> /\ inbox' = Tail(inbox)
        /\ \E how \in {"open", "gone"} : Reply(Head(inbox).conn, how)
    <3>1. CASE JoinAccepted
      <4>1. state' # "ended"  BY <3>1 DEF JoinAccepted, ReturnIfEnded
      <4> QED BY <3>1, <4>1 DEF JoinAccepted, StartAborts, Receive, Abort, CloseAll
    <3>2. CASE JoinRefused \/ Reconnect
      BY <3>2 DEF JoinRefused, Reconnect, Receive
    <3> QED BY <1>3, <3>1, <3>2
  <2> QED BY <2>1, PostedTail DEF JoinInv, TypeOK
<1>4. CASE HandleDC \/ HandleInput \/ HandleClientPing \/ HandleChat \/ HandleRevoke
  <2>1. state # "ended" /\ inbox # <<>> /\ inbox' = Tail(inbox) /\ Head(inbox).kind # "join"
        /\ UNCHANGED conn
    BY <1>4 DEF HandleDC, HandleInput, HandleClientPing, HandleChat, HandleRevoke, Receive, Quiet
  <2> QED BY <2>1, PostedTail DEF JoinInv, TypeOK
<1>5. CASE Shutdown \/ HandleAbort \/ TickFails \/ HandleLast \/ Absorb
  <2>1. CASE Shutdown \/ HandleAbort \/ TickFails
    BY <2>1, PostedDrain DEF Shutdown, HandleAbort, TickFails
  <2>2. CASE HandleLast \/ Absorb  BY <2>2 DEF HandleLast, Absorb
  <2> QED BY <1>5, <2>1, <2>2
<1>6. CASE Net
  <2>1. ~done /\ conn \in [Conns -> ConnState]
    BY <1>6 DEF Net, Producer, Dial, SubmitJoin, JoinTimeout, ClientFrame, UnblockInput,
       Disconnect, WriterSend, WriterClose, RevokeToken, SweepZeroPlayers, StopAll, TypeOK
  <2>2. JoinsPosted(inbox, conn)  BY <2>1 DEF JoinInv
  <2>3. ASSUME NEW c \in Conns, SubmitJoin(c)  PROVE JoinsPosted(inbox, conn)'
    <3> DEFINE m == [kind |-> "join", conn |-> c]
    <3>1. inbox' = Append(inbox, m) /\ conn' = [conn EXCEPT ![c] = "joining"]
      BY <2>1, <2>3 DEF SubmitJoin, Post, Reply
    <3>2. inbox' # inbox
      <4>1. Len(Append(inbox, m)) = Len(inbox) + 1 /\ Len(inbox) \in Nat  BY DEF TypeOK
      <4> HIDE DEF m
      <4> QED BY <3>1, <4>1
    <3>3. \A d \in Conns : conn'[d] = "joining" => conn[d] = "joining" \/ d = c
      BY <2>1, <3>1
    <3> QED BY <2>2, <3>1, <3>2, <3>3, PostedPost
  <2>4. ASSUME NEW m, inbox' = inbox \/ inbox' = Append(inbox, m),
               \A c \in Conns : conn'[c] = "joining" => conn[c] = "joining"
        PROVE  JoinsPosted(inbox, conn)'
    BY <2>2, <2>4, PostedPost
  <2>5. ASSUME NEW c \in Conns, \/ Dial(c) \/ JoinTimeout(c) \/ ClientFrame(c) \/ UnblockInput(c)
                                \/ Disconnect(c) \/ WriterSend(c) \/ WriterClose(c)
        PROVE  JoinsPosted(inbox, conn)'
    <3>1. \E m : inbox' = inbox \/ inbox' = Append(inbox, m)
      BY <2>5 DEF Dial, JoinTimeout, ClientFrame, UnblockInput, Disconnect, WriterSend, WriterClose,
         Post, PostOrDrop
    <3>2. \A d \in Conns : conn'[d] = "joining" => conn[d] = "joining"
      BY <2>1, <2>5 DEF Dial, JoinTimeout, ClientFrame, UnblockInput, Disconnect, WriterSend,
         WriterClose, Reply
    <3> QED BY <2>4, <3>1, <3>2
  <2>6. ASSUME (\E p \in Players : RevokeToken(p)) \/ SweepZeroPlayers \/ StopAll
        PROVE  JoinsPosted(inbox, conn)'
    <3>1. (\E m : inbox' = inbox \/ inbox' = Append(inbox, m)) /\ UNCHANGED conn
      BY <2>6 DEF RevokeToken, SweepZeroPlayers, StopAll, Post, PostOrDrop
    <3> QED BY <2>4, <3>1
  <2> QED BY <1>6, <2>3, <2>5, <2>6 DEF Net
<1> QED BY <1>1, <1>2, <1>3, <1>4, <1>5, <1>6
        DEF Next, Run, HandleControl, Terminated, vars, netVars

-----------------------------------------------------------------------------
(* What Wiring says of the match.                                          *)

(* No handler ever sends on a closed channel, and a slot only ever writes  *)
(* to a connection that presented the slot's own token.                    *)
THEOREM NoSendOnClosedCorrect == Safety => []NoSendOnClosed
<1>1. Wiring => NoSendOnClosed  BY DEF Wiring, WiredTo, NoSendOnClosed
<1> QED BY <1>1, WiringCorrect, PTL

(* No admitted connection's writer is ever abandoned, and no join until    *)
(* Run returns.                                                            *)
THEOREM NoConnAbandonedCorrect == Safety => []NoConnAbandoned
<1>1. Init => JoinInv
  BY DEF Init, NewMatch, JoinInv, JoinsPosted
<1>2. TypeOK /\ Wiring /\ JoinInv => NoConnAbandoned
  BY DEF TypeOK, Wiring, Fed, JoinInv, JoinsPosted, NoConnAbandoned
<1> QED BY <1>1, <1>2, JoinStep, WiringCorrect, TypeCorrect, PTL DEF Safety

(* The end of a match, whichever of its four ways it takes, releases every *)
(* slot and channel.                                                       *)
THEOREM EndReleasesAllCorrect == Safety => []EndReleasesAll
<1>1. TypeOK /\ Wiring /\ CountMatchesSlots => EndReleasesAll
  <2> SUFFICES ASSUME TypeOK, Wiring, CountMatchesSlots, state = "ended"
               PROVE  /\ joined = {} /\ joinedCount = 0
                      /\ \A p \in Players : out[p] = None
                      /\ \A c \in Conns : conn[c] \in {"open", "blocked"} => c \in closed
    BY DEF EndReleasesAll
  <2>1. joined = {} /\ joinedCount = 0  BY FS_EmptySet DEF Wiring, CountMatchesSlots
  <2>2. \A p \in Players : out[p] = None  BY <2>1 DEF Wiring, WiredTo
  <2>3. \A c \in Conns : token[c] \in Players /\ c # None  BY MatchAssumption DEF TypeOK
  <2>4. \A c \in Conns : conn[c] \in {"open", "blocked"} => c \in closed
    BY <2>2, <2>3 DEF Wiring, Fed
  <2> QED BY <2>1, <2>2, <2>4
<1> QED BY <1>1, WiringCorrect, TypeCorrect, CountCorrect, PTL

-----------------------------------------------------------------------------
(* MatchActor implements MatchSeats.                                       *)

(* What a step of the match that does not end it does to the seats.        *)
SeatStep ==
  /\ state' = state \/ (state = "waiting" /\ state' = "live")
  /\ bySession' \subseteq bySession /\ slots' \subseteq slots
  /\ \A p \in joined' \ joined : state = "waiting" /\ p \in bySession
  /\ dc' \ dc \subseteq joined
  /\ state = "waiting" => dc \subseteq dc'

(* A burst, or the start, only ever takes slots out of the joined ones.    *)
LEMMA BurstUnjoins ==
  ASSUME NEW S, NEW j, NEW n, NEW o, SendFrameTo(S, j, n, o) \/ Start(j, n, o)
  PROVE  joined' \subseteq j
BY DEF SendFrameTo, MarkUnjoined, Start

(* A step that does not end the match moves the seats as SeatStep says.    *)
LEMMA NextSeatStep ==
  TypeOK /\ [Next]_vars /\ state # "ended" /\ state' # "ended" => SeatStep
<1> SUFFICES ASSUME TypeOK, [Next]_vars, state # "ended", state' # "ended"
             PROVE  SeatStep
  OBVIOUS
<1>1. CASE WarmupTimeout
  <2>1. Start(joined, joinedCount, out) /\ state = "waiting" /\ UNCHANGED <<bySession, slots, dc>>
    BY <1>1 DEF WarmupTimeout, StartAborts, Abort, CloseAll
  <2> QED BY <2>1, BurstUnjoins DEF SeatStep, Start
<1>2. CASE JoinAccepted
  <2> DEFINE c == Head(inbox).conn
             p == token[c]
             j == joined \cup {p}
             n == joinedCount + 1
             o == [out EXCEPT ![p] = c]
  <2>1. /\ state = "waiting" /\ p \in bySession /\ bySession' = bySession \ {p}
        /\ UNCHANGED <<slots, dc>>
    BY <1>2 DEF JoinAccepted, Admissible
  <2>2. \/ Start(j, n, o) /\ state' = "live"
        \/ SendFrameTo({p}, j, n, o) /\ state' = state
        \/ state' = "ended"
    BY <1>2, Zenon DEF JoinAccepted, StartAborts, Start, Abort, CloseAll
  <2>3. joined' \subseteq j
    <3> HIDE DEF j, n, o, p
    <3> QED BY <2>2, BurstUnjoins
  <2> QED BY <2>1, <2>2, <2>3 DEF SeatStep
<1>3. CASE Reconnect
  <2> DEFINE c == Head(inbox).conn
             p == token[c]
  <2>1. UNCHANGED <<state, bySession, slots>>  BY <1>3 DEF Reconnect
  <2>2. \/ /\ state = "live" /\ dc' = dc \ {p}
           /\ SendFrameTo(joined \cup {p}, joined, joinedCount, [out EXCEPT ![p] = c])
        \/ UNCHANGED <<dc, joined>>
    BY <1>3 DEF Reconnect, Reconnectable
  <2>3. joined' \subseteq joined  BY <2>2, BurstUnjoins
  <2> QED BY <2>1, <2>2, <2>3 DEF SeatStep
<1>4. CASE HandleDC
  <2> DEFINE p == Head(inbox).player
  <2>1. UNCHANGED <<state, bySession, slots>>  BY <1>4 DEF HandleDC, Quiet
  <2>2. \/ /\ p \in joined /\ dc' = dc \cup {p}
           /\ SendFrameTo(joined, joined, joinedCount, [out EXCEPT ![p] = None])
        \/ UNCHANGED <<dc, joined>>
    BY <1>4 DEF HandleDC
  <2>3. joined' \subseteq joined  BY <2>2, BurstUnjoins
  <2> QED BY <2>1, <2>2, <2>3 DEF SeatStep
<1>5. CASE HandleClientPing
  BY <1>5, BurstUnjoins DEF HandleClientPing, Quiet, SeatStep
<1>6. CASE Tick
  <2>1. state = "live" /\ UNCHANGED bySession /\ slots' \subseteq slots /\ dc' \subseteq dc
    BY <1>6 DEF Tick, TickWith, DropDCSlots
  <2>2. UNCHANGED state /\ \E told, n : SendFrameTo(told, joined \ Expired, n, out)
    BY <1>6 DEF Tick, TickWith, CloseAll
  <2>3. joined' \subseteq joined  BY <2>2, BurstUnjoins
  <2> QED BY <2>1, <2>2, <2>3 DEF SeatStep
<1>7. CASE JoinRefused \/ HandleInput \/ HandleChat \/ HandleRevoke
  BY <1>7 DEF JoinRefused, HandleInput, HandleChat, HandleRevoke, Quiet, SeatStep
<1>8. CASE Shutdown \/ TickFails \/ HandleAbort \/ HandleLast \/ Absorb
  BY <1>8 DEF Shutdown, TickFails, HandleAbort, Abort, CloseAll, HandleLast, Absorb, TypeOK
<1>9. CASE Net \/ UNCHANGED vars
  BY <1>9 DEF Net, vars, slotVars, Producer, Dial, SubmitJoin, JoinTimeout, ClientFrame,
     UnblockInput, Disconnect, WriterSend, WriterClose, RevokeToken,
     SweepZeroPlayers, StopAll, SeatStep
<1> QED BY <1>1, <1>2, <1>3, <1>4, <1>5, <1>6, <1>7, <1>8, <1>9
        DEF Next, Run, HandleControl, Terminated

(* The end of a match is final.                                            *)
LEMMA EndedStays == [Next]_vars /\ state = "ended" => state' = "ended"
BY DEF Next, Run, HandleControl, WarmupTimeout, JoinAccepted, JoinRefused, Reconnect, HandleDC,
   HandleInput, HandleClientPing, HandleChat, HandleRevoke, Shutdown, HandleAbort, Receive, Tick, TickFails,
   HandleLast, Absorb, Net, Terminated, vars, Producer, Dial, SubmitJoin, JoinTimeout, ClientFrame,
   UnblockInput, Disconnect, WriterSend, WriterClose, RevokeToken,
     SweepZeroPlayers, StopAll

Kinds == {"reserved", "seated", "away", "void"}

(* Every step of the match is a step of MatchSeats, or a stutter.          *)
LEMMA SeatStepImplements ==
  ASSUME TypeOK, TypeOK', GraceInv, GraceInv', Wiring, Wiring', [Next]_vars
  PROVE  [Seats!Step]_<<state, [p \in Players |-> SeatOf(p)]>>
<1> DEFINE seat == [p \in Players |-> SeatOf(p)]
           seatN == [p \in Players |-> SeatOf(p)']
<1>1. seat' = seatN  OBVIOUS
<1>2. \A p \in Players : SeatOf(p)' \in Kinds /\ SeatOf(p) \in Kinds  BY DEF SeatOf, Kinds
<1>3. CASE state = "ended"
  <2>1. state' = "ended"  BY <1>3, EndedStays
  <2>2. \A p \in Players : SeatOf(p) = "void" /\ SeatOf(p)' = "void"  BY <1>3, <2>1 DEF SeatOf
  <2> QED BY <1>3, <2>1, <2>2
<1>4. CASE state # "ended"
  <2>1. state' \in Seats!NextPhases
    <3>1. state \in {"waiting", "live"} /\ state' \in {"waiting", "live", "ended"}
      BY <1>4 DEF TypeOK
    <3>2. state' = "ended" \/ state' = state \/ (state = "waiting" /\ state' = "live")
      BY <1>4, NextSeatStep DEF SeatStep
    <3> QED BY <3>1, <3>2 DEF Seats!NextPhases
  <2>2. ASSUME NEW p \in Players  PROVE SeatOf(p)' \in Seats!Reach(SeatOf(p), state')
    <3>1. CASE state' = "ended"  BY <3>1 DEF SeatOf, Seats!Reach
    <3>2. CASE state' # "ended"
      <4>1. SeatStep  BY <1>4, <3>2, NextSeatStep
      <4>2. /\ dc \subseteq joined /\ dc' \subseteq joined' /\ joined \subseteq slots
            /\ joined' \subseteq slots' /\ bySession \cap joined = {}
        BY <1>4, <3>2 DEF GraceInv, Wiring
      <4>3. state \in {"waiting", "live"} /\ state' \in {"waiting", "live"}
        BY <1>4, <3>2 DEF TypeOK
      <4>4. CASE p \in joined /\ p \in dc
        <5>1. SeatOf(p) = "away"  BY <4>2, <4>3, <4>4 DEF SeatOf
        <5>2. CASE state = "waiting"
          <6>1. p \in dc' /\ p \in joined' /\ p \in slots'  BY <4>1, <4>2, <4>4, <5>2 DEF SeatStep
          <6>2. SeatOf(p)' = "away"  BY <4>3, <6>1 DEF SeatOf
          <6> QED BY <3>2, <5>1, <5>2, <6>2 DEF Seats!Reach
        <5>3. CASE state = "live"
          <6>1. state' = "live"  BY <4>1, <5>3 DEF SeatStep
          <6>2. SeatOf(p)' \in {"away", "seated", "void"}  BY <6>1 DEF SeatOf
          <6> QED BY <3>2, <5>1, <5>3, <6>2 DEF Seats!Reach
        <5> QED BY <4>3, <5>2, <5>3
      <4>5. CASE p \in joined /\ p \notin dc
        <5>1. SeatOf(p) = "seated"  BY <4>2, <4>3, <4>5 DEF SeatOf
        <5>2. p \notin bySession'  BY <4>1, <4>2, <4>5 DEF SeatStep
        <5>3. SeatOf(p)' \in {"seated", "away", "void"}  BY <5>2 DEF SeatOf
        <5> QED BY <3>2, <5>1, <5>3 DEF Seats!Reach
      <4>6. CASE p \notin joined /\ state = "waiting" /\ p \in bySession /\ p \in slots
        <5>1. SeatOf(p) = "reserved"  BY <4>3, <4>6 DEF SeatOf
        <5>2. p \notin dc'  BY <4>1, <4>2, <4>6 DEF SeatStep
        <5>3. CASE state' = "waiting"
          <6>1. SeatOf(p)' \in {"reserved", "seated", "void"}  BY <5>2 DEF SeatOf
          <6> QED BY <4>6, <5>1, <5>3, <6>1 DEF Seats!Reach
        <5>4. CASE state' = "live"
          <6>1. SeatOf(p)' \in {"seated", "void"}  BY <5>2, <5>4 DEF SeatOf
          <6> QED BY <4>6, <5>1, <5>4, <6>1 DEF Seats!Reach
        <5> QED BY <4>3, <5>3, <5>4
      <4>7. CASE p \notin joined /\ ~(state = "waiting" /\ p \in bySession /\ p \in slots)
        <5>1. SeatOf(p) = "void"  BY <4>7 DEF SeatOf
        <5>2. SeatOf(p)' = "void"
          <6>1. p \notin joined' \/ p \notin slots'  BY <4>1, <4>2, <4>7 DEF SeatStep
          <6>2. ~(state' = "waiting" /\ p \in bySession' /\ p \in slots')
            BY <4>1, <4>3, <4>7 DEF SeatStep
          <6> QED BY <6>1, <6>2 DEF SeatOf
        <5> QED BY <3>2, <5>1, <5>2 DEF Seats!Reach
      <4> QED BY <4>4, <4>5, <4>6, <4>7
    <3> QED BY <3>1, <3>2
  <2>3. seat' \in [Players -> Kinds]  BY <1>1, <1>2
  <2>4. \A p \in Players : seat[p] = SeatOf(p) /\ seat'[p] = SeatOf(p)'  BY <1>1
  <2>5. \A p \in Players : seat'[p] \in Seats!Reach(seat[p], state')  BY <2>2, <2>4
  <2> QED BY <2>1, <2>3, <2>5 DEF Seats!Step, Kinds
<1> QED BY <1>3, <1>4

(* The match implements the seats it promises, whatever the players,       *)
(* connections and capacities: no seat is taken twice, given back, or lost *)
(* to anything but the ends MatchSeats allows, and the end is final.       *)
THEOREM SeatsCorrect == Safety => SeatsSpec
<1>1. Init => Seats!Init
  <2> SUFFICES ASSUME Init PROVE Seats!Init  OBVIOUS
  <2>1. \A p \in Players : SeatOf(p) = "reserved"  BY DEF Init, NewMatch, SeatOf
  <2>2. state = "waiting"  BY DEF Init, NewMatch
  <2> QED BY <2>1, <2>2 DEF Seats!Init
<1>2. /\ TypeOK /\ TypeOK' /\ GraceInv /\ GraceInv' /\ Wiring /\ Wiring' /\ [Next]_vars
      => [Seats!Step]_<<state, [p \in Players |-> SeatOf(p)]>>
  BY SeatStepImplements
<1> QED BY <1>1, <1>2, TypeCorrect, GraceInvCorrect, WiringCorrect, PTL
        DEF Safety, SeatsSpec, Seats!Spec
=============================================================================
