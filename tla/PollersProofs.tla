---------------------------- MODULE PollersProofs ----------------------------
(***************************************************************************)
(* The tasks that poll for ever (main.py): the reminder and digest passes  *)
(* of Notices, the mail poller of MailIntake and the campaigns of          *)
(* FollowUps.  Those that keep a table of what they have dealt with        *)
(* implement AtLeastOnce.  With it what each of them promises of its own,  *)
(* for every set of cases, stages, mails and people, every period, window  *)
(* and cadence, and any number of passes and polls that are cut short.     *)
(***************************************************************************)
EXTENDS Notices, MailIntake, FollowUps, FiniteSetTheorems, TLAPS

-----------------------------------------------------------------------------
(* The list of a pass, and the weeks *)

\* SetToSeq lists each member of a finite set, once.
LEMMA SetToSeqLists ==
  ASSUME NEW S, IsFiniteSet(S)
  PROVE  /\ SetToSeq(S) \in Seq(S)
         /\ \A a, b \in 1 .. Len(SetToSeq(S)) :
              SetToSeq(S)[a] = SetToSeq(S)[b] => a = b
<1> DEFINE n == Cardinality(S)
           f == SetToSeq(S)
<1>1. n \in Nat /\ ExistsBijection(1 .. n, S)
  BY FS_CardinalityType
<1>2. \E g \in [1 .. n -> S] : IsInjective(g)
  BY <1>1 DEF ExistsBijection, Bijection, Injection
<1>3. f \in [1 .. n -> S] /\ IsInjective(f)
  BY <1>2 DEF SetToSeq
<1>4. \A a, b \in DOMAIN f : f[a] = f[b] => a = b
  BY <1>3 DEF IsInjective
<1> HIDE DEF n, f
<1>5. f \in Seq(S) /\ DOMAIN f = 1 .. n /\ Len(f) = n
  BY <1>1, <1>3
<1>6. QED
  BY <1>4, <1>5 DEF f

LEMMA DueListed ==
  /\ SetToSeq(Due) \in Seq(Reminders)
  /\ \A a \in 1 .. Len(SetToSeq(Due)) : SetToSeq(Due)[a] \in Due
  /\ \A a, b \in 1 .. Len(SetToSeq(Due)) :
       SetToSeq(Due)[a] = SetToSeq(Due)[b] => a = b
<1>1. IsFiniteSet(Due)
  <2>1. IsFiniteSet(Reminders)
    BY NoticesAssumption, FS_Product DEF Reminders
  <2>2. Due \in SUBSET Reminders
    BY DEF Due
  <2>3. QED
    BY <2>1, <2>2, FS_Subset
<1>2. /\ SetToSeq(Due) \in Seq(Due)
      /\ \A a, b \in 1 .. Len(SetToSeq(Due)) :
           SetToSeq(Due)[a] = SetToSeq(Due)[b] => a = b
  BY <1>1, SetToSeqLists
<1>3. Due \subseteq Reminders
  BY DEF Due
<1>4. QED
  BY <1>2, <1>3

LEMMA WeekTyped ==
  ASSUME now \in Days
  PROVE  ThisWeek \in Weeks
BY DEF ThisWeek, Weeks

LEMMA WeeksAreNumbers ==
  /\ Weeks \subseteq Nat
  /\ NoWeek \in Nat
BY NoticesAssumption DEF Weeks, Days, NoWeek

LEMMA WeeksGoOn ==
  ASSUME now \in Days, now' = now + 1
  PROVE  ThisWeek <= ThisWeek'
<1>1. \A n \in Nat : n \div Week <= (n + 1) \div Week
  BY NoticesAssumption
<1>2. QED
  BY <1>1, NoticesAssumption DEF ThisWeek, Days

-----------------------------------------------------------------------------
(***************************************************************************)
(* Type correctness of the calendar, of both passes and of the history.    *)
(***************************************************************************)
THEOREM NoticesTyping == Spec => []TypeOK
<1>1. Init => TypeOK
  <2>1. 0 \in Days /\ 0 \in Weeks
    <3>1. 0 \in Days /\ 0 \div Week = 0
      BY NoticesAssumption DEF Days
    <3>2. QED
      BY <3>1 DEF Weeks
  <2>2. 0 \in 0 .. MaxStops
    BY NoticesAssumption
  <2>3. ASSUME Init
        PROVE  /\ now \in Days /\ contacts \in Contacts /\ rbatch \in Seq(Reminders)
               /\ rpc = "idle" /\ dedup = {} /\ chat = FALSE
               /\ dpc = "idle" /\ dweek \in Weeks /\ drow = NoWeek
               /\ filed = {} /\ chats = 0 /\ stops \in 0 .. MaxStops
    BY <2>1, <2>2, <2>3 DEF Init, Contacts
  <2>4. ASSUME Init
        PROVE  /\ stage \in [Cases -> Stages \cup {NoStage}]
               /\ cards \in [Reminders -> Nat] /\ digests \in [Weeks -> Nat]
    BY <2>4 DEF Init
  <2>5. QED
    BY <2>3, <2>4 DEF TypeOK
<1>2. TypeOK /\ [Next]_vars => TypeOK'
  <2> SUFFICES ASSUME TypeOK, [Next]_vars PROVE TypeOK'
    OBVIOUS
  <2> USE DEF TypeOK, erp, reminding, digesting
  <2>1. CASE Tick
    <3>1. now' \in Days
      BY <2>1, NoticesAssumption DEF Tick, Days
    <3>2. QED
      BY <2>1, <3>1 DEF Tick
  <2>2. ASSUME NEW c \in Cases, StageMoves(c) PROVE TypeOK'
    BY <2>2 DEF StageMoves
  <2>3. CASE ContactsEdited
    BY <2>3 DEF ContactsEdited
  <2>4. CASE RemindList
    <3>1. rbatch' \in Seq(Reminders)
      BY <2>4, DueListed DEF RemindList
    <3>2. QED
      BY <2>4, <3>1 DEF RemindList
  <2>5. CASE RemindChat
    <3>1. /\ rpc' \in {"idle", "record", "card"}
          /\ rbatch' = rbatch \/ rbatch' = <<>>
          /\ rpc' # "idle" => rbatch' = rbatch /\ rbatch # <<>>
      BY <2>5 DEF RemindChat
    <3>2. rbatch' \in Seq(Reminders)
      <4>1. <<>> \in Seq(Reminders) /\ rbatch \in Seq(Reminders)
        OBVIOUS
      <4>2. QED
        BY <3>1, <4>1, Zenon
    <3>3. chats' \in Nat
      BY <2>5 DEF RemindChat
    <3>4. UNCHANGED <<erp, dedup, cards, chat, digesting, stops>>
      BY <2>5 DEF RemindChat
    <3>5. QED
      BY <3>1, <3>2, <3>3, <3>4
  <2>6. CASE RemindRecord
    BY <2>6 DEF RemindRecord
  <2>7. CASE RemindCard
    <3>1. Head(rbatch) \in Reminders
      BY <2>7 DEF RemindCard
    <3>2. cards' \in [Reminders -> Nat]
      BY <2>7, <3>1 DEF RemindCard
    <3>3. QED
      BY <2>7, <3>2 DEF RemindCard
  <2>8. CASE RemindMark
    <3>1. Head(rbatch) \in Reminders /\ Tail(rbatch) \in Seq(Reminders)
      BY <2>8 DEF RemindMark
    <3>2. QED
      BY <2>8, <3>1 DEF RemindMark
  <2>9. CASE RemindStop
    BY <2>9, NoticesAssumption DEF RemindStop
  <2>10. CASE DigestCard
    <3>1. digests' \in [Weeks -> Nat] /\ dweek' \in Weeks
      BY <2>10, WeekTyped DEF DigestCard
    <3>2. QED
      BY <2>10, <3>1 DEF DigestCard
  <2>11. CASE DigestRecord
    BY <2>11 DEF DigestRecord
  <2>12. CASE DigestStop
    BY <2>12, NoticesAssumption DEF DigestStop
  <2>13. CASE UNCHANGED vars
    BY <2>13 DEF vars
  <2>14. QED
    BY <2>1, <2>2, <2>3, <2>4, <2>5, <2>6, <2>7, <2>8, <2>9, <2>10, <2>11,
       <2>12, <2>13 DEF Next, Remind
<1>3. QED
  BY <1>1, <1>2, PTL DEF Spec

-----------------------------------------------------------------------------
(* The reminders *)

\* What is sent beyond the passes that were cut short.
Extra(b) == IF b THEN 1 ELSE 0

\* The card of i went out and its row is still to be written.
Pending(i) == rpc = "mark" /\ i = Head(rbatch)

(***************************************************************************)
(* The list names no card twice and none that is in the table; a card in   *)
(* the table was sent; one that is neither there nor just sent was sent    *)
(* only by passes that were cut short.                                     *)
(***************************************************************************)
CardsInv ==
    /\ \A a \in 1 .. Len(rbatch) : rbatch[a] \notin dedup
    /\ \A a, b \in 1 .. Len(rbatch) : rbatch[a] = rbatch[b] => a = b
    /\ \A i \in dedup : cards[i] > 0
    /\ rpc = "mark" => cards[Head(rbatch)] > 0
    /\ \A i \in Reminders : cards[i] <= stops + Extra(i \in dedup \/ Pending(i))
    /\ chats <= stops + Extra(chat \/ rpc = "record")

\* The first of a list is a reminder, and is not in the table.
LEMMA HeadFresh ==
  ASSUME TypeOK, CardsInv, rpc # "idle"
  PROVE  /\ Head(rbatch) \in Reminders
         /\ Head(rbatch) = rbatch[1] /\ 1 \in 1 .. Len(rbatch)
         /\ Head(rbatch) \notin dedup
BY DEF TypeOK, CardsInv

\* CardsInv holds in every reachable state.
THEOREM CardsInvariant == Spec => []CardsInv
<1>1. Init => CardsInv
  BY DEF Init, CardsInv, Extra, Pending
<1>2. TypeOK /\ CardsInv /\ [Next]_vars => CardsInv'
  <2> SUFFICES ASSUME TypeOK, CardsInv, [Next]_vars PROVE CardsInv'
    OBVIOUS
  <2> USE DEF Extra, Pending
  <2>1. CASE RemindList
    <3>1. rbatch' = SetToSeq(Due) /\ rpc' = "chat" /\ rpc = "idle"
          /\ UNCHANGED <<dedup, cards, chats, chat, stops>>
      BY <2>1 DEF RemindList
    <3>2. \A a \in 1 .. Len(rbatch') : rbatch'[a] \notin dedup'
      BY <3>1, DueListed DEF Due
    <3>3. \A a, b \in 1 .. Len(rbatch') : rbatch'[a] = rbatch'[b] => a = b
      BY <3>1, DueListed
    <3>4. QED
      BY <3>1, <3>2, <3>3 DEF CardsInv
  <2>2. CASE RemindChat
    BY <2>2 DEF RemindChat, CardsInv, TypeOK
  <2>3. CASE RemindRecord
    BY <2>3 DEF RemindRecord, CardsInv, TypeOK
  <2>4. CASE RemindCard
    <3> DEFINE h == Head(rbatch)
    <3>1. h \in Reminders /\ h \notin dedup
      BY <2>4, HeadFresh DEF RemindCard
    <3>2. /\ rpc = "card" /\ rpc' = "mark" /\ cards' = [cards EXCEPT ![h] = @ + 1]
          /\ UNCHANGED <<rbatch, dedup, chats, chat, stops>>
      BY <2>4 DEF RemindCard
    <3> HIDE DEF h
    <3>3. /\ cards'[h] = cards[h] + 1
          /\ \A i \in Reminders \ {h} : cards'[i] = cards[i]
          /\ \A i \in Reminders : cards[i] \in Nat
      BY <3>1, <3>2 DEF TypeOK
    <3>4. \A i \in Reminders : cards[i] <= stops + (IF i \in dedup THEN 1 ELSE 0)
      BY <3>2 DEF CardsInv
    <3>5. cards[h] <= stops /\ stops \in Nat
      BY <3>1, <3>4, NoticesAssumption DEF TypeOK
    <3>6. \A i \in Reminders :
            cards'[i] <= stops' + Extra(i \in dedup' \/ i = h)
      BY <3>1, <3>2, <3>3, <3>4, <3>5
    <3>7. \A i \in dedup' : cards'[i] > 0
      BY <3>1, <3>2, <3>3 DEF CardsInv, TypeOK
    <3>8. h = Head(rbatch') /\ cards'[h] > 0
      BY <3>1, <3>2, <3>3 DEF h
    <3>9. QED
      BY <3>2, <3>6, <3>7, <3>8 DEF CardsInv
  <2>5. CASE RemindMark
    <3>1. Head(rbatch) \in Reminders /\ Head(rbatch) = rbatch[1]
          /\ 1 \in 1 .. Len(rbatch)
      BY <2>5, HeadFresh DEF RemindMark
    <3>2. /\ rpc = "mark" /\ rpc' # "mark" /\ rpc' # "record"
          /\ dedup' = dedup \cup {rbatch[1]} /\ rbatch' = Tail(rbatch)
          /\ UNCHANGED <<cards, chats, chat, stops>>
      BY <2>5, <3>1 DEF RemindMark, digesting
    <3>3. \A a \in 1 .. Len(rbatch') :
            a + 1 \in 1 .. Len(rbatch) /\ rbatch'[a] = rbatch[a + 1]
      BY <3>1, <3>2 DEF TypeOK
    <3>4. \A a \in 1 .. Len(rbatch') : rbatch'[a] \notin dedup'
      <4>1. ASSUME NEW a \in 1 .. Len(rbatch') PROVE rbatch'[a] \notin dedup'
        <5>1. rbatch[a + 1] \notin dedup
          BY <3>3 DEF CardsInv
        <5>2. rbatch[a + 1] # rbatch[1]
          BY <3>1, <3>3 DEF CardsInv
        <5>3. QED
          BY <3>2, <3>3, <5>1, <5>2
      <4>2. QED
        BY <4>1
    <3>5. \A a, b \in 1 .. Len(rbatch') : rbatch'[a] = rbatch'[b] => a = b
      BY <3>3 DEF CardsInv
    <3>6. \A i \in dedup' : cards'[i] > 0
      BY <3>1, <3>2 DEF CardsInv
    <3>7. \A i \in Reminders : cards'[i] <= stops' + Extra(i \in dedup')
      BY <3>1, <3>2 DEF CardsInv
    <3>8. QED
      BY <3>2, <3>4, <3>5, <3>6, <3>7 DEF CardsInv
  <2>6. CASE RemindStop
    <3>1. /\ rpc' = "idle" /\ rbatch' = <<>> /\ stops' = stops + 1
          /\ UNCHANGED <<dedup, cards, chats, chat>>
      BY <2>6 DEF RemindStop
    <3>2. \A i \in Reminders : cards[i] <= stops + 1
      BY NoticesAssumption DEF CardsInv, TypeOK
    <3>3. chats <= stops + 1
      BY NoticesAssumption DEF CardsInv, TypeOK
    <3>4. \A i \in Reminders : cards'[i] <= stops' + Extra(i \in dedup')
      BY <3>1, <3>2, NoticesAssumption DEF TypeOK
    <3>5. QED
      BY <3>1, <3>3, <3>4, NoticesAssumption DEF CardsInv, TypeOK
  <2>7. CASE DigestStop
    <3>1. /\ stops' = stops + 1
          /\ UNCHANGED <<rpc, rbatch, dedup, cards, chats, chat>>
      BY <2>7 DEF DigestStop, reminding
    <3>2. \A i \in Reminders :
            cards'[i] <= stops' + Extra(i \in dedup' \/ Pending(i)')
      BY <3>1, NoticesAssumption DEF CardsInv, TypeOK
    <3>3. chats' <= stops' + Extra(chat' \/ rpc' = "record")
      BY <3>1, NoticesAssumption DEF CardsInv, TypeOK
    <3>4. QED
      BY <3>1, <3>2, <3>3 DEF CardsInv
  <2>8. CASE UNCHANGED <<reminding, stops>>
    BY <2>8 DEF reminding, CardsInv
  <2>9. QED
    BY <2>1, <2>2, <2>3, <2>4, <2>5, <2>6, <2>7, <2>8
       DEF Next, Remind, Tick, ContactsEdited, StageMoves, DigestCard,
           DigestRecord, vars
<1>3. QED
  BY <1>1, <1>2, NoticesTyping, PTL DEF Spec

-----------------------------------------------------------------------------
(* The digests *)

(***************************************************************************)
(* The table has one row, but weeks only go on: the row names the latest   *)
(* week that was filed, so a week other than the row's was never filed.    *)
(***************************************************************************)
DigestsInv ==
    /\ \A w \in filed : w <= drow /\ drow <= ThisWeek
    /\ dpc = "record" =>
         /\ dweek <= ThisWeek /\ digests[dweek] > 0
         /\ \A w \in filed : w < dweek
    /\ \A w \in filed : digests[w] > 0
    /\ \A w \in Weeks :
         digests[w] <= stops + Extra(w \in filed \/ (dpc = "record" /\ w = dweek))

\* A digest goes out for a week that is not filed yet.
LEMMA WeekFresh ==
  ASSUME TypeOK, DigestsInv, DigestCard
  PROVE  ThisWeek \in Weeks /\ \A w \in filed : w < ThisWeek
<1>1. ThisWeek \in Weeks
  BY WeekTyped DEF TypeOK
<1>2. \A w \in filed : w \in Nat /\ drow \in Nat /\ ThisWeek \in Nat
  BY <1>1, WeeksAreNumbers DEF TypeOK
<1>3. drow # ThisWeek
  BY DEF DigestCard
<1>4. QED
  BY <1>1, <1>2, <1>3 DEF DigestsInv

\* DigestsInv holds in every reachable state.
THEOREM DigestsInvariant == Spec => []DigestsInv
<1>1. Init => DigestsInv
  BY DEF Init, DigestsInv, Extra
<1>2. TypeOK /\ DigestsInv /\ [Next]_vars => DigestsInv'
  <2> SUFFICES ASSUME TypeOK, DigestsInv, [Next]_vars PROVE DigestsInv'
    OBVIOUS
  <2> USE DEF Extra
  <2>0. /\ ThisWeek \in Nat /\ drow \in Nat /\ dweek \in Nat /\ stops \in Nat
        /\ filed \subseteq Nat /\ Weeks \subseteq Nat
        /\ \A w \in Weeks : digests[w] \in Nat
    <3>1. stops \in Nat
      BY NoticesAssumption DEF TypeOK
    <3>2. Weeks \subseteq Nat /\ NoWeek \in Nat /\ ThisWeek \in Weeks
      BY WeekTyped, WeeksAreNumbers DEF TypeOK
    <3>3. QED
      BY <3>1, <3>2 DEF TypeOK
  <2>1. CASE Tick
    <3>1. ThisWeek <= ThisWeek' /\ ThisWeek' \in Nat
      <4>1. now' \in Days /\ now' = now + 1
        BY <2>1, NoticesAssumption DEF Tick, TypeOK, Days
      <4>2. \A n \in Nat : n \div Week \in Nat
        BY NoticesAssumption
      <4>3. ThisWeek' \in Nat
        BY <4>1, <4>2, NoticesAssumption DEF ThisWeek, Days
      <4>4. QED
        BY <4>1, <4>3, WeeksGoOn DEF TypeOK
    <3>2. UNCHANGED <<dpc, dweek, drow, digests, filed, stops>>
      BY <2>1 DEF Tick, digesting
    <3>3. \A w \in filed' : w <= drow' /\ drow' <= ThisWeek'
      BY <2>0, <3>1, <3>2 DEF DigestsInv
    <3>4. dpc' = "record" => dweek' <= ThisWeek'
      BY <2>0, <3>1, <3>2 DEF DigestsInv
    <3>5. QED
      BY <3>2, <3>3, <3>4 DEF DigestsInv
  <2>2. CASE DigestCard
    <3> DEFINE t == ThisWeek
    <3>1. t \in Weeks /\ \A w \in filed : w < t
      BY <2>2, WeekFresh
    <3>2. /\ dpc = "idle" /\ dpc' = "record" /\ dweek' = t
          /\ digests' = [digests EXCEPT ![t] = @ + 1]
          /\ UNCHANGED <<drow, filed, stops, now>>
      BY <2>2 DEF DigestCard, erp
    <3>3. ThisWeek' = t
      BY <3>2 DEF ThisWeek
    <3>4. t \in Nat
      BY <2>0
    <3> HIDE DEF t
    <3>5. /\ digests'[t] = digests[t] + 1
          /\ \A w \in Weeks \ {t} : digests'[w] = digests[w]
      BY <3>1, <3>2 DEF TypeOK
    <3>6. \A w \in Weeks : digests[w] <= stops + (IF w \in filed THEN 1 ELSE 0)
      BY <3>2 DEF DigestsInv
    <3>7. t \notin filed /\ digests[t] \in Nat /\ digests[t] <= stops
      <4>1. t \notin filed
        BY <3>1, <3>4
      <4>2. QED
        BY <2>0, <3>1, <3>6, <4>1
    <3>8. \A w \in Weeks : digests'[w] <= stops' + Extra(w \in filed' \/ w = t)
      BY <2>0, <3>1, <3>2, <3>5, <3>6, <3>7
    <3>9. \A w \in filed' : digests'[w] > 0
      <4>1. \A w \in filed : digests[w] > 0 /\ w \in Weeks /\ w # t
        BY <3>7 DEF DigestsInv, TypeOK
      <4>2. QED
        BY <3>2, <3>5, <4>1
    <3>10. digests'[t] > 0 /\ t <= t
      BY <3>4, <3>5, <3>7
    <3>11. \A w \in filed : w <= drow /\ drow <= t
      BY DEF DigestsInv, t
    <3>12. QED
      BY <3>1, <3>2, <3>3, <3>8, <3>9, <3>10, <3>11 DEF DigestsInv
  <2>3. CASE DigestRecord
    <3>1. /\ dpc = "record" /\ dpc' = "idle" /\ drow' = dweek
          /\ filed' = filed \cup {dweek}
          /\ UNCHANGED <<dweek, digests, stops, now>>
      BY <2>3 DEF DigestRecord, erp
    <3>2. ThisWeek' = ThisWeek
      BY <3>1 DEF ThisWeek
    <3>3. /\ dweek <= ThisWeek /\ digests[dweek] > 0
          /\ \A w \in filed : w < dweek
      BY <3>1 DEF DigestsInv
    <3>4. \A w \in filed' : w <= drow' /\ drow' <= ThisWeek'
      BY <2>0, <3>1, <3>2, <3>3
    <3>5. \A w \in filed' : digests'[w] > 0
      BY <3>1, <3>3 DEF DigestsInv
    <3>6. \A w \in Weeks : digests'[w] <= stops' + Extra(w \in filed')
      BY <3>1 DEF DigestsInv
    <3>7. QED
      BY <3>1, <3>4, <3>5, <3>6 DEF DigestsInv
  <2>4. CASE DigestStop
    <3>1. /\ dpc' = "idle" /\ stops' = stops + 1
          /\ UNCHANGED <<dweek, drow, digests, filed, now>>
      BY <2>4 DEF DigestStop, erp
    <3>2. ThisWeek' = ThisWeek
      BY <3>1 DEF ThisWeek
    <3>3. \A w \in Weeks : digests[w] <= stops + 1
      BY <2>0 DEF DigestsInv
    <3>4. \A w \in Weeks : digests'[w] <= stops' + Extra(w \in filed')
      BY <2>0, <3>1, <3>3
    <3>5. QED
      BY <3>1, <3>2, <3>4 DEF DigestsInv
  <2>5. CASE RemindStop
    <3>1. stops' = stops + 1 /\ UNCHANGED <<dpc, dweek, drow, digests, filed, now>>
      BY <2>5 DEF RemindStop, erp, digesting
    <3>2. ThisWeek' = ThisWeek
      BY <3>1 DEF ThisWeek
    <3>3. \A w \in Weeks :
            digests'[w] <= stops' +
              Extra(w \in filed' \/ (dpc' = "record" /\ w = dweek'))
      BY <2>0, <3>1 DEF DigestsInv
    <3>4. QED
      BY <3>1, <3>2, <3>3 DEF DigestsInv
  <2>6. CASE UNCHANGED <<digesting, stops, now>>
    <3>1. ThisWeek' = ThisWeek /\ UNCHANGED <<dpc, dweek, drow, digests, filed, stops>>
      BY <2>6 DEF ThisWeek, digesting
    <3>2. QED
      BY <3>1 DEF DigestsInv
  <2>7. QED
    BY <2>1, <2>2, <2>3, <2>4, <2>5, <2>6
       DEF Next, Remind, RemindList, RemindChat, RemindRecord, RemindCard,
           RemindMark, ContactsEdited, StageMoves, erp, vars
<1>3. QED
  BY <1>1, <1>2, NoticesTyping, PTL DEF Spec

-----------------------------------------------------------------------------
(***************************************************************************)
(* EachOnce, for every number of cases, stages and weeks: a card, a digest *)
(* and the group chat are repeated at most once per pass that was cut      *)
(* short.                                                                  *)
(***************************************************************************)
THEOREM EachGoesOutOnce == Spec => []EachOnce
<1>1. TypeOK /\ CardsInv /\ DigestsInv => EachOnce
  <2> SUFFICES ASSUME TypeOK, CardsInv, DigestsInv PROVE EachOnce
    OBVIOUS
  <2>1. stops \in Nat
    BY NoticesAssumption DEF TypeOK
  <2>3. ASSUME NEW i \in Reminders PROVE cards[i] <= 1 + stops
    <3>1. cards[i] <= stops + 1 \/ cards[i] <= stops + 0
      BY DEF CardsInv, Extra
    <3>2. QED
      BY <2>1, <3>1 DEF TypeOK
  <2>4. ASSUME NEW w \in Weeks PROVE digests[w] <= 1 + stops
    <3>1. digests[w] <= stops + 1 \/ digests[w] <= stops + 0
      BY DEF DigestsInv, Extra
    <3>2. QED
      BY <2>1, <3>1 DEF TypeOK
  <2>5. chats <= 1 + stops
    BY <2>1 DEF CardsInv, Extra, TypeOK
  <2>6. QED
    BY <2>3, <2>4, <2>5 DEF EachOnce
<1>2. QED
  BY <1>1, NoticesTyping, CardsInvariant, DigestsInvariant, PTL

-----------------------------------------------------------------------------
(* The refinements *)

(***************************************************************************)
(* The reminder pass implements AtLeastOnce: sending a card is an attempt, *)
(* its row a strike, and every other step is nothing to it.                *)
(***************************************************************************)
THEOREM CardsImplementAtLeastOnce == Spec => CardsImplement
<1>1. Init => CardsAtLeastOnce!Init
  BY DEF Init, CardsAtLeastOnce!Init
<1>2. TypeOK /\ CardsInv /\ [Next]_vars
        => [CardsAtLeastOnce!Next]_<<cards, dedup>>
  <2> SUFFICES ASSUME TypeOK, CardsInv, [Next]_vars
               PROVE  [CardsAtLeastOnce!Next]_<<cards, dedup>>
    OBVIOUS
  <2>1. CASE RemindCard
    <3>1. Head(rbatch) \in Reminders /\ Head(rbatch) \notin dedup
      BY <2>1, HeadFresh DEF RemindCard
    <3>2. CardsAtLeastOnce!Attempt(Head(rbatch))
      BY <2>1, <3>1 DEF RemindCard, CardsAtLeastOnce!Attempt
    <3>3. QED
      BY <3>1, <3>2 DEF CardsAtLeastOnce!Next
  <2>2. CASE RemindMark
    <3>1. Head(rbatch) \in Reminders /\ cards[Head(rbatch)] > 0
      BY <2>2, HeadFresh DEF RemindMark, CardsInv
    <3>2. CardsAtLeastOnce!Strike(Head(rbatch))
      BY <2>2, <3>1 DEF RemindMark, CardsAtLeastOnce!Strike
    <3>3. QED
      BY <3>1, <3>2 DEF CardsAtLeastOnce!Next
  <2>3. CASE ~RemindCard /\ ~RemindMark
    BY <2>3 DEF Next, Remind, Tick, ContactsEdited, StageMoves, RemindList,
       RemindChat, RemindRecord, RemindStop, DigestCard, DigestRecord,
       DigestStop, reminding, vars
  <2>4. QED
    BY <2>1, <2>2, <2>3
<1>3. QED
  BY <1>1, <1>2, NoticesTyping, CardsInvariant, PTL
     DEF Spec, CardsImplement, CardsAtLeastOnce!Spec

(***************************************************************************)
(* The digest pass implements AtLeastOnce, with the weeks that were ever   *)
(* in its one row as the table.                                            *)
(***************************************************************************)
THEOREM DigestsImplementAtLeastOnce == Spec => DigestsImplement
<1>1. Init => DigestsAtLeastOnce!Init
  BY DEF Init, DigestsAtLeastOnce!Init
<1>2. TypeOK /\ DigestsInv /\ [Next]_vars
        => [DigestsAtLeastOnce!Next]_<<digests, filed>>
  <2> SUFFICES ASSUME TypeOK, DigestsInv, [Next]_vars
               PROVE  [DigestsAtLeastOnce!Next]_<<digests, filed>>
    OBVIOUS
  <2>1. CASE DigestCard
    <3>1. ThisWeek \in Weeks /\ ThisWeek \notin filed
      <4>1. ThisWeek \in Nat /\ ThisWeek \in Weeks
        BY WeekTyped, WeeksAreNumbers DEF TypeOK
      <4>2. QED
        BY <2>1, <4>1, WeekFresh
    <3>2. DigestsAtLeastOnce!Attempt(ThisWeek)
      BY <2>1, <3>1 DEF DigestCard, DigestsAtLeastOnce!Attempt
    <3>3. QED
      BY <3>1, <3>2 DEF DigestsAtLeastOnce!Next
  <2>2. CASE DigestRecord
    <3>1. dweek \in Weeks /\ digests[dweek] > 0
      BY <2>2 DEF DigestRecord, DigestsInv, TypeOK
    <3>2. DigestsAtLeastOnce!Strike(dweek)
      BY <2>2, <3>1 DEF DigestRecord, DigestsAtLeastOnce!Strike
    <3>3. QED
      BY <3>1, <3>2 DEF DigestsAtLeastOnce!Next
  <2>3. CASE ~DigestCard /\ ~DigestRecord
    BY <2>3 DEF Next, Remind, Tick, ContactsEdited, StageMoves, RemindList,
       RemindChat, RemindRecord, RemindCard, RemindMark, RemindStop,
       DigestStop, digesting, vars
  <2>4. QED
    BY <2>1, <2>2, <2>3
<1>3. QED
  BY <1>1, <1>2, NoticesTyping, DigestsInvariant, PTL
     DEF Spec, DigestsImplement, DigestsAtLeastOnce!Spec


-----------------------------------------------------------------------------
(* MailIntake: typing *)

\* What a poll lists is mail.
LEMMA NewestTyped ==
    ASSUME IntakeTypeOK
    PROVE  Newest \in Seq(Mails)
<1> DEFINE n == Len(unread)
           k == IF n < Window THEN n ELSE Window
<1>1. n \in Nat /\ k \in Nat /\ k <= n
  BY IntakeAssumption DEF IntakeTypeOK
<1>2. \A i \in 1 .. k : n + 1 - i \in 1 .. n
  BY <1>1
<1>3. \A i \in 1 .. n : unread[i] \in Mails
  BY DEF IntakeTypeOK
<1>4. [i \in 1 .. k |-> unread[n + 1 - i]] \in [1 .. k -> Mails]
  BY <1>2, <1>3
<1>5. Newest = [i \in 1 .. k |-> unread[n + 1 - i]]
  BY DEF Newest
<1> HIDE DEF n, k
<1> QED
  BY <1>1, <1>4, <1>5

\* The mail a poll looks at is a mail, and so is the rest of its list.
LEMMA HeadTyped ==
    ASSUME IntakeTypeOK, batch # <<>>
    PROVE  Head(batch) \in Mails /\ Tail(batch) \in Seq(Mails)
BY DEF IntakeTypeOK

\* IntakeTypeOK holds in every reachable state of the mail poller.
THEOREM IntakeTyping == IntakeSpec => []IntakeTypeOK
<1>1. IntakeInit => IntakeTypeOK
  BY IntakeAssumption DEF IntakeInit, IntakeTypeOK
<1>2. IntakeTypeOK /\ [IntakeNext]_intakeVars => IntakeTypeOK'
  <2> SUFFICES ASSUME IntakeTypeOK, [IntakeNext]_intakeVars PROVE IntakeTypeOK'
    OBVIOUS
  <2> USE IntakeAssumption
  <2>1. ASSUME NEW m \in Mails, Arrive(m) PROVE IntakeTypeOK'
    BY <2>1 DEF Arrive, poller, IntakeTypeOK
  <2>2. CASE PersonReads
    <3>1. ASSUME NEW i \in 1 .. Len(unread)
          PROVE  RemoveAt(unread, i) \in Seq(Mails)
      BY DEF IntakeTypeOK, RemoveAt
    <3> QED
      BY <2>2, <3>1 DEF PersonReads, poller, IntakeTypeOK
  <2>3. CASE List
    BY <2>3, NewestTyped DEF List, IntakeTypeOK
  <2>4. CASE PassOver
    BY <2>4, HeadTyped DEF PassOver, IntakeTypeOK
  <2>5. CASE Discard
    BY <2>5 DEF Discard, IntakeTypeOK
  <2>6. CASE Take
    BY <2>6 DEF Take, IntakeTypeOK
  <2>7. CASE Apply
    <3>1. Head(batch) \in Mails
      BY <2>7, HeadTyped DEF Apply, IntakeTypeOK
    <3>2. tries' \in [Mails -> Nat]
      BY <2>7, <3>1 DEF Apply, IntakeTypeOK
    <3>3. saved' \in [Mails -> Nat]
      BY <2>7, <3>1 DEF Apply, IntakeTypeOK
    <3> QED
      BY <2>7, <3>2, <3>3 DEF Apply, IntakeTypeOK
  <2>8. CASE Mark
    <3>1. Head(batch) \in Mails /\ Tail(batch) \in Seq(Mails)
      BY <2>8, HeadTyped DEF Mark, IntakeTypeOK
    <3> QED
      BY <2>8, <3>1 DEF Mark, IntakeTypeOK
  <2>9. CASE Done
    BY <2>9 DEF Done, IntakeTypeOK
  <2>10. CASE Stop
    BY <2>10 DEF Stop, IntakeTypeOK
  <2>11. CASE UNCHANGED intakeVars
    BY <2>11 DEF intakeVars, IntakeTypeOK
  <2> QED
    BY <2>1, <2>2, <2>3, <2>4, <2>5, <2>6, <2>7, <2>8, <2>9, <2>10, <2>11
       DEF IntakeNext, Poll
<1> QED
  BY <1>1, <1>2, PTL DEF IntakeSpec

-----------------------------------------------------------------------------
(* MailIntake: the invariant *)

\* Every step of the poller and of the inbox preserves IntakeInv.
LEMMA IntakeStep ==
    ASSUME IntakeTypeOK, IntakeInv, [IntakeNext]_intakeVars
    PROVE  IntakeInv'
<1> USE IntakeAssumption
<1> USE DEF IntakeInv
<1>1. ASSUME NEW m \in Mails, Arrive(m) PROVE IntakeInv'
  BY <1>1 DEF Arrive, poller
<1>2. CASE PersonReads
  BY <1>2 DEF PersonReads, poller
<1>3. CASE List
  BY <1>3 DEF List
<1>4. CASE PassOver
  BY <1>4 DEF PassOver
<1>5. CASE Discard
  <2>1. KindOf[Head(batch)] # "reply"
    BY <1>5 DEF Discard
  <2>2. pc = "look" /\ pc' = "mark" /\ batch' = batch /\ processed' = processed
        /\ tries' = tries /\ saved' = saved /\ cuts' = cuts
    BY <1>5 DEF Discard
  <2>3. \A m \in Mails : saved[m] \in Nat /\ cuts \in Nat
    BY DEF IntakeTypeOK
  <2> QED
    BY <2>1, <2>2, <2>3
<1>6. CASE Take
  BY <1>6 DEF Take, Known
<1>7. CASE Apply
  \* The one place a count grows: the reply is about to be marked.
  <2>1. Head(batch) \in Mails /\ Head(batch) \notin processed
    BY <1>7, HeadTyped DEF Apply, IntakeTypeOK
  <2>2. saved[Head(batch)] <= cuts
    BY <1>7, <2>1 DEF Apply, IntakeTypeOK
  <2>3. \A m \in Mails :
          saved'[m] <= cuts' +
              (IF m \in processed' \/ (pc' = "mark" /\ m = Head(batch'))
               THEN 1 ELSE 0)
    BY <1>7, <2>1, <2>2 DEF Apply, IntakeTypeOK
  <2>4. \A m \in Mails : tries[m] \in Nat /\ tries'[m] >= tries[m]
    BY <1>7, <2>1 DEF Apply, IntakeTypeOK
  <2>5. \A m \in processed' : KindOf[m] = "reply" => tries'[m] > 0
    BY <1>7, <2>4 DEF Apply, IntakeTypeOK
  <2>6. tries'[Head(batch)] > 0
    BY <1>7, <2>1 DEF Apply, IntakeTypeOK
  <2> QED
    BY <1>7, <2>3, <2>5, <2>6 DEF Apply
<1>8. CASE Mark
  BY <1>8 DEF Mark, IntakeTypeOK
<1>9. CASE Done
  BY <1>9 DEF Done
<1>10. CASE Stop
  \* What was just tried is forgotten, and paid for by the stop.
  BY <1>10 DEF Stop, IntakeTypeOK
<1>11. CASE UNCHANGED intakeVars
  BY <1>11 DEF intakeVars
<1> QED
  BY <1>1, <1>2, <1>3, <1>4, <1>5, <1>6, <1>7, <1>8, <1>9, <1>10, <1>11
     DEF IntakeNext, Poll

\* IntakeInv holds in every reachable state.
THEOREM IntakeInvariant == IntakeSpec => []IntakeInv
<1>1. IntakeInit => IntakeInv
  BY DEF IntakeInit, IntakeInv
<1>2. IntakeTypeOK /\ IntakeInv /\ [IntakeNext]_intakeVars => IntakeInv'
  BY IntakeStep
<1> QED
  BY <1>1, <1>2, IntakeTyping, PTL DEF IntakeSpec

\* A reply is applied once, plus once for each poll that was cut short.
THEOREM Once == IntakeSpec => []AppliedOnce
<1>1. IntakeTypeOK /\ IntakeInv => AppliedOnce
  <2> SUFFICES ASSUME IntakeTypeOK, IntakeInv, NEW m \in Mails
               PROVE  saved[m] <= 1 + cuts
    BY DEF AppliedOnce
  <2>1. saved[m] \in Nat /\ cuts \in Nat
    BY IntakeAssumption DEF IntakeTypeOK
  <2>2. saved[m] <= cuts + 1 \/ saved[m] <= cuts + 0
    BY DEF IntakeInv
  <2> QED
    BY <2>1, <2>2
<1> QED
  BY <1>1, IntakeTyping, IntakeInvariant, PTL

-----------------------------------------------------------------------------
(* MailIntake: the refinement *)

\* Every step of the poller is an attempt, a strike, or nothing to AtLeastOnce.
LEMMA IntakeStepMaps ==
    ASSUME IntakeTypeOK, IntakeInv, [IntakeNext]_intakeVars
    PROVE  [RepliesAtLeastOnce!Next]_(<<[m \in Replies |-> tries[m]],
                                        processed \cap Replies>>)
<1> USE IntakeAssumption
<1> DEFINE seen == [m \in Replies |-> tries[m]]
           done == processed \cap Replies
<1>1. CASE Apply
  <2>1. Head(batch) \in Mails /\ Head(batch) \notin processed
    BY <1>1, HeadTyped DEF Apply, IntakeTypeOK, IntakeInv
  <2>2. done' = done
    BY <1>1 DEF Apply
  <2>3. CASE Head(batch) \in Replies
    <3>1. seen' = [seen EXCEPT ![Head(batch)] = @ + 1]
      BY <1>1, <2>1, <2>3 DEF Apply, IntakeTypeOK, Replies
    <3> QED
      BY <2>1, <2>2, <2>3, <3>1
         DEF RepliesAtLeastOnce!Next, RepliesAtLeastOnce!Attempt
  <2>4. CASE Head(batch) \notin Replies
    <3>1. seen' = seen
      BY <1>1, <2>1, <2>4 DEF Apply, IntakeTypeOK, Replies
    <3> QED
      BY <2>2, <3>1
  <2> QED
    BY <2>3, <2>4
<1>2. CASE Mark
  <2>1. Head(batch) \in Mails
    BY <1>2, HeadTyped DEF Mark, IntakeTypeOK
  <2>2. seen' = seen
    BY <1>2 DEF Mark
  <2>3. CASE Head(batch) \in Replies
    <3>1. seen[Head(batch)] > 0
      BY <1>2, <2>3 DEF Mark, IntakeInv, Replies
    <3>2. done' = done \cup {Head(batch)}
      BY <1>2, <2>3 DEF Mark
    <3>3. RepliesAtLeastOnce!Strike(Head(batch))
      BY <2>2, <3>1, <3>2 DEF RepliesAtLeastOnce!Strike
    <3> QED
      BY <2>3, <3>3 DEF RepliesAtLeastOnce!Next
  <2>4. CASE Head(batch) \notin Replies
    <3>1. done' = done
      BY <1>2, <2>4 DEF Mark
    <3> QED
      BY <2>2, <3>1
  <2> QED
    BY <2>3, <2>4
<1>3. CASE ~Apply /\ ~Mark
  <2>1. tries' = tries /\ processed' = processed
    BY <1>3 DEF IntakeNext, Poll, intakeVars, poller, Arrive, PersonReads, List, PassOver,
                Discard, Take, Done, Stop
  <2> QED
    BY <2>1
<1> QED
  BY <1>1, <1>2, <1>3

\* The mail poller implements AtLeastOnce, for replies.
THEOREM IntakeImplements == IntakeSpec => RepliesImplement
<1>1. IntakeInit => RepliesAtLeastOnce!Init
  BY DEF IntakeInit, RepliesAtLeastOnce!Init, Replies
<1>2. IntakeTypeOK /\ IntakeInv /\ [IntakeNext]_intakeVars
        => [RepliesAtLeastOnce!Next]_(<<[m \in Replies |-> tries[m]],
                                        processed \cap Replies>>)
  BY IntakeStepMaps
<1> QED
  BY <1>1, <1>2, IntakeTyping, IntakeInvariant, PTL
     DEF IntakeSpec, RepliesImplement, RepliesAtLeastOnce!Spec

-----------------------------------------------------------------------------
(* FollowUps: typing *)

\* Who is listed has asked: the campaigns of a pass exist.
Asked == \A i \in 1 .. Len(fbatch) : camp[fbatch[i]].case # NoCase

\* Whoever posts has a reply to post, or has posted the last.
Replying == fpc \in {"post", "mirrored"} => queue # <<>>

CampaignsInv == FollowTypeOK /\ Asked /\ Replying

LEMMA CampIs ==
    ASSUME FollowTypeOK, NEW k \in Camps
    PROVE  /\ camp[k].case # NoCase => camp[k] \in Campaign
           /\ camp[k].case = NoCase => camp[k] = NoCampaign
           /\ camp[k] \in Campaign => camp[k].case \in ErpCases
<1>1. camp[k] \in Campaign \/ camp[k] = NoCampaign
  BY DEF FollowTypeOK
<1>2. camp[k] \in Campaign => camp[k].case \in ErpCases
  BY DEF Campaign
<1>3. camp[k] = NoCampaign => camp[k].case = NoCase
  BY DEF NoCampaign
<1> QED
  BY <1>1, <1>2, <1>3, FollowUpsAssumption

\* The id that a new campaign gets is one of those that are left.
LEMMA FirstIsUnused ==
    ASSUME Unused # {}
    PROVE  First(Unused) \in Unused
<1> DEFINE less == {p \in Nat \X Nat : p[1] < p[2]}
<1>1. Unused \subseteq Nat
  BY FollowUpsAssumption DEF Unused, Camps
<1>2. IsWellFoundedOn(less, Nat)
  BY NatLessThanWellFounded, Zenon DEF OpToRel
<1>3. PICK k \in Unused : \A j \in Unused : ~ (<<j, k>> \in less)
  BY <1>1, <1>2, WFMin, Zenon
<1>4. ASSUME NEW j \in Unused PROVE k <= j
  <2>1. ~ (<<j, k>> \in less) /\ j \in Nat /\ k \in Nat
    BY <1>1, <1>3
  <2> QED
    BY <2>1
<1> QED
  BY <1>4 DEF First

LEMMA CampsListed ==
    ASSUME NEW S, S \subseteq Camps
    PROVE  /\ SetToSeq(S) \in Seq(Camps)
           /\ \A i \in 1 .. Len(SetToSeq(S)) : SetToSeq(S)[i] \in S
           /\ \A i, j \in 1 .. Len(SetToSeq(S)) :
                SetToSeq(S)[i] = SetToSeq(S)[j] => i = j
           /\ ToSet(SetToSeq(S)) \subseteq S
<1> DEFINE l == SetToSeq(S)
<1>1. IsFiniteSet(S)
  <2>1. 1 \in Int /\ NumCamps \in Int
    BY FollowUpsAssumption
  <2>2. IsFiniteSet(Camps)
    BY <2>1, FS_Interval DEF Camps
  <2> QED
    BY <2>2, FS_Subset
<1>2. l \in Seq(S) /\ \A i, j \in 1 .. Len(l) : l[i] = l[j] => i = j
  BY <1>1, SetToSeqLists
<1> HIDE DEF l
<1>3. l \in Seq(Camps) /\ \A i \in 1 .. Len(l) : l[i] \in S
  BY <1>2
<1>4. ToSet(l) \subseteq S
  BY <1>2, <1>3 DEF ToSet
<1> QED
  BY <1>2, <1>3, <1>4 DEF l

\* The campaign in hand, and the others of the pass.
LEMMA InHand ==
    ASSUME CampaignsInv, fbatch # <<>>
    PROVE  /\ Head(fbatch) \in Camps /\ Head(fbatch) = fbatch[1]
           /\ camp[Head(fbatch)] \in Campaign
           /\ Tail(fbatch) \in Seq(Camps)
           /\ Len(fbatch) \in Nat \ {0} /\ Len(Tail(fbatch)) = Len(fbatch) - 1
           /\ \A i \in 1 .. Len(Tail(fbatch)) :
                /\ Tail(fbatch)[i] = fbatch[i + 1] /\ i + 1 \in 1 .. Len(fbatch)
                /\ camp[Tail(fbatch)[i]].case # NoCase
<1>1. fbatch \in Seq(Camps) /\ fbatch # <<>>
  BY DEF CampaignsInv, FollowTypeOK
<1>2. /\ Head(fbatch) \in Camps /\ Head(fbatch) = fbatch[1]
      /\ Tail(fbatch) \in Seq(Camps)
      /\ Len(fbatch) \in Nat \ {0} /\ Len(Tail(fbatch)) = Len(fbatch) - 1
      /\ \A i \in 1 .. Len(Tail(fbatch)) :
           Tail(fbatch)[i] = fbatch[i + 1] /\ i + 1 \in 1 .. Len(fbatch)
  BY <1>1
<1>3. camp[fbatch[1]].case # NoCase
  BY <1>2 DEF CampaignsInv, Asked
<1>4. camp[Head(fbatch)] \in Campaign
  BY <1>2, <1>3, CampIs DEF CampaignsInv
<1> QED
  BY <1>2, <1>4 DEF CampaignsInv, Asked

\* What people do to the campaigns.
LEMMA PeopleMove ==
    ASSUME CampaignsInv,
           \/ \E a \in Askers : AskInsert(a)
           \/ \E c \in ErpCases : CancelAsked(c)
    PROVE  /\ UNCHANGED <<outside, following, breaks>>
           /\ camp' \in [Camps -> Campaign \cup {NoCampaign}]
           /\ asking' \in [Askers -> ErpCases \cup {NoCase}]
           /\ \A k \in Camps :
                \/ camp'[k] = camp[k]
                \/ /\ camp[k].case = NoCase
                   /\ camp'[k].case # NoCase /\ camp'[k].last = Never
                \/ /\ camp[k].case # NoCase /\ Active(k)
                   /\ camp'[k] = [camp[k] EXCEPT !.status = "cancelled"]
                   /\ camp'[k] \in Campaign
<1>1. ASSUME NEW a \in Askers, AskInsert(a)
      PROVE  /\ UNCHANGED <<outside, following, breaks>>
             /\ camp' \in [Camps -> Campaign \cup {NoCampaign}]
             /\ asking' \in [Askers -> ErpCases \cup {NoCase}]
             /\ \A k \in Camps :
                  \/ camp'[k] = camp[k]
                  \/ /\ camp[k].case = NoCase
                     /\ camp'[k].case # NoCase /\ camp'[k].last = Never
  <2> DEFINE u == First(Unused)
  <2>1. PICK e \in EndDays :
          camp' = [camp EXCEPT ![u] = [case |-> asking[a], status |-> "active",
                                       next |-> today, last |-> Never, end |-> e]]
    BY <1>1 DEF AskInsert
  <2>2. u \in Camps /\ camp[u].case = NoCase
    BY <1>1, FirstIsUnused DEF AskInsert, Unused
  <2> HIDE DEF u
  <2>3. asking[a] \in ErpCases /\ asking[a] # NoCase /\ today \in Nat
    BY <1>1, FollowUpsAssumption DEF AskInsert, CampaignsInv, FollowTypeOK, Dates
  <2> DEFINE new == [case |-> asking[a], status |-> "active", next |-> today,
                     last |-> Never, end |-> e]
  <2>4. new \in Campaign /\ new.case # NoCase /\ new.last = Never
    BY <2>3 DEF Campaign
  <2>5. camp' = [camp EXCEPT ![u] = new]
    BY <2>1
  <2> HIDE DEF new
  <2>6. /\ camp' \in [Camps -> Campaign \cup {NoCampaign}]
        /\ \A k \in Camps : camp'[k] = IF k = u THEN new ELSE camp[k]
    BY <2>2, <2>4, <2>5 DEF CampaignsInv, FollowTypeOK
  <2>7. asking' \in [Askers -> ErpCases \cup {NoCase}]
    BY <1>1 DEF AskInsert, CampaignsInv, FollowTypeOK
  <2>8. UNCHANGED <<outside, following, breaks>>
    BY <1>1 DEF AskInsert
  <2> QED
    BY <2>2, <2>4, <2>6, <2>7, <2>8
<1>2. ASSUME NEW c \in ErpCases, CancelAsked(c)
      PROVE  /\ UNCHANGED <<outside, following, breaks, asking>>
             /\ camp' \in [Camps -> Campaign \cup {NoCampaign}]
             /\ \A k \in Camps :
                  \/ camp'[k] = camp[k]
                  \/ /\ camp[k].case # NoCase /\ Active(k)
                     /\ camp'[k] = [camp[k] EXCEPT !.status = "cancelled"]
                     /\ camp'[k] \in Campaign
  <2>1. camp' = [k \in Camps |->
                   IF camp[k].case = c /\ Active(k)
                   THEN [camp[k] EXCEPT !.status = "cancelled"] ELSE camp[k]]
        /\ UNCHANGED <<outside, following, breaks, asking>>
    BY <1>2 DEF CancelAsked
  <2>2. ASSUME NEW k \in Camps, camp[k].case = c, Active(k)
        PROVE  /\ camp[k].case # NoCase
               /\ [camp[k] EXCEPT !.status = "cancelled"] \in Campaign
    <3>1. camp[k].case # NoCase
      BY <2>2 DEF Active
    <3>2. camp[k] \in Campaign
      BY <3>1, CampIs DEF CampaignsInv
    <3> QED
      BY <3>1, <3>2 DEF Campaign
  <2>3. \A k \in Camps : camp[k] \in Campaign \cup {NoCampaign}
    BY DEF CampaignsInv, FollowTypeOK
  <2> QED
    BY <2>1, <2>2, <2>3
<1> QED
  BY <1>1, <1>2 DEF CampaignsInv, FollowTypeOK

\* What mark_sent makes of the campaign in hand, and of no other.
LEMMA SentIsMarked ==
    ASSUME CampaignsInv, FollowMark
    PROVE  /\ fbatch # <<>> /\ fpc = "mark" /\ fpc' = "next"
           /\ fbatch' = Tail(fbatch)
           /\ UNCHANGED <<queue, cursor, mailed, early, posted, asking, outside, breaks>>
           /\ camp' \in [Camps -> Campaign \cup {NoCampaign}]
           /\ \A k \in Camps : k # Head(fbatch) => camp'[k] = camp[k]
           /\ camp'[Head(fbatch)].case = camp[Head(fbatch)].case
           /\ camp'[Head(fbatch)].last = today
           /\ camp'[Head(fbatch)].next = today + Cadence
<1>1. /\ fpc = "mark" /\ fpc' = "next" /\ fbatch' = Tail(fbatch)
      /\ UNCHANGED <<queue, cursor, mailed, early, posted, asking, outside, breaks>>
  BY DEF FollowMark
<1>2. fbatch # <<>>
  BY <1>1 DEF CampaignsInv, FollowTypeOK
<1> DEFINE k == Head(fbatch)
<1>3. k \in Camps /\ camp[k] \in Campaign
  BY <1>2, InHand
<1>4. today \in Dates /\ today \in Nat /\ Cadence \in Nat
  BY FollowUpsAssumption DEF CampaignsInv, FollowTypeOK, Dates
<1>5. PICK s \in {"completed", "active"} :
        camp' = [camp EXCEPT ![k].last = today, ![k].next = today + Cadence,
                             ![k].status = s]
  BY DEF FollowMark, NextDate
<1> HIDE DEF k
<1> DEFINE new == [camp[k] EXCEPT !.last = today, !.next = today + Cadence,
                                  !.status = s]
<1>6. /\ new \in Campaign /\ new.case = camp[k].case /\ new.last = today
      /\ new.next = today + Cadence
  <2>1. today + Cadence \in Nat
    BY <1>4
  <2>2. s \in {"active", "completed", "cancelled"}
    BY <1>5
  <2> QED
    BY <1>3, <1>4, <2>1, <2>2 DEF Campaign
<1>7. camp' = [camp EXCEPT ![k] = new]
  BY <1>3, <1>5 DEF CampaignsInv, FollowTypeOK
<1> HIDE DEF new
<1>8. /\ camp' \in [Camps -> Campaign \cup {NoCampaign}]
      /\ \A j \in Camps : camp'[j] = IF j = k THEN new ELSE camp[j]
  BY <1>3, <1>6, <1>7 DEF CampaignsInv, FollowTypeOK
<1> QED
  BY <1>1, <1>2, <1>3, <1>6, <1>8 DEF k

\* The replies a pass is about to mirror: those after the last one that it
\* passes over.
LEMMA QueueIs ==
    ASSUME CampaignsInv, MirrorTake
    PROVE  \E p \in Nat :
             /\ p >= cursor[Head(fbatch)]
             /\ queue' \in Seq(1 .. MaxReplies) /\ queue' # <<>>
             /\ Head(queue') = p + 1
             /\ \A i \in 1 .. Len(queue') : queue'[i] = p + i
<1> DEFINE k == Head(fbatch)
           h == heard[camp[k].case]
           p == Passed(k)
<1>1. fbatch # <<>>
  BY DEF MirrorTake
<1>2. k \in Camps /\ camp[k].case \in ErpCases
  BY <1>1, InHand DEF Campaign
<1>3. h \in 0 .. MaxReplies /\ cursor[k] \in Nat /\ Recent \in Nat /\ MaxReplies \in Nat
  BY <1>2, FollowUpsAssumption DEF CampaignsInv, FollowTypeOK
<1>4. p = IF h > Recent + cursor[k] THEN h - Recent ELSE cursor[k]
  BY DEF Passed
<1>5. queue' = [i \in 1 .. h - p |-> p + i] /\ queue' # <<>>
  BY DEF MirrorTake
<1> HIDE DEF k, h, p
<1>6. p \in Nat /\ p >= cursor[k]
  BY <1>3, <1>4
<1>7. h - p \in Nat \ {0}
  BY <1>3, <1>5, <1>6
<1>8. /\ queue' \in Seq(1 .. MaxReplies) /\ Len(queue') = h - p
      /\ \A i \in 1 .. h - p : queue'[i] = p + i
  BY <1>3, <1>5, <1>6, <1>7
<1>9. Head(queue') = p + 1
  BY <1>5, <1>7, <1>8
<1> QED
  BY <1>5, <1>6, <1>8, <1>9 DEF k

\* What every other step leaves alone.
LEMMA AroundMoves ==
    ASSUME FollowTypeOK,
           \/ DayPasses \/ ChatCreated
           \/ \E c \in ErpCases : OwnershipMoves(c) \/ CustomerReplies(c)
           \/ \E a \in Askers, c \in ErpCases : AskCheck(a, c)
    PROVE  /\ UNCHANGED <<camp, following, breaks>>
           /\ today' \in Dates /\ today' >= today
           /\ owned' \in SUBSET ErpCases
           /\ heard' \in [ErpCases -> 0 .. MaxReplies]
           /\ hasChat' \in BOOLEAN
           /\ asking' \in [Askers -> ErpCases \cup {NoCase}]
<1> USE FollowUpsAssumption DEF FollowTypeOK
<1>1. CASE DayPasses
  BY <1>1 DEF DayPasses, campaigns, Dates
<1>2. CASE ChatCreated
  BY <1>2 DEF ChatCreated, campaigns, Dates
<1>3. ASSUME NEW c \in ErpCases, OwnershipMoves(c)
      PROVE  UNCHANGED <<today, heard, hasChat, asking, camp, following, breaks>>
             /\ owned' \in SUBSET ErpCases
  BY <1>3 DEF OwnershipMoves, campaigns
<1>4. ASSUME NEW c \in ErpCases, CustomerReplies(c)
      PROVE  UNCHANGED <<today, owned, hasChat, asking, camp, following, breaks>>
             /\ heard' \in [ErpCases -> 0 .. MaxReplies]
  BY <1>4 DEF CustomerReplies, campaigns
<1>5. ASSUME NEW a \in Askers, NEW c \in ErpCases, AskCheck(a, c)
      PROVE  UNCHANGED <<today, owned, heard, hasChat, camp, following, breaks>>
             /\ asking' \in [Askers -> ErpCases \cup {NoCase}]
  BY <1>5 DEF AskCheck, outside
<1> QED
  BY <1>1, <1>2, <1>3, <1>4, <1>5 DEF Dates

\* What a mail leaves in the history, and of the campaign in hand only.
LEMMA Mailed ==
    ASSUME CampaignsInv, FollowMail
    PROVE  /\ fbatch # <<>> /\ fpc = "mail" /\ fpc' = "mark"
           /\ UNCHANGED <<fbatch, camp, today, breaks>>
           /\ mailed' \in [Camps -> Dates \cup {Never}]
           /\ early' \in [Camps -> Nat]
           /\ mailed'[Head(fbatch)] = today
           /\ early'[Head(fbatch)] =
                IF mailed[Head(fbatch)] # Never
                   /\ today < mailed[Head(fbatch)] + Cadence
                THEN early[Head(fbatch)] + 1 ELSE early[Head(fbatch)]
           /\ \A k \in Camps : k # Head(fbatch) =>
                mailed'[k] = mailed[k] /\ early'[k] = early[k]
<1> DEFINE k == Head(fbatch)
           n == IF mailed[k] # Never /\ today < mailed[k] + Cadence
                THEN early[k] + 1 ELSE early[k]
<1>1. /\ fpc = "mail" /\ fpc' = "mark"
      /\ UNCHANGED <<fbatch, camp, today, breaks>>
      /\ early' = [early EXCEPT ![k] = n]
      /\ mailed' = [mailed EXCEPT ![k] = today]
  BY DEF FollowMail, campaigns, outside, CampaignsInv, FollowTypeOK
<1>2. fbatch # <<>>
  BY <1>1 DEF CampaignsInv, FollowTypeOK
<1>3. k \in Camps
  BY <1>2, InHand
<1>4. early \in [Camps -> Nat] /\ mailed \in [Camps -> Dates \cup {Never}]
      /\ today \in Dates
  BY DEF CampaignsInv, FollowTypeOK
<1>5. n \in Nat
  BY <1>3, <1>4
<1> HIDE DEF k, n
<1>6. early' \in [Camps -> Nat] /\ early'[k] = n
      /\ \A j \in Camps : j # k => early'[j] = early[j]
  BY <1>1, <1>3, <1>4, <1>5
<1>7. mailed' \in [Camps -> Dates \cup {Never}] /\ mailed'[k] = today
      /\ \A j \in Camps : j # k => mailed'[j] = mailed[j]
  BY <1>1, <1>3, <1>4
<1> QED
  BY <1>1, <1>2, <1>6, <1>7 DEF k, n

\* The steps of a pass that change no campaign.
Passing ==
    \/ FollowList \/ FollowSkip \/ FollowTake \/ FollowMail
    \/ MirrorList \/ MirrorSkip \/ MirrorTake \/ MirrorPost \/ MirrorMark
    \/ FollowDone

LEMMA PassingTyped ==
    ASSUME CampaignsInv, Passing
    PROVE  CampaignsInv'
<1> USE DEF campaigns, outside
<1>0. Camps \subseteq Nat /\ MaxReplies \in Nat
  BY FollowUpsAssumption DEF Camps
<1>1. CASE FollowList
  <2> DEFINE S == {k \in Camps : Listed(k)}
  <2>1. \A k \in S : k \in Camps /\ camp[k].case # NoCase
    BY DEF Listed, Active
  <2>2. fbatch' = SetToSeq(S) /\ fpc' = "next"
        /\ UNCHANGED <<queue, cursor, mailed, early, posted, outside, campaigns, breaks>>
    BY <1>1 DEF FollowList
  <2> HIDE DEF S
  <2>3. fbatch' \in Seq(Camps) /\ Asked'
    BY <2>1, <2>2, CampsListed DEF Asked
  <2> QED
    BY <2>2, <2>3 DEF CampaignsInv, FollowTypeOK, Replying
<1>2. CASE MirrorList
  <2> DEFINE S == {k \in Camps : Active(k)}
  <2>1. \A k \in S : k \in Camps /\ camp[k].case # NoCase
    BY DEF Active
  <2>2. fbatch' = SetToSeq(S) /\ fpc' = "mirror"
        /\ UNCHANGED <<queue, cursor, mailed, early, posted, outside, campaigns, breaks>>
    BY <1>2 DEF MirrorList
  <2> HIDE DEF S
  <2>3. fbatch' \in Seq(Camps) /\ Asked'
    BY <2>1, <2>2, CampsListed DEF Asked
  <2> QED
    BY <2>2, <2>3 DEF CampaignsInv, FollowTypeOK, Replying
<1>3. CASE FollowSkip \/ MirrorSkip
  <2>1. /\ fbatch # <<>> /\ fbatch' = Tail(fbatch)
        /\ fpc \in {"next", "mirror"}
        /\ UNCHANGED <<fpc, queue, cursor, mailed, early, posted, outside, campaigns, breaks>>
    BY <1>3 DEF FollowSkip, MirrorSkip
  <2>2. fbatch' \in Seq(Camps) /\ Asked'
    BY <2>1, InHand DEF Asked
  <2> QED
    BY <2>1, <2>2 DEF CampaignsInv, FollowTypeOK, Replying
<1>4. CASE FollowTake
  BY <1>4 DEF FollowTake, CampaignsInv, FollowTypeOK, Asked, Replying
<1>5. CASE FollowMail
  <2>1. fbatch # <<>> /\ fpc' = "mark"
        /\ UNCHANGED <<fbatch, queue, cursor, posted, outside, campaigns, breaks>>
    BY <1>5 DEF FollowMail, CampaignsInv, FollowTypeOK
  <2>2. Head(fbatch) \in Camps
    BY <2>1, InHand
  <2>3. mailed' \in [Camps -> Dates \cup {Never}] /\ early' \in [Camps -> Nat]
    BY <2>2, Mailed, <1>5
  <2> QED
    BY <2>1, <2>3 DEF CampaignsInv, FollowTypeOK, Asked, Replying
<1>6. CASE MirrorTake
  <2>1. queue' \in Seq(1 .. MaxReplies) /\ queue' # <<>>
    BY <1>6, QueueIs
  <2>2. fbatch # <<>> /\ fpc' = "post"
        /\ UNCHANGED <<fbatch, cursor, mailed, early, posted, outside, campaigns, breaks>>
    BY <1>6 DEF MirrorTake
  <2> QED
    BY <2>1, <2>2 DEF CampaignsInv, FollowTypeOK, Asked, Replying
<1>7. CASE MirrorPost
  <2>1. /\ fpc = "post" /\ queue # <<>>
        /\ posted' = [posted EXCEPT ![Head(fbatch)][Head(queue)] = @ + 1]
        /\ queue' = IF Len(queue) = 1 THEN queue ELSE Tail(queue)
        /\ fpc' \in {"mirrored", "post"}
        /\ UNCHANGED <<fbatch, cursor, mailed, early, outside, campaigns, breaks>>
    BY <1>7 DEF MirrorPost
  <2>2. queue \in Seq(1 .. MaxReplies) /\ fbatch # <<>>
    BY <2>1 DEF CampaignsInv, FollowTypeOK
  <2>3. Head(fbatch) \in Camps /\ Head(queue) \in 1 .. MaxReplies
    BY <1>0, <2>1, <2>2, InHand
  <2>4. posted' \in [Camps -> [1 .. MaxReplies -> Nat]]
    BY <2>1, <2>3 DEF CampaignsInv, FollowTypeOK
  <2>5. queue' \in Seq(1 .. MaxReplies) /\ queue' # <<>>
    <3>1. Tail(queue) \in Seq(1 .. MaxReplies) /\ Len(queue) \in Nat
          /\ Len(Tail(queue)) = Len(queue) - 1
      BY <1>0, <2>1, <2>2
    <3>2. Len(queue) # 0
      BY <1>0, <2>1, <2>2
    <3>3. ASSUME Len(queue) # 1 PROVE Tail(queue) # <<>>
      <4>1. Len(Tail(queue)) # 0
        BY <3>1, <3>2, <3>3
      <4>2. Len(<<>>) = 0
        OBVIOUS
      <4> QED
        BY <4>1, <4>2, Zenon
    <3> QED
      BY <2>1, <2>2, <3>1, <3>3
  <2> QED
    BY <2>1, <2>2, <2>4, <2>5 DEF CampaignsInv, FollowTypeOK, Asked, Replying
<1>8. CASE FollowDone
  BY <1>8 DEF FollowDone, CampaignsInv, FollowTypeOK, Asked, Replying
<1>9. CASE MirrorMark
  <2>1. /\ fpc = "mirrored" /\ fpc' = "mirror"
        /\ cursor' = [cursor EXCEPT ![Head(fbatch)] = Head(queue)]
        /\ queue' = <<>> /\ fbatch' = Tail(fbatch)
        /\ UNCHANGED <<mailed, early, posted, outside, campaigns, breaks>>
    BY <1>9 DEF MirrorMark
  <2>2. fbatch # <<>> /\ queue \in Seq(1 .. MaxReplies) /\ queue # <<>>
    BY <2>1 DEF CampaignsInv, FollowTypeOK, Replying
  <2>3. fbatch' \in Seq(Camps) /\ Asked'
    BY <2>1, <2>2, InHand DEF Asked
  <2>4. Head(queue) \in 0 .. MaxReplies
    BY <1>0, <1>9, <2>2
  <2>5. cursor' \in [Camps -> 0 .. MaxReplies]
    BY <2>1, <2>4 DEF CampaignsInv, FollowTypeOK
  <2>6. <<>> \in Seq(1 .. MaxReplies)
    OBVIOUS
  <2> QED
    BY <2>1, <2>3, <2>5, <2>6 DEF CampaignsInv, FollowTypeOK, Replying
<1> QED
  BY <1>1, <1>2, <1>3, <1>4, <1>5, <1>6, <1>7, <1>8, <1>9 DEF Passing

LEMMA FollowInitial == FollowInit => CampaignsInv
<1> SUFFICES ASSUME FollowInit PROVE CampaignsInv
  OBVIOUS
<1> USE FollowUpsAssumption DEF FollowInit
<1>1. /\ today \in Dates /\ heard \in [ErpCases -> 0 .. MaxReplies]
      /\ cursor \in [Camps -> 0 .. MaxReplies] /\ breaks \in 0 .. MaxBreaks
  BY DEF Dates
<1>2. /\ camp \in [Camps -> Campaign \cup {NoCampaign}]
      /\ asking \in [Askers -> ErpCases \cup {NoCase}]
      /\ mailed \in [Camps -> Dates \cup {Never}] /\ early \in [Camps -> Nat]
      /\ posted \in [Camps -> [1 .. MaxReplies -> Nat]]
  OBVIOUS
<1>3. fbatch \in Seq(Camps) /\ queue \in Seq(1 .. MaxReplies) /\ Len(fbatch) = 0
  OBVIOUS
<1>4. /\ owned \in SUBSET ErpCases /\ hasChat \in BOOLEAN /\ fpc = "idle"
  OBVIOUS
<1> QED
  BY <1>1, <1>2, <1>3, <1>4 DEF CampaignsInv, FollowTypeOK, Asked, Replying

LEMMA FollowStep ==
    ASSUME CampaignsInv, [FollowNext]_followVars
    PROVE  CampaignsInv'
<1>1. CASE \/ DayPasses \/ ChatCreated
           \/ \E c \in ErpCases : OwnershipMoves(c) \/ CustomerReplies(c)
           \/ \E a \in Askers, c \in ErpCases : AskCheck(a, c)
  BY <1>1, AroundMoves DEF CampaignsInv, FollowTypeOK, Asked, Replying, following
<1>2. CASE \/ \E a \in Askers : AskInsert(a)
           \/ \E c \in ErpCases : CancelAsked(c)
  <2>1. /\ UNCHANGED <<outside, following, breaks>>
        /\ camp' \in [Camps -> Campaign \cup {NoCampaign}]
        /\ asking' \in [Askers -> ErpCases \cup {NoCase}]
        /\ \A k \in Camps : camp[k].case # NoCase => camp'[k].case # NoCase
    BY <1>2, PeopleMove DEF CampaignsInv, FollowTypeOK, Campaign
  <2>2. \A i \in 1 .. Len(fbatch) : fbatch[i] \in Camps
    BY DEF CampaignsInv, FollowTypeOK
  <2>3. Asked'
    BY <2>1, <2>2 DEF CampaignsInv, Asked, following
  <2> QED
    BY <2>1, <2>3 DEF CampaignsInv, FollowTypeOK, Replying, following, outside
<1>3. CASE Passing
  BY <1>3, PassingTyped
<1>4. CASE FollowMark
  <2>1. /\ fbatch # <<>> /\ fpc' = "next" /\ fbatch' = Tail(fbatch)
        /\ UNCHANGED <<queue, cursor, mailed, early, posted, asking, outside, breaks>>
        /\ camp' \in [Camps -> Campaign \cup {NoCampaign}]
        /\ \A k \in Camps : camp'[k].case = camp[k].case
    BY <1>4, SentIsMarked
  <2>2. /\ Tail(fbatch) \in Seq(Camps)
        /\ \A i \in 1 .. Len(Tail(fbatch)) : camp[Tail(fbatch)[i]].case # NoCase
    BY <2>1, InHand
  <2>3. \A i \in 1 .. Len(Tail(fbatch)) : Tail(fbatch)[i] \in Camps
    BY <2>2
  <2>4. Asked'
    BY <2>1, <2>2, <2>3 DEF Asked
  <2> QED
    BY <2>1, <2>2, <2>4 DEF CampaignsInv, FollowTypeOK, Replying, outside
<1>5. CASE FollowStop
  <2>1. <<>> \in Seq(Camps) /\ <<>> \in Seq(1 .. MaxReplies) /\ Len(<<>>) = 0
    OBVIOUS
  <2>2. /\ fpc' = "idle" /\ fbatch' = <<>> /\ queue' = <<>>
        /\ breaks' \in 0 .. MaxBreaks
        /\ UNCHANGED <<cursor, mailed, early, posted, outside, campaigns>>
    BY <1>5, FollowUpsAssumption DEF FollowStop, CampaignsInv, FollowTypeOK
  <2> QED
    BY <2>1, <2>2
       DEF CampaignsInv, FollowTypeOK, Asked, Replying, outside, campaigns
<1>6. CASE UNCHANGED followVars
  BY <1>6 DEF followVars, outside, campaigns, following, CampaignsInv,
              FollowTypeOK, Asked, Replying
<1> QED
  BY <1>1, <1>2, <1>3, <1>4, <1>5, <1>6 DEF FollowNext, Follow, Passing

\* FollowTypeOK holds in every reachable state of the campaigns.
THEOREM FollowUpsTyping == FollowSpec => []FollowTypeOK
<1>1. CampaignsInv => FollowTypeOK
  BY DEF CampaignsInv
<1> QED
  BY FollowInitial, FollowStep, <1>1, PTL DEF FollowSpec

-----------------------------------------------------------------------------
(* FollowUps: what is over *)

\* The campaigns of a pass, without the one in hand.
LEMMA OthersListed ==
    ASSUME CampaignsInv, fbatch # <<>>
    PROVE  ToSet(Tail(fbatch)) \subseteq ToSet(fbatch) /\ Head(fbatch) \in ToSet(fbatch)
<1>1. fbatch \in Seq(Camps)
  BY DEF CampaignsInv, FollowTypeOK
<1>2. /\ Head(fbatch) = fbatch[1] /\ 1 \in 1 .. Len(fbatch)
      /\ Tail(fbatch) \in Seq(Camps)
      /\ \A i \in 1 .. Len(Tail(fbatch)) :
           Tail(fbatch)[i] = fbatch[i + 1] /\ i + 1 \in 1 .. Len(fbatch)
  BY InHand
<1>3. DOMAIN fbatch = 1 .. Len(fbatch) /\ DOMAIN Tail(fbatch) = 1 .. Len(Tail(fbatch))
  BY <1>1, <1>2
<1> QED
  BY <1>2, <1>3 DEF ToSet

LEMMA PassingKeeps ==
    ASSUME CampaignsInv, Passing
    PROVE  /\ UNCHANGED <<camp, today, breaks>>
           /\ \/ fbatch' = fbatch
              \/ fbatch # <<>> /\ fbatch' = Tail(fbatch)
              \/ FollowList
              \/ MirrorList
<1>1. UNCHANGED <<camp, today, breaks>>
  BY DEF Passing, FollowList, FollowSkip, FollowTake, FollowMail, MirrorList,
         MirrorSkip, MirrorTake, MirrorPost, MirrorMark, FollowDone, campaigns, outside
<1>2. CASE MirrorMark
  BY <1>1, <1>2 DEF MirrorMark, CampaignsInv, FollowTypeOK
<1>3. CASE Passing /\ ~ MirrorMark
  BY <1>1, <1>3 DEF Passing, FollowSkip, FollowTake, FollowMail, MirrorSkip,
                    MirrorTake, MirrorPost, FollowDone
<1> QED
  BY <1>2, <1>3

(***************************************************************************)
(* OverIsOver, for any number of campaigns and of people: what is listed   *)
(* is active when it is listed, and a mail marks the campaign in hand.     *)
(***************************************************************************)
THEOREM OverStaysOver == FollowSpec => OverIsOver
<1>1. ASSUME CampaignsInv, [FollowNext]_followVars, NEW k \in Camps,
             camp[k].case # NoCase, ~ Active(k), k \notin ToSet(fbatch)
      PROVE  ~ Active(k)' /\ k \notin ToSet(fbatch')
  <2>1. CASE \/ DayPasses \/ ChatCreated
             \/ \E c \in ErpCases : OwnershipMoves(c) \/ CustomerReplies(c)
             \/ \E a \in Askers, c \in ErpCases : AskCheck(a, c)
    BY <1>1, <2>1, AroundMoves DEF CampaignsInv, Active, following
  <2>2. CASE \/ \E a \in Askers : AskInsert(a)
             \/ \E c \in ErpCases : CancelAsked(c)
    BY <1>1, <2>2, PeopleMove DEF Active, following
  <2>3. CASE Passing
    <3>1. ~ Active(k)'
      BY <1>1, <2>3, PassingKeeps DEF Active
    <3>2. CASE FollowList
      <4>1. ToSet(fbatch') \subseteq {j \in Camps : Listed(j)}
        BY <3>2, CampsListed DEF FollowList
      <4> QED
        BY <1>1, <3>1, <4>1 DEF Listed
    <3>3. CASE MirrorList
      <4>1. ToSet(fbatch') \subseteq {j \in Camps : Active(j)}
        BY <3>3, CampsListed DEF MirrorList
      <4> QED
        BY <1>1, <3>1, <4>1
    <3>4. CASE fbatch # <<>> /\ fbatch' = Tail(fbatch)
      BY <1>1, <3>1, <3>4, OthersListed
    <3> QED
      BY <1>1, <2>3, <3>1, <3>2, <3>3, <3>4, PassingKeeps
  <2>4. CASE FollowMark
    <3>1. fbatch # <<>> /\ fbatch' = Tail(fbatch)
          /\ (k # Head(fbatch) => camp'[k] = camp[k])
      BY <1>1, <2>4, SentIsMarked
    <3>2. k # Head(fbatch) /\ k \notin ToSet(fbatch')
      BY <1>1, <3>1, OthersListed
    <3> QED
      BY <1>1, <3>1, <3>2 DEF Active
  <2>5. CASE FollowStop
    <3>1. ToSet(<<>>) = {}
      BY DEF ToSet
    <3> QED
      BY <1>1, <2>5, <3>1 DEF FollowStop, campaigns, Active
  <2>6. CASE UNCHANGED followVars
    BY <1>1, <2>6 DEF followVars, campaigns, following, Active
  <2> QED
    BY <1>1, <2>1, <2>2, <2>3, <2>4, <2>5, <2>6 DEF FollowNext, Follow, Passing
<1>2. CampaignsInv /\ [FollowNext]_followVars
        => [\A k \in Camps :
              (camp[k].case # NoCase /\ ~Active(k) /\ k \notin ToSet(fbatch))
                 => (~Active(k)' /\ k \notin ToSet(fbatch'))]_followVars
  BY <1>1
<1> QED
  BY FollowInitial, FollowStep, <1>2, PTL DEF FollowSpec, OverIsOver

-----------------------------------------------------------------------------
(* FollowUps: the cadence *)

\* The row would let the campaign write again within a cadence of its last
\* mail, and it is not the one about to be marked.
Hasty(k) ==
    /\ mailed[k] # Never
    /\ camp[k].next < mailed[k] + Cadence
    /\ ~ (fpc = "mark" /\ k = Head(fbatch))

\* The early mails, with the one that a hasty row may still cost.
Price(k) == early[k] + (IF Hasty(k) THEN 1 ELSE 0)

\* What a pass has yet to see to is due, and listed once; a hasty row is the
\* work of a pass that was cut short.
PacedInv ==
    /\ \A k \in Camps :
         /\ camp[k].case = NoCase => mailed[k] = Never
         /\ mailed[k] # Never => mailed[k] <= today
         /\ Price(k) <= breaks
    /\ fpc \in {"next", "mail", "mark"} =>
         /\ \A i, j \in 1 .. Len(fbatch) : fbatch[i] = fbatch[j] => i = j
         /\ \A i \in 1 .. Len(fbatch) : camp[fbatch[i]].next <= today

LEMMA DaysAre ==
    ASSUME CampaignsInv
    PROVE  /\ today \in Nat /\ today # Never /\ Cadence \in Nat /\ breaks \in Nat
           /\ \A i \in 1 .. Len(fbatch) : fbatch[i] \in Camps
           /\ \A k \in Camps :
                /\ early[k] \in Nat /\ mailed[k] \in Nat
                /\ camp[k].case # NoCase => camp[k].next \in Nat
<1>1. /\ today \in Nat /\ today # Never /\ Cadence \in Nat /\ breaks \in Nat
      /\ \A i \in 1 .. Len(fbatch) : fbatch[i] \in Camps
      /\ \A k \in Camps : early[k] \in Nat /\ mailed[k] \in Nat
  BY FollowUpsAssumption DEF CampaignsInv, FollowTypeOK, Dates, Never
<1>2. \A k \in Camps : camp[k].case # NoCase => camp[k].next \in Nat
  BY CampIs DEF CampaignsInv, Campaign
<1> QED
  BY <1>1, <1>2

LEMMA FollowInitialPaced == FollowInit => PacedInv
<1> SUFFICES ASSUME FollowInit PROVE PacedInv
  OBVIOUS
<1>1. /\ fpc = "idle" /\ breaks = 0
      /\ \A k \in Camps : mailed[k] = Never /\ early[k] = 0
  BY DEF FollowInit
<1> QED
  BY <1>1 DEF PacedInv, Price, Hasty

LEMMA PacedStep ==
    ASSUME CampaignsInv, PacedInv, [FollowNext]_followVars
    PROVE  PacedInv'
<1>1. CASE \/ DayPasses \/ ChatCreated
           \/ \E c \in ErpCases : OwnershipMoves(c) \/ CustomerReplies(c)
           \/ \E a \in Askers, c \in ErpCases : AskCheck(a, c)
  <2>1. /\ UNCHANGED <<camp, fpc, fbatch, mailed, early, breaks>>
        /\ today' \in Nat /\ today' >= today
    BY <1>1, AroundMoves, FollowUpsAssumption DEF CampaignsInv, following, Dates
  <2>2. \A i \in 1 .. Len(fbatch) : camp[fbatch[i]].next \in Nat
    BY DaysAre DEF CampaignsInv, Asked
  <2>3. \A k \in Camps : Price(k)' = Price(k)
    BY <2>1 DEF Price, Hasty
  <2>4. \A k \in Camps :
          /\ camp'[k].case = NoCase => mailed'[k] = Never
          /\ mailed'[k] # Never => mailed'[k] <= today'
          /\ Price(k)' <= breaks'
    BY <2>1, <2>3, DaysAre DEF PacedInv
  <2>5. fpc' \in {"next", "mail", "mark"} =>
          /\ \A i, j \in 1 .. Len(fbatch') : fbatch'[i] = fbatch'[j] => i = j
          /\ \A i \in 1 .. Len(fbatch') : camp'[fbatch'[i]].next <= today'
    BY <2>1, <2>2, DaysAre DEF PacedInv
  <2> QED
    BY <2>4, <2>5 DEF PacedInv
<1>2. CASE \/ \E a \in Askers : AskInsert(a)
           \/ \E c \in ErpCases : CancelAsked(c)
  <2>1. /\ UNCHANGED <<fpc, fbatch, today, mailed, early, breaks>>
        /\ \A k \in Camps :
             /\ camp[k].case # NoCase =>
                  camp'[k].case # NoCase /\ camp'[k].next = camp[k].next
             /\ camp[k].case = NoCase => mailed[k] = Never
    BY <1>2, PeopleMove, CampIs
       DEF CampaignsInv, Campaign, following, outside, PacedInv
  <2>2. ASSUME NEW k \in Camps
        PROVE  Price(k)' <= breaks'
    <3>1. CASE camp[k].case # NoCase
      BY <2>1, <3>1 DEF Price, Hasty, PacedInv
    <3>2. CASE camp[k].case = NoCase
      BY <2>1, <3>2 DEF Price, Hasty, PacedInv
    <3> QED
      BY <3>1, <3>2
  <2>3. fpc' \in {"next", "mail", "mark"} =>
          /\ \A i, j \in 1 .. Len(fbatch') : fbatch'[i] = fbatch'[j] => i = j
          /\ \A i \in 1 .. Len(fbatch') : camp'[fbatch'[i]].next <= today'
    BY <2>1, DaysAre DEF PacedInv, CampaignsInv, Asked
  <2> QED
    BY <2>1, <2>2, <2>3 DEF PacedInv
<1>3. CASE Passing /\ ~ FollowMail
  <2>1. /\ UNCHANGED <<camp, today, breaks, mailed, early>> /\ fpc # "mark"
    BY <1>3, PassingKeeps
       DEF Passing, FollowList, FollowSkip, FollowTake, MirrorList,
           MirrorSkip, MirrorTake, MirrorPost, MirrorMark, FollowDone
  <2>2. \A k \in Camps :
          /\ camp'[k].case = NoCase => mailed'[k] = Never
          /\ mailed'[k] # Never => mailed'[k] <= today'
    BY <2>1 DEF PacedInv
  <2>3. ASSUME NEW k \in Camps PROVE Price(k)' <= breaks'
    <3>1. Hasty(k)' => Hasty(k)
      BY <2>1 DEF Hasty
    <3>2. Price(k) <= breaks /\ early[k] \in Nat /\ breaks \in Nat
      BY DaysAre DEF PacedInv
    <3> QED
      BY <2>1, <3>1, <3>2 DEF Price
  <2>4. CASE FollowList
    <3> DEFINE S == {k \in Camps : Listed(k)}
    <3>1. \A k \in S : camp[k].next <= today
      BY DEF Listed
    <3>2. fbatch' = SetToSeq(S) /\ S \subseteq Camps
      BY <2>4 DEF FollowList
    <3> HIDE DEF S
    <3>3. /\ \A i, j \in 1 .. Len(fbatch') : fbatch'[i] = fbatch'[j] => i = j
          /\ \A i \in 1 .. Len(fbatch') : camp[fbatch'[i]].next <= today
      BY <3>1, <3>2, CampsListed
    <3> QED
      BY <2>1, <2>2, <2>3, <3>3 DEF PacedInv
  <2>5. CASE FollowSkip
    <3>1. fbatch # <<>> /\ fbatch' = Tail(fbatch) /\ fpc = "next"
      BY <2>5 DEF FollowSkip
    <3>2. /\ Len(fbatch) \in Nat /\ Len(Tail(fbatch)) = Len(fbatch) - 1
          /\ \A i \in 1 .. Len(Tail(fbatch)) :
               Tail(fbatch)[i] = fbatch[i + 1] /\ i + 1 \in 1 .. Len(fbatch)
      BY <3>1, InHand
    <3>3. /\ \A i, j \in 1 .. Len(fbatch) : fbatch[i] = fbatch[j] => i = j
          /\ \A i \in 1 .. Len(fbatch) : camp[fbatch[i]].next <= today
      BY <3>1 DEF PacedInv
    <3>4. \A i, j \in 1 .. Len(fbatch') : fbatch'[i] = fbatch'[j] => i = j
      BY <3>1, <3>2, <3>3
    <3>5. \A i \in 1 .. Len(fbatch') : camp'[fbatch'[i]].next <= today'
      BY <2>1, <3>1, <3>2, <3>3
    <3> QED
      BY <2>2, <2>3, <3>4, <3>5 DEF PacedInv
  <2>6. CASE FollowTake
    <3>1. fpc = "next" /\ fbatch' = fbatch
      BY <2>6 DEF FollowTake
    <3> QED
      BY <2>1, <2>2, <2>3, <3>1 DEF PacedInv
  <2>7. CASE MirrorList \/ MirrorSkip \/ MirrorTake \/ MirrorPost \/ MirrorMark
             \/ FollowDone
    <3>1. fpc' \notin {"next", "mail", "mark"}
      BY <2>7 DEF MirrorList, MirrorSkip, MirrorTake, MirrorPost, MirrorMark, FollowDone
    <3> QED
      BY <2>2, <2>3, <3>1 DEF PacedInv
  <2> QED
    BY <1>3, <2>4, <2>5, <2>6, <2>7 DEF Passing
<1>4. CASE FollowMail
  <2> PICK k \in Camps : k = Head(fbatch)
    BY <1>4, Mailed, InHand
  <2>1. /\ fbatch # <<>> /\ fpc = "mail" /\ fpc' = "mark"
        /\ UNCHANGED <<fbatch, camp, today, breaks>>
        /\ mailed'[k] = today
        /\ early'[k] = IF mailed[k] # Never /\ today < mailed[k] + Cadence
                       THEN early[k] + 1 ELSE early[k]
        /\ \A j \in Camps : j # k => mailed'[j] = mailed[j] /\ early'[j] = early[j]
    BY <1>4, Mailed
  <2>2. k \in Camps /\ k = fbatch[1] /\ 1 \in 1 .. Len(fbatch)
        /\ camp[k].case # NoCase
    BY <2>1, InHand DEF CampaignsInv, Asked
  <2>3. camp[k].next <= today /\ Price(k) <= breaks
    BY <2>1, <2>2 DEF PacedInv
  <2>4. /\ early[k] \in Nat /\ mailed[k] \in Nat /\ camp[k].next \in Nat
        /\ today \in Nat /\ Cadence \in Nat /\ breaks \in Nat
    BY <2>2, DaysAre
  <2>5. ~ Hasty(k)'
    BY <2>1 DEF Hasty
  <2>6. early'[k] <= breaks
    <3>1. CASE mailed[k] # Never /\ today < mailed[k] + Cadence
      <4>1. Hasty(k)
        BY <2>1, <2>3, <2>4, <3>1 DEF Hasty
      <4> QED
        BY <2>1, <2>3, <2>4, <3>1, <4>1 DEF Price
    <3>2. CASE ~ (mailed[k] # Never /\ today < mailed[k] + Cadence)
      BY <2>1, <2>3, <2>4, <3>2 DEF Price
    <3> QED
      BY <3>1, <3>2
  <2>7. Price(k)' <= breaks'
    <3>1. early'[k] \in Nat
      BY <1>4, <2>2, Mailed
    <3> QED
      BY <2>1, <2>5, <2>6, <3>1 DEF Price
  <2>8. ASSUME NEW j \in Camps, j # k
        PROVE  Price(j)' <= breaks'
    <3>1. Hasty(j)' => Hasty(j)
      BY <2>1, <2>8 DEF Hasty
    <3>2. Price(j) <= breaks /\ early[j] \in Nat /\ breaks \in Nat
      BY DaysAre DEF PacedInv
    <3> QED
      BY <2>1, <2>8, <3>1, <3>2 DEF Price
  <2>9. \A j \in Camps :
          /\ camp'[j].case = NoCase => mailed'[j] = Never
          /\ mailed'[j] # Never => mailed'[j] <= today'
    BY <2>1, <2>2, <2>4 DEF PacedInv
  <2>10. fpc' \in {"next", "mail", "mark"} =>
           /\ \A i, j \in 1 .. Len(fbatch') : fbatch'[i] = fbatch'[j] => i = j
           /\ \A i \in 1 .. Len(fbatch') : camp'[fbatch'[i]].next <= today'
    BY <2>1 DEF PacedInv
  <2> QED
    BY <2>7, <2>8, <2>9, <2>10 DEF PacedInv
<1>5. CASE FollowMark
  <2> PICK k \in Camps : k = Head(fbatch)
    BY <1>5, SentIsMarked, InHand
  <2>1. /\ fbatch # <<>> /\ fpc = "mark" /\ fpc' = "next"
        /\ fbatch' = Tail(fbatch) /\ today' = today
        /\ UNCHANGED <<mailed, early, breaks>>
        /\ \A j \in Camps : j # k => camp'[j] = camp[j]
        /\ camp'[k].case = camp[k].case /\ camp'[k].next = today + Cadence
    BY <1>5, SentIsMarked DEF outside
  <2>2. /\ k = fbatch[1] /\ 1 \in 1 .. Len(fbatch) /\ k \in Camps
        /\ \A i \in 1 .. Len(Tail(fbatch)) :
             Tail(fbatch)[i] = fbatch[i + 1] /\ i + 1 \in 1 .. Len(fbatch)
    BY <2>1, InHand
  <2>3. /\ early[k] \in Nat /\ mailed[k] \in Nat
        /\ today \in Nat /\ Cadence \in Nat /\ breaks \in Nat
    BY <2>2, DaysAre
  <2>4. Price(k)' <= breaks'
    <3>1. early[k] <= breaks /\ (mailed[k] # Never => mailed[k] <= today)
      BY <2>2, <2>3 DEF PacedInv, Price
    <3>2. ~ Hasty(k)'
      BY <2>1, <2>3, <3>1 DEF Hasty
    <3> QED
      BY <2>1, <2>3, <3>1, <3>2 DEF Price
  <2>5. ASSUME NEW j \in Camps, j # k
        PROVE  Price(j)' <= breaks'
    <3>1. Hasty(j)' => Hasty(j)
      BY <2>1, <2>5 DEF Hasty
    <3>2. Price(j) <= breaks /\ early[j] \in Nat /\ breaks \in Nat
      BY DaysAre DEF PacedInv
    <3> QED
      BY <2>1, <2>5, <3>1, <3>2 DEF Price
  <2>6. \A j \in Camps :
          /\ camp'[j].case = NoCase => mailed'[j] = Never
          /\ mailed'[j] # Never => mailed'[j] <= today'
    BY <2>1 DEF PacedInv
  <2>7. \A i \in 1 .. Len(Tail(fbatch)) : Tail(fbatch)[i] # k /\ Tail(fbatch)[i] \in Camps
    BY <2>1, <2>2, DaysAre DEF PacedInv
  <2>8. \A i \in 1 .. Len(fbatch') : camp'[fbatch'[i]].next <= today'
    BY <2>1, <2>2, <2>7 DEF PacedInv
  <2>9. \A i, j \in 1 .. Len(fbatch') : fbatch'[i] = fbatch'[j] => i = j
    <3>1. Len(fbatch) \in Nat /\ Len(Tail(fbatch)) = Len(fbatch) - 1
      BY <2>1, InHand
    <3>2. \A i, j \in 1 .. Len(fbatch) : fbatch[i] = fbatch[j] => i = j
      BY <2>1 DEF PacedInv
    <3> QED
      BY <2>1, <2>2, <3>1, <3>2
  <2> QED
    BY <2>4, <2>5, <2>6, <2>8, <2>9 DEF PacedInv
<1>6. CASE FollowStop
  <2>1. /\ fpc' = "idle" /\ breaks' = breaks + 1
        /\ UNCHANGED <<camp, today, mailed, early>>
    BY <1>6 DEF FollowStop, campaigns, outside
  <2>2. ASSUME NEW k \in Camps PROVE Price(k)' <= breaks'
    <3>1. Price(k) <= breaks /\ early[k] \in Nat /\ breaks \in Nat
      BY DaysAre DEF PacedInv
    <3> QED
      BY <2>1, <3>1 DEF Price
  <2> QED
    BY <2>1, <2>2 DEF PacedInv
<1>7. CASE UNCHANGED followVars
  BY <1>7 DEF followVars, outside, campaigns, following, PacedInv, Price, Hasty
<1> QED
  BY <1>1, <1>2, <1>3, <1>4, <1>5, <1>6, <1>7 DEF FollowNext, Follow, Passing

(***************************************************************************)
(* Paced, for every cadence and end date and any number of campaigns: the  *)
(* date of the next mail counts from a day that is not before the last     *)
(* mail, and a mail whose day was not marked is the fault of a cut pass.   *)
(***************************************************************************)
THEOREM CadenceKept == FollowSpec => []Paced
<1>1. CampaignsInv /\ PacedInv => Paced
  <2> SUFFICES ASSUME CampaignsInv, PacedInv, NEW k \in Camps
               PROVE  early[k] <= breaks
    BY DEF Paced
  <2>1. Price(k) <= breaks /\ early[k] \in Nat /\ breaks \in Nat
    BY DaysAre DEF PacedInv
  <2> QED
    BY <2>1 DEF Price
<1> QED
  BY FollowInitial, FollowStep, FollowInitialPaced, PacedStep, <1>1,
     PTL DEF FollowSpec

-----------------------------------------------------------------------------
(* FollowUps: the replies *)

\* What the cursor says is mirrored, and what the pass under way has posted.
Behind(k, r) ==
    \/ r <= cursor[k]
    \/ fpc = "post" /\ k = Head(fbatch) /\ r < Head(queue)
    \/ fpc = "mirrored" /\ k = Head(fbatch) /\ r <= Head(queue)

(***************************************************************************)
(* A pass posts one reply after the other, all of them beyond the cursor;  *)
(* what is not behind was posted in passes that were cut short.            *)
(***************************************************************************)
MirrorInv ==
    /\ fpc \in {"post", "mirrored"} => Head(queue) > cursor[Head(fbatch)]
    /\ fpc = "post" => \A i \in 1 .. Len(queue) : queue[i] = Head(queue) + i - 1
    /\ \A k \in Camps, r \in 1 .. MaxReplies :
         posted[k][r] <= breaks + (IF Behind(k, r) THEN 1 ELSE 0)

LEMMA PostedTyped ==
    ASSUME CampaignsInv
    PROVE  /\ MaxReplies \in Nat /\ breaks \in Nat
           /\ \A k \in Camps :
                /\ cursor[k] \in Nat
                /\ \A r \in 1 .. MaxReplies : posted[k][r] \in Nat /\ r \in Nat
BY FollowUpsAssumption DEF CampaignsInv, FollowTypeOK

LEMMA FollowInitialMirror == FollowInit => MirrorInv
<1> SUFFICES ASSUME FollowInit PROVE MirrorInv
  OBVIOUS
<1>1. fpc = "idle" /\ breaks = 0
  BY DEF FollowInit
<1>2. \A k \in Camps, r \in 1 .. MaxReplies : posted[k][r] = 0
  BY DEF FollowInit
<1> QED
  BY <1>1, <1>2 DEF MirrorInv, Behind

LEMMA MirrorStep ==
    ASSUME CampaignsInv, MirrorInv, [FollowNext]_followVars
    PROVE  MirrorInv'
<1>1. CASE UNCHANGED <<fpc, fbatch, queue, cursor, posted, breaks>>
  BY <1>1 DEF MirrorInv, Behind
<1>2. CASE /\ fpc \notin {"post", "mirrored"} /\ fpc' \notin {"post", "mirrored"}
           /\ UNCHANGED <<cursor, posted, breaks>>
  BY <1>2 DEF MirrorInv, Behind
<1>3. CASE MirrorTake
  <2>1. /\ fpc = "mirror" /\ fpc' = "post"
        /\ UNCHANGED <<fbatch, cursor, posted, breaks>>
    BY <1>3 DEF MirrorTake
  <2>2. PICK p \in Nat :
          /\ p >= cursor[Head(fbatch)]
          /\ Head(queue') = p + 1
          /\ \A i \in 1 .. Len(queue') : queue'[i] = p + i
    BY <1>3, QueueIs
  <2>3. Head(fbatch) \in Camps
    BY <1>3, InHand DEF MirrorTake
  <2>4. Head(queue') > cursor[Head(fbatch)]
    BY <2>2, <2>3, PostedTyped
  <2>5. \A i \in 1 .. Len(queue') : queue'[i] = Head(queue') + i - 1
    BY <2>2
  <2>6. ASSUME NEW k \in Camps, NEW r \in 1 .. MaxReplies
        PROVE  posted[k][r] <= breaks + (IF Behind(k, r)' THEN 1 ELSE 0)
    <3>1. posted[k][r] <= breaks + (IF Behind(k, r) THEN 1 ELSE 0)
      BY DEF MirrorInv
    <3>2. Behind(k, r) => Behind(k, r)'
      BY <2>1 DEF Behind
    <3> QED
      BY <3>1, <3>2, PostedTyped
  <2> QED
    BY <2>1, <2>4, <2>5, <2>6 DEF MirrorInv
<1>4. CASE MirrorPost
  <2> DEFINE c == Head(fbatch)
             q == Head(queue)
  <2>1. /\ fpc = "post" /\ queue # <<>>
        /\ posted' = [posted EXCEPT ![c][q] = @ + 1]
        /\ queue' = IF Len(queue) = 1 THEN queue ELSE Tail(queue)
        /\ fpc' = IF Len(queue) = 1 THEN "mirrored" ELSE "post"
        /\ UNCHANGED <<fbatch, cursor, breaks>>
    BY <1>4 DEF MirrorPost
  <2>2. fbatch # <<>> /\ queue \in Seq(1 .. MaxReplies) /\ MaxReplies \in Nat
    BY <2>1, FollowUpsAssumption DEF CampaignsInv, FollowTypeOK
  <2>3. /\ c \in Camps /\ q \in 1 .. MaxReplies /\ q = queue[1]
        /\ Len(queue) \in Nat \ {0}
    BY <2>1, <2>2, InHand
  <2>4. /\ q > cursor[c]
        /\ \A i \in 1 .. Len(queue) : queue[i] = q + i - 1
        /\ \A r \in 1 .. MaxReplies, k \in Camps :
             posted[k][r] <= breaks + (IF Behind(k, r) THEN 1 ELSE 0)
    BY <2>1 DEF MirrorInv
  <2>5. CASE Len(queue) = 1
    <3>1. queue' = queue /\ fpc' = "mirrored"
      BY <2>1, <2>5
    <3>2. \A k \in Camps, r \in 1 .. MaxReplies :
            Behind(k, r)' <=> Behind(k, r) \/ (k = c /\ r = q)
      BY <2>1, <2>3, <3>1 DEF Behind
    <3>3. fpc' \in {"post", "mirrored"} => Head(queue') > cursor'[Head(fbatch')]
      BY <2>1, <2>4, <3>1
    <3> HIDE DEF c, q
    <3>4. ASSUME NEW k \in Camps, NEW r \in 1 .. MaxReplies
          PROVE  posted'[k][r] <= breaks + (IF Behind(k, r)' THEN 1 ELSE 0)
      <4>1. posted'[k][r] = IF k = c /\ r = q THEN posted[k][r] + 1 ELSE posted[k][r]
        BY <2>1, <2>3 DEF CampaignsInv, FollowTypeOK
      <4>2. ~ Behind(c, q)
        BY <2>1, <2>3, <2>4, PostedTyped DEF Behind, c, q
      <4> QED
        BY <2>4, <3>2, <4>1, <4>2, PostedTyped
    <3> QED
      BY <2>1, <3>1, <3>3, <3>4 DEF MirrorInv
  <2>6. CASE Len(queue) # 1
    <3>1. /\ queue' = Tail(queue) /\ fpc' = "post"
          /\ Len(queue') = Len(queue) - 1 /\ Len(queue') # 0
          /\ \A i \in 1 .. Len(queue') : queue'[i] = queue[i + 1] /\ i + 1 \in 1 .. Len(queue)
      BY <2>1, <2>2, <2>3, <2>6
    <3>2. Head(queue') = q + 1
      <4>1. queue' \in Seq(1 .. MaxReplies) /\ 1 \in 1 .. Len(queue')
        BY <2>2, <2>3, <3>1
      <4>2. Head(queue') = queue'[1]
        BY <4>1
      <4>3. queue'[1] = queue[2] /\ 2 \in 1 .. Len(queue)
        BY <3>1, <4>1
      <4>4. queue[2] = q + 2 - 1
        BY <2>4, <4>3
      <4> QED
        BY <2>3, <4>2, <4>3, <4>4
    <3> /\ cursor' = cursor /\ fbatch' = fbatch /\ fpc = "post"
        /\ cursor[c] \in Nat /\ q \in Nat
      BY <2>1, <2>3, PostedTyped
    <3>3. \A k \in Camps, r \in 1 .. MaxReplies :
            Behind(k, r)' <=> Behind(k, r) \/ (k = c /\ r = q)
      <4> TAKE k \in Camps, r \in 1 .. MaxReplies
      <4>1. r \in Nat
        BY <2>2
      <4>2. Behind(k, r)' <=> r <= cursor[k] \/ (k = c /\ r < q + 1)
        BY <3>1, <3>2 DEF Behind
      <4>3. Behind(k, r) <=> r <= cursor[k] \/ (k = c /\ r < q)
        BY DEF Behind
      <4> HIDE DEF c, q
      <4> QED
        BY <4>1, <4>2, <4>3
    <3>4. Head(queue') > cursor'[Head(fbatch')]
      <4>1. Head(queue') = q + 1 /\ cursor'[Head(fbatch')] = cursor[c]
        BY <3>2
      <4> HIDE DEF c, q
      <4> QED
        BY <2>4, <4>1
    <3>5. \A i \in 1 .. Len(queue') : queue'[i] = Head(queue') + i - 1
      <4> TAKE i \in 1 .. Len(queue')
      <4>1. i \in Int /\ queue'[i] = queue[i + 1] /\ i + 1 \in 1 .. Len(queue)
        BY <3>1, <2>3
      <4>2. queue[i + 1] = q + (i + 1) - 1
        BY <2>4, <4>1
      <4> HIDE DEF c, q
      <4> QED
        BY <3>2, <4>1, <4>2
    <3> HIDE DEF c, q
    <3>6. ASSUME NEW k \in Camps, NEW r \in 1 .. MaxReplies
          PROVE  posted'[k][r] <= breaks + (IF Behind(k, r)' THEN 1 ELSE 0)
      <4>1. posted'[k][r] = IF k = c /\ r = q THEN posted[k][r] + 1 ELSE posted[k][r]
        BY <2>1, <2>3 DEF CampaignsInv, FollowTypeOK
      <4>2. ~ Behind(c, q)
        BY <2>1, <2>3, <2>4, PostedTyped DEF Behind, c, q
      <4> QED
        BY <2>4, <3>3, <4>1, <4>2, PostedTyped
    <3> QED
      BY <2>1, <3>4, <3>5, <3>6 DEF MirrorInv
  <2> QED
    BY <2>5, <2>6
<1>5. CASE MirrorMark
  <2> DEFINE c == Head(fbatch)
             q == Head(queue)
  <2>1. /\ fpc = "mirrored" /\ fpc' = "mirror"
        /\ cursor' = [cursor EXCEPT ![c] = q]
        /\ UNCHANGED <<posted, breaks>>
    BY <1>5 DEF MirrorMark
  <2>2. fbatch # <<>> /\ queue \in Seq(1 .. MaxReplies) /\ queue # <<>>
    BY <2>1 DEF CampaignsInv, FollowTypeOK, Replying
  <2>3. c \in Camps /\ q \in 1 .. MaxReplies /\ q > cursor[c]
    BY <2>1, <2>2, InHand, PostedTyped DEF MirrorInv
  <2>4. \A k \in Camps : cursor'[k] = IF k = c THEN q ELSE cursor[k]
    BY <2>1 DEF CampaignsInv, FollowTypeOK
  <2>5. ASSUME NEW k \in Camps, NEW r \in 1 .. MaxReplies, Behind(k, r)
        PROVE  Behind(k, r)'
    <3>1. r <= cursor'[k]
      BY <2>1, <2>3, <2>4, <2>5, PostedTyped DEF Behind
    <3> QED
      BY <3>1 DEF Behind
  <2>6. ASSUME NEW k \in Camps, NEW r \in 1 .. MaxReplies
        PROVE  posted[k][r] <= breaks + (IF Behind(k, r)' THEN 1 ELSE 0)
    <3>1. posted[k][r] <= breaks + (IF Behind(k, r) THEN 1 ELSE 0)
      BY DEF MirrorInv
    <3> QED
      BY <2>5, <3>1, PostedTyped
  <2> QED
    BY <2>1, <2>6 DEF MirrorInv
<1>6. CASE FollowStop
  <2>1. fpc' = "idle" /\ breaks' = breaks + 1 /\ UNCHANGED <<cursor, posted>>
    BY <1>6 DEF FollowStop
  <2>2. ASSUME NEW k \in Camps, NEW r \in 1 .. MaxReplies
        PROVE  posted[k][r] <= breaks + 1 + (IF Behind(k, r)' THEN 1 ELSE 0)
    <3>1. posted[k][r] <= breaks + (IF Behind(k, r) THEN 1 ELSE 0)
      BY DEF MirrorInv
    <3> QED
      BY <3>1, PostedTyped
  <2> QED
    BY <2>1, <2>2 DEF MirrorInv
<1>7. CASE \/ DayPasses \/ ChatCreated
           \/ \E c \in ErpCases : OwnershipMoves(c) \/ CustomerReplies(c)
           \/ \E a \in Askers, c \in ErpCases : AskCheck(a, c)
  BY <1>1, <1>7, AroundMoves DEF CampaignsInv, following
<1>8. CASE \/ \E a \in Askers : AskInsert(a)
           \/ \E c \in ErpCases : CancelAsked(c)
  BY <1>1, <1>8, PeopleMove DEF following
<1>9. CASE \/ FollowList \/ FollowSkip \/ FollowTake \/ FollowMail \/ FollowMark
           \/ MirrorList \/ MirrorSkip \/ FollowDone
  BY <1>2, <1>9 DEF FollowList, FollowSkip, FollowTake, FollowMail, FollowMark,
                    MirrorList, MirrorSkip, FollowDone
<1>10. CASE UNCHANGED followVars
  BY <1>1, <1>10 DEF followVars, following
<1> QED
  BY <1>3, <1>4, <1>5, <1>6, <1>7, <1>8, <1>9, <1>10 DEF FollowNext, Follow

(***************************************************************************)
(* MirroredOnce, for every number of campaigns and replies and every limit *)
(* of the timeline: a pass that is cut short may cost one more post.       *)
(***************************************************************************)
THEOREM RepliesMirroredOnce == FollowSpec => []MirroredOnce
<1>1. CampaignsInv /\ MirrorInv => MirroredOnce
  <2> SUFFICES ASSUME CampaignsInv, MirrorInv,
                      NEW k \in Camps, NEW r \in 1 .. MaxReplies
               PROVE  posted[k][r] <= 1 + breaks
    BY DEF MirroredOnce
  <2>1. posted[k][r] <= breaks + (IF Behind(k, r) THEN 1 ELSE 0)
    BY DEF MirrorInv
  <2> QED
    BY <2>1, PostedTyped
<1> QED
  BY FollowInitial, FollowStep, FollowInitialMirror, MirrorStep, <1>1,
     PTL DEF FollowSpec
=============================================================================
