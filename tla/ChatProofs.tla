----------------------------- MODULE ChatProofs -----------------------------
(***************************************************************************)
(* Chat and Documents for every set of messages, cases and uploads, every  *)
(* text and size of chunk: what the chunks of a page hold, what the index  *)
(* holds after an upload, and that the model's tool calls are all answered. *)
(***************************************************************************)
EXTENDS Chat, WellFoundedInduction, TLAPS

-----------------------------------------------------------------------------
(* Induction: what fails for some number fails for a least one.             *)

LEMMA LessWellFounded == IsWellFoundedOn({p \in Nat \X Nat : p[1] < p[2]}, Nat)
BY NatLessThanWellFounded, Zenon DEF OpToRel

LEMMA LeastOf ==
    ASSUME NEW T, T \subseteq Nat, T # {}
    PROVE  \E x \in T : \A y \in T : x <= y
<1> DEFINE less == {p \in Nat \X Nat : p[1] < p[2]}
<1>1. PICK x \in T : \A y \in T : ~ (<<y, x>> \in less)
  BY LessWellFounded, WFMin, Zenon
<1>2. ASSUME NEW y \in T PROVE x <= y
  <2>1. ~ (<<y, x>> \in less)
    BY <1>1
  <2>2. x \in Nat /\ y \in Nat
    OBVIOUS
  <2> QED
    BY <2>1, <2>2
<1> QED
  BY <1>2

-----------------------------------------------------------------------------
(* The chunks of one page                                                   *)

\* The chunks of a page of n characters from the character s on, when f has
\* those from the later ones on.
From(f, n, s) ==
    IF s + ChunkSize >= n THEN {<<s, n>>}
    ELSE {<<s, s + ChunkSize>>} \cup f[s + ChunkSize - Overlap]

LEMMA Sizes ==
    /\ ChunkSize \in Nat /\ Overlap \in Nat
    /\ Overlap < ChunkSize
BY DocumentsAssumption

\* The next chunk begins further on, so that the cutting comes to an end: the
\* recursion of chunk_pages has a solution.
LEMMA ChunksExist ==
    ASSUME NEW n \in Nat
    PROVE  \E f : f = [s \in 0 .. n |-> From(f, n, s)]
<1> DEFINE Solves(f, k) ==
             /\ f = [s \in n - k .. n |-> f[s]]
             /\ \A s \in n - k .. n : f[s] = From(f, n, s)
           Without == {k \in 0 .. n : ~ \E f : Solves(f, k)}
<1>1. ASSUME Without # {} PROVE FALSE
  <2>1. PICK k \in Without : \A j \in Without : k <= j
    <3>1. Without \subseteq Nat
      OBVIOUS
    <3> HIDE DEF Without
    <3> QED
      BY <1>1, <3>1, LeastOf, Zenon
  <2>2. k \in 0 .. n /\ ~ \E f : Solves(f, k)
    BY <2>1
  <2>3. CASE k = 0
    <3> DEFINE g == [s \in n - 0 .. n |-> {<<s, n>>}]
    <3>1. \A s \in n - 0 .. n : From(g, n, s) = {<<s, n>>}
      BY Sizes DEF From
    <3>2. Solves(g, 0)
      BY <3>1
    <3> QED
      BY <2>2, <2>3, <3>2
  <2>4. CASE k # 0
    <3>1. k - 1 \in 0 .. n /\ k - 1 \notin Without
      BY <2>1, <2>2, <2>4
    <3>2. PICK f : Solves(f, k - 1)
      BY <3>1
    <3> DEFINE g == [s \in n - k .. n |-> From(f, n, s)]
    <3>3. ASSUME NEW s \in n - k .. n PROVE From(g, n, s) = From(f, n, s)
      <4>1. CASE s + ChunkSize >= n
        BY <4>1 DEF From
      <4>2. CASE ~ (s + ChunkSize >= n)
        <5> DEFINE r == s + ChunkSize - Overlap
        <5>1. r \in n - (k - 1) .. n /\ r \in n - k .. n
          BY <4>2, Sizes, <2>2, <2>4
        <5>2. g[r] = From(f, n, r) /\ f[r] = From(f, n, r)
          BY <3>2, <5>1
        <5> QED
          BY <5>2 DEF From
      <4> QED
        BY <4>1, <4>2
    <3>4. \A s \in n - k .. n : g[s] = From(g, n, s)
      BY <3>3
    <3>5. g = [s \in n - k .. n |-> g[s]]
      OBVIOUS
    <3>6. Solves(g, k)
      BY <3>4, <3>5, Zenon
    <3> QED
      BY <2>2, <3>6
  <2> QED
    BY <2>3, <2>4
<1>2. PICK f : Solves(f, n)
  BY <1>1
<1>3. n - n = 0
  OBVIOUS
<1>4. f = [s \in 0 .. n |-> From(f, n, s)]
  BY <1>2, <1>3
<1> QED
  BY <1>4

LEMMA WindowsUnfold ==
    ASSUME NEW n \in Nat, n # 0
    PROVE  \E f : f = [s \in 0 .. n |-> From(f, n, s)] /\ Windows(n) = f[0]
<1> DEFINE w[s \in 0 .. n] ==
             IF s + ChunkSize >= n THEN {<<s, n>>}
             ELSE {<<s, s + ChunkSize>>} \cup w[s + ChunkSize - Overlap]
<1>1. PICK f : f = [s \in 0 .. n |-> From(f, n, s)]
  BY ChunksExist
<1>2. w = [s \in 0 .. n |-> From(w, n, s)]
  BY <1>1, Zenon DEF From
<1>3. Windows(n) = w[0]
  BY Zenon DEF Windows
<1> HIDE DEF w
<1> QED
  BY <1>2, <1>3

\* Of any page: no chunk is empty or too long, and no passage of at most
\* Overlap characters is cut by all of them.
LEMMA EveryPassageWhole ==
    ASSUME NEW n \in Nat
    PROVE  WholePassages(n)
<1>1. CASE n = 0
  <2>1. Windows(n) = {}
    BY <1>1 DEF Windows
  <2> QED
    BY <1>1, <2>1 DEF WholePassages
<1>2. CASE n # 0
  <2>1. PICK f : f = [s \in 0 .. n |-> From(f, n, s)] /\ Windows(n) = f[0]
    BY <1>2, WindowsUnfold, Zenon
  <2> DEFINE Fits(s) == \A x \in f[s] : x[1] < x[2] /\ x[2] - x[1] <= ChunkSize
             Covers(s) == \A a \in s .. n, b \in 0 .. n :
                            (a < b /\ b - a <= Overlap)
                              => \E x \in f[s] : x[1] <= a /\ b <= x[2]
             Bad == {k \in 1 .. n : ~ (Fits(n - k) /\ Covers(n - k))}
  <2>2. ASSUME Bad # {} PROVE FALSE
    <3>1. PICK k \in Bad : \A j \in Bad : k <= j
      <4>1. Bad \subseteq Nat
        OBVIOUS
      <4> HIDE DEF Bad
      <4> QED
        BY <2>2, <4>1, LeastOf, Zenon
    <3> DEFINE s == n - k
               r == s + ChunkSize - Overlap
    <3>2. k \in 1 .. n /\ s \in 0 .. n /\ s < n
      BY <3>1
    <3>3. f[s] = From(f, n, s)
      BY <2>1, <3>2
    <3>4. CASE s + ChunkSize >= n
      <4>1. f[s] = {<<s, n>>}
        BY <3>3, <3>4 DEF From
      <4>2. Fits(s)
        BY <4>1, <3>2, <3>4, Sizes
      <4>3. Covers(s)
        BY <4>1, <3>2
      <4> QED
        BY <4>2, <4>3, <3>1
    <3>5. CASE ~ (s + ChunkSize >= n)
      <4>1. f[s] = {<<s, s + ChunkSize>>} \cup f[r]
        BY <3>3, <3>5 DEF From
      <4>2. r \in 0 .. n /\ n - r \in 1 .. n /\ n - r < k /\ n - (n - r) = r
        BY <3>2, <3>5, Sizes
      <4>3. n - r \notin Bad
        BY <3>1, <4>2
      <4>4. Fits(r) /\ Covers(r)
        BY <4>2, <4>3
      <4> HIDE DEF r
      <4>5. Fits(s)
        BY <4>1, <4>4, <3>2, Sizes
      <4>6. Covers(s)
        <5> SUFFICES ASSUME NEW a \in s .. n, NEW b \in 0 .. n,
                            a < b, b - a <= Overlap
                     PROVE  \E x \in f[s] : x[1] <= a /\ b <= x[2]
          OBVIOUS
        <5>1. CASE b <= s + ChunkSize
          <6> DEFINE x == <<s, s + ChunkSize>>
          <6>1. x \in f[s]
            BY <4>1
          <6>2. x[1] <= a /\ b <= x[2]
            BY <5>1, <3>2, Sizes
          <6> HIDE DEF x
          <6> QED
            BY <6>1, <6>2
        <5>2. CASE ~ (b <= s + ChunkSize)
          <6>1. a \in r .. n
            BY <5>2, <3>2, Sizes DEF r
          <6> QED
            BY <6>1, <4>4, <4>1
        <5> QED
          BY <5>1, <5>2
      <4> QED
        BY <4>5, <4>6, <3>1
    <3> QED
      BY <3>4, <3>5
  <2>3. Fits(0) /\ Covers(0)
    <3>1. n \in 1 .. n /\ n - n = 0
      BY <1>2
    <3> QED
      BY <2>2, <3>1
  <2> QED
    BY <2>1, <2>3 DEF WholePassages
<1> QED
  BY <1>1, <1>2

LEMMA EveryUploadFindable == Uploads \subseteq Findable
<1> SUFFICES ASSUME NEW u \in Uploads, NEW i \in DOMAIN Pages[u]
             PROVE  WholePassages(Pages[u][i])
  BY DEF Findable
<1>1. Pages[u] \in Seq(Nat)
  BY DocumentsAssumption
<1>2. Pages[u][i] \in Nat
  BY <1>1
<1> QED
  BY <1>2, EveryPassageWhole

-----------------------------------------------------------------------------
(* The turns                                                                *)

\* The loop owes a tool message for each call it has not come to, and for no
\* other; only a turn at a call, or one that died there, has calls left.
Square(x) ==
    /\ x.owed = x.left
    /\ x.pc = "call" => x.left > 0
    /\ x.pc \notin Calling \cup {"failed"} => x.left = 0

\* A turn's step.
Moves(t) ==
    \E y \in Turn : turn' = [turn EXCEPT ![t] = y] /\ Square(y)

TurnsInv ==
    /\ turn \in [Turns -> Turn]
    /\ \A t \in Turns : Square(turn[t])

LEMMA GoMoves ==
    ASSUME TurnsInv, NEW t \in Turns, NEW pc, Go(t, pc) \/ Leave(t, pc),
           pc \in {"intent", "list", "ask", "last"} \cup Ended
                    \cup {"pause", "resume", "comment"},
           turn[t].left = 0 \/ pc \in {"failed", "pause", "resume", "comment"}
    PROVE  Moves(t)
<1> DEFINE y == [turn[t] EXCEPT !.pc = pc]
           z == [y EXCEPT !.text = NoText]
<1>1. turn[t] \in Turn /\ Square(turn[t])
  BY DEF TurnsInv
<1>2. y \in Turn /\ z \in Turn
  BY <1>1 DEF Turn, Calling, Ended
<1>3. Square(y) /\ Square(z) /\ y.pc = pc /\ z.pc = pc
  BY <1>1, <1>2 DEF Square, Turn, Calling, Ended
<1>4. turn' = [turn EXCEPT ![t] = y] \/ turn' = [turn EXCEPT ![t] = z]
  BY DEF Go, Leave
<1> HIDE DEF y, z
<1> QED
  BY <1>2, <1>3, <1>4 DEF Moves

LEMMA ToolMessageSquare ==
    ASSUME NEW x \in Turn, Square(x), x.left > 0
    PROVE  /\ ToolMessage(x) \in Turn /\ Square(ToolMessage(x))
           /\ ToolMessage(x).pc \in {"call", "ask", "last"}
<1> DEFINE y == [x EXCEPT !.left = @ - 1, !.owed = @ - 1, !.pc = "call"]
<1>1. x.left \in 1 .. MaxCalls /\ x.owed = x.left /\ x.round \in 1 .. MaxRounds
  BY DEF Square, Turn
<1>2. /\ y \in Turn /\ y.left = x.left - 1 /\ y.owed = x.left - 1
      /\ y.pc = "call" /\ y.round = x.round
  <2>1. x.left - 1 \in 0 .. MaxCalls
    BY <1>1, ChatAssumption
  <2> QED
    BY <1>1, <2>1 DEF Turn, Calling
<1> HIDE DEF y
<1>3. ToolMessage(x) = IF y.left = 0 THEN AfterRound(y) ELSE y
  BY DEF ToolMessage, y
<1>4. CASE y.left = 0
  <2>1. /\ AfterRound(y) \in Turn /\ AfterRound(y).pc \in {"ask", "last"}
        /\ AfterRound(y).left = y.left /\ AfterRound(y).owed = y.owed
    <3>1. CASE y.round = MaxRounds
      BY <1>2, <3>1 DEF AfterRound, Turn
    <3>2. CASE y.round # MaxRounds
      <4>1. y.round + 1 \in 1 .. MaxRounds
        BY <1>1, <1>2, <3>2, ChatAssumption
      <4> QED
        BY <1>2, <3>2, <4>1 DEF AfterRound, Turn
    <3> QED
      BY <3>1, <3>2
  <2> QED
    BY <1>1, <1>2, <1>3, <1>4, <2>1 DEF Square, Calling
<1>5. CASE y.left # 0
  BY <1>1, <1>2, <1>3, <1>5 DEF Square, Calling
<1> QED
  BY <1>4, <1>5

LEMMA ToldMoves ==
    ASSUME TurnsInv, NEW t \in Turns, Told(t), turn[t].left > 0
    PROVE  Moves(t)
<1> DEFINE y == ToolMessage(turn[t])
<1>1. /\ y \in Turn /\ Square(y)
  BY ToolMessageSquare DEF TurnsInv
<1>2. turn' = [turn EXCEPT ![t] = y]
  BY DEF Told
<1> HIDE DEF y
<1> QED
  BY <1>1, <1>2 DEF Moves

LEMMA BeginMoves ==
    ASSUME TurnsInv, NEW t \in Turns, NEW name, Begin(t, name)
    PROVE  Moves(t)
BY GoMoves DEF Begin

LEMMA PersonMoves ==
    ASSUME TurnsInv, NEW t \in Turns, Person(t)
    PROVE  Moves(t)
<1>0. turn[t] \in Turn /\ Square(turn[t])
  BY DEF TurnsInv
<1>1. CASE Receive(t)
  <2>1. PICK r \in Roles :
          \/ turn' = [turn EXCEPT ![t].role = r, ![t].pc = "ask"]
          \/ \E x \in Texts :
               turn' = [turn EXCEPT ![t].role = r, ![t].pc = "chat", ![t].text = x]
    BY <1>1 DEF Receive
  <2>2. turn[t].left = 0
    BY <1>0, <1>1 DEF Receive, At, Square, Calling
  <2>3. CASE turn' = [turn EXCEPT ![t].role = r, ![t].pc = "ask"]
    <3> DEFINE y == [turn[t] EXCEPT !.role = r, !.pc = "ask"]
    <3>1. y \in Turn /\ Square(y)
      BY <1>0, <2>2 DEF Turn, Square, Calling
    <3>2. turn' = [turn EXCEPT ![t] = y]
      BY <2>3
    <3> HIDE DEF y
    <3> QED
      BY <3>1, <3>2 DEF Moves
  <2>4. ASSUME NEW x \in Texts,
               turn' = [turn EXCEPT ![t].role = r, ![t].pc = "chat", ![t].text = x]
        PROVE  Moves(t)
    <3> DEFINE y == [turn[t] EXCEPT !.role = r, !.pc = "chat", !.text = x]
    <3>1. y \in Turn /\ Square(y)
      BY <1>0, <2>2 DEF Turn, Square, Calling
    <3>2. turn' = [turn EXCEPT ![t] = y]
      BY <2>4
    <3> HIDE DEF y
    <3> QED
      BY <3>1, <3>2 DEF Moves
  <2> QED
    BY <2>1, <2>3, <2>4
<1>2. CASE CardLink(t) \/ FollowLink(t) \/ DeadLink(t)
  <2>1. turn[t].left = 0
    BY <1>0, <1>2 DEF CardLink, FollowLink, DeadLink, At, Square, Calling
  <2> QED
    BY <1>2, <2>1, GoMoves DEF CardLink, FollowLink, DeadLink, Ended
<1>3. CASE SubmitPause(t) \/ SubmitComment(t)
  <2>1. turn[t].left = 0
    BY <1>0, <1>3 DEF SubmitPause, SubmitComment, At, Square, Calling
  <2> QED
    BY <1>3, <2>1, GoMoves, BeginMoves DEF SubmitPause, SubmitComment, Ended
<1> QED
  BY <1>1, <1>2, <1>3 DEF Person

LEMMA AdvanceMoves ==
    ASSUME TurnsInv, NEW t \in Turns, Advance(t)
    PROVE  Moves(t)
<1>0. turn[t] \in Turn /\ Square(turn[t])
  BY DEF TurnsInv
<1>1. CASE \/ FindProject(t) \/ PickCase(t) \/ TakeReply(t) \/ Intent(t)
           \/ AskModel(t) \/ LastAnswer(t)
  <2>1. turn[t].left = 0
    BY <1>0, <1>1 DEF FindProject, PickCase, TakeReply, Intent, AskModel,
         LastAnswer, At, Square, Calling
  <2>2. CASE FindProject(t) \/ TakeReply(t) \/ Intent(t) \/ LastAnswer(t)
    BY <2>1, <2>2, GoMoves DEF FindProject, TakeReply, Intent, LastAnswer, Ended
  <2>3. CASE PickCase(t)
    <3>1. ASSUME NEW c \in Cases,
                 turn' = [turn EXCEPT ![t].pc = "reply", ![t].case = c,
                                      ![t].text = NoText]
          PROVE  Moves(t)
      <4> DEFINE y == [turn[t] EXCEPT !.pc = "reply", !.case = c, !.text = NoText]
      <4>1. y \in Turn /\ Square(y)
        BY <1>0, <2>1 DEF Turn, Square, Calling
      <4>2. turn' = [turn EXCEPT ![t] = y]
        BY <3>1
      <4> HIDE DEF y
      <4> QED
        BY <4>1, <4>2 DEF Moves
    <3>2. Go(t, "intent") \/ Leave(t, "which") => Moves(t)
      BY <2>1, GoMoves DEF Ended
    <3> QED
      BY <2>3, <3>1, <3>2, Zenon DEF PickCase
  <2>4. CASE AskModel(t)
    <3>1. ASSUME NEW n \in 1 .. MaxCalls,
                 turn' = [turn EXCEPT ![t].pc = "call", ![t].left = n, ![t].owed = n]
          PROVE  Moves(t)
      <4> DEFINE y == [turn[t] EXCEPT !.pc = "call", !.left = n, !.owed = n]
      <4>1. n \in 0 .. MaxCalls /\ n > 0
        BY ChatAssumption
      <4>2. y \in Turn /\ Square(y)
        BY <1>0, <4>1 DEF Turn, Square, Calling
      <4>3. turn' = [turn EXCEPT ![t] = y]
        BY <3>1
      <4> HIDE DEF y
      <4> QED
        BY <4>2, <4>3 DEF Moves
    <3>2. Go(t, "answered") => Moves(t)
      BY <2>1, GoMoves DEF Ended
    <3> QED
      BY <2>4, <3>1, <3>2, Zenon DEF AskModel
  <2> QED
    BY <1>1, <2>2, <2>3, <2>4
<1>2. CASE Call(t)
  <2>1. turn[t].left > 0
    BY <1>0, <1>2 DEF Call, At, Square
  <2> QED
    BY <1>2, <2>1, ToldMoves, BeginMoves DEF Call, Reject
<1>3. CASE Write(t)
  <2>1. turn[t].left \in Nat
    BY <1>0 DEF Turn
  <2>2. CASE FromForm(t)
    BY <1>3, <2>2, GoMoves DEF Write, FromForm, Ended
  <2>3. CASE ~ FromForm(t)
    BY <1>3, <2>1, <2>3, ToldMoves DEF Write, FromForm
  <2> QED
    BY <2>2, <2>3
<1>4. CASE Fail(t)
  BY <1>4, GoMoves DEF Fail, Ended
<1> QED
  BY <1>1, <1>2, <1>3, <1>4 DEF Advance

LEMMA InitialTurns == Init => TurnsInv
<1> SUFFICES ASSUME Init PROVE TurnsInv
  OBVIOUS
<1>1. PICK r \in Roles : turn = [t \in Turns |->
         [pc |-> "new", role |-> r, text |-> NoText, case |-> NoCase,
          round |-> 1, left |-> 0, owed |-> 0]]
  BY ChatAssumption DEF Init
<1>2. turn \in [Turns -> Turn] /\ \A t \in Turns : Square(turn[t])
  BY <1>1, ChatAssumption DEF Turn, Square, Calling
<1> QED
  BY <1>2 DEF TurnsInv

LEMMA MovedTurns ==
    ASSUME TurnsInv, NEW t \in Turns, Moves(t)
    PROVE  TurnsInv'
<1>1. PICK y \in Turn : turn' = [turn EXCEPT ![t] = y] /\ Square(y)
  BY DEF Moves
<1>2. turn' \in [Turns -> Turn]
      /\ \A s \in Turns : turn'[s] = IF s = t THEN y ELSE turn[s]
  BY <1>1 DEF TurnsInv
<1>3. \A s \in Turns : Square(turn'[s])
  BY <1>1, <1>2 DEF TurnsInv
<1> QED
  BY <1>2, <1>3 DEF TurnsInv, Square

LEMMA RestartedTurns ==
    ASSUME TurnsInv, Restart
    PROVE  TurnsInv'
<1> DEFINE dead(t) == [turn[t] EXCEPT !.pc = "failed", !.text = NoText]
<1>1. ASSUME NEW t \in Turns
      PROVE  /\ dead(t) \in Turn /\ Square(dead(t))
             /\ turn[t] \in Turn /\ Square(turn[t])
  BY DEF TurnsInv, Turn, Ended, Square, Calling
<1>2. turn' = [t \in Turns |->
         IF turn[t].pc \in ({"new"} \cup Ended) \ {"form"} THEN turn[t]
         ELSE dead(t)]
  BY DEF Restart
<1> HIDE DEF dead
<1>3. turn' \in [Turns -> Turn]
      /\ \A t \in Turns : turn'[t] = turn[t] \/ turn'[t] = dead(t)
  BY <1>1, <1>2
<1>4. \A t \in Turns : Square(turn'[t])
  BY <1>1, <1>3
<1> QED
  BY <1>3, <1>4 DEF TurnsInv, Square

LEMMA NextTurns ==
    ASSUME TurnsInv, [Next]_vars
    PROVE  TurnsInv'
<1>1. CASE UNCHANGED turn
  BY <1>1 DEF TurnsInv, Square
<1>2. ASSUME NEW t \in Turns, Person(t) \/ Advance(t) PROVE TurnsInv'
  BY <1>2, PersonMoves, AdvanceMoves, MovedTurns
<1>3. CASE Restart
  BY <1>3, RestartedTurns
<1> QED
  BY <1>1, <1>2, <1>3 DEF Next, Outside, vars

\* However many tools the model asks for, of whatever name and in whatever
\* role, each call is answered before the model is asked again (loop.py, run).
THEOREM CallsAreAnswered == Spec => []CallsAnswered
<1>1. TurnsInv => CallsAnswered
  <2> SUFFICES ASSUME TurnsInv, NEW t \in Turns, turn[t].pc \in {"ask", "last"}
               PROVE  turn[t].owed = 0
    BY DEF CallsAnswered
  <2>1. Square(turn[t])
    BY DEF TurnsInv
  <2> QED
    BY <2>1 DEF Square, Calling
<1> QED
  BY InitialTurns, NextTurns, <1>1, PTL DEF Spec

-----------------------------------------------------------------------------
(* The uploads                                                              *)

\* How far an upload is says what it is about.
UploadsInv ==
    /\ DocumentsOK
    /\ \A u \in Uploads :
         /\ upload[u].step # "new" => upload[u].doc \in Docs
         /\ upload[u].step = "cleared" => u \notin Scanned
    /\ \A d \in Docs : disk[d] # NoUpload =>
         upload[disk[d]].step # "new" /\ upload[disk[d]].doc = d

\* Of a document whose uploads never met, only the last one is at work, and
\* the index holds what this one has made of it.
Indexed(d) ==
    /\ \A w \in Uploads : Busy(w) /\ upload[w].doc = d => w = disk[d]
    /\ disk[d] # NoUpload =>
         /\ upload[disk[d]].step = "cleared" => rows[d] = {}
         /\ upload[disk[d]].step = "ended" => rows[d] = {disk[d]} \ Scanned

IndexInv == \A d \in Docs \ mixed : Indexed(d)

LEMMA InitialUploads == Init => UploadsInv /\ IndexInv
BY DEF Init, InitDocuments, UploadsInv, IndexInv, Indexed, DocumentsOK, Steps, Busy

LEMMA SaveIndexed ==
    ASSUME UploadsInv, IndexInv, NEW u \in Uploads, NEW d \in Docs, SaveFile(u, d)
    PROVE  UploadsInv' /\ IndexInv'
<1>1. DocumentsOK'
  BY DEF SaveFile, UploadsInv, DocumentsOK, Steps
<1>2. \A w \in Uploads : upload'[w] = IF w = u THEN [step |-> "saved", doc |-> d]
                                               ELSE upload[w]
  BY DEF SaveFile, UploadsInv, DocumentsOK
<1>3. \A e \in Docs : disk'[e] = IF e = d THEN u ELSE disk[e]
  BY DEF SaveFile, UploadsInv, DocumentsOK
<1>4. rows' = rows /\ mixed \subseteq mixed' /\ upload[u].step = "new"
  BY DEF SaveFile
<1>5. d \notin mixed' => \A w \in Uploads : ~ (Busy(w) /\ upload[w].doc = d)
  BY DEF SaveFile
<1>6. NoUpload \notin Uploads
  BY DocumentsAssumption
<1>7. UploadsInv'
  <2>1. \A w \in Uploads :
          /\ upload'[w].step # "new" => upload'[w].doc \in Docs
          /\ upload'[w].step = "cleared" => w \notin Scanned
    BY <1>2 DEF UploadsInv
  <2>2. ASSUME NEW e \in Docs, disk'[e] # NoUpload
        PROVE  upload'[disk'[e]].step # "new" /\ upload'[disk'[e]].doc = e
    BY <1>2, <1>3, <1>4, <2>2 DEF UploadsInv, DocumentsOK
  <2> QED
    BY <1>1, <2>1, <2>2 DEF UploadsInv
<1>8. IndexInv'
  BY <1>2, <1>3, <1>4, <1>5, <1>6 DEF IndexInv, Indexed, UploadsInv, DocumentsOK, Busy
<1> QED
  BY <1>7, <1>8

LEMMA ClearIndexed ==
    ASSUME UploadsInv, IndexInv, NEW u \in Uploads, ClearChunks(u)
    PROVE  UploadsInv' /\ IndexInv'
<1> DEFINE d == upload[u].doc
           step == IF u \in Scanned THEN "ended" ELSE "cleared"
<1>1. upload[u].step = "saved" /\ d \in Docs
  BY DEF ClearChunks, UploadsInv
<1>2. DocumentsOK'
  BY <1>1 DEF ClearChunks, UploadsInv, DocumentsOK, Steps
<1>3. \A w \in Uploads : /\ upload'[w].doc = upload[w].doc
                         /\ upload'[w].step = IF w = u THEN step ELSE upload[w].step
  BY DEF ClearChunks, UploadsInv, DocumentsOK
<1>4. \A e \in Docs : rows'[e] = IF e = d THEN {} ELSE rows[e]
  BY <1>1 DEF ClearChunks, UploadsInv, DocumentsOK
<1>5. disk' = disk /\ mixed' = mixed
  BY DEF ClearChunks
<1>6. NoUpload \notin Uploads /\ u \in Scanned => {u} \ Scanned = {}
  BY DocumentsAssumption
<1> HIDE DEF d
<1>7. UploadsInv'
  BY <1>1, <1>2, <1>3, <1>5, <1>6 DEF UploadsInv, DocumentsOK
<1>8. IndexInv'
  BY <1>1, <1>3, <1>4, <1>5, <1>6
     DEF IndexInv, Indexed, UploadsInv, DocumentsOK, Busy, d
<1> QED
  BY <1>7, <1>8

LEMMA InsertIndexed ==
    ASSUME UploadsInv, IndexInv, NEW u \in Uploads, InsertChunks(u)
    PROVE  UploadsInv' /\ IndexInv'
<1> DEFINE d == upload[u].doc
<1>1. upload[u].step = "cleared" /\ d \in Docs /\ u \notin Scanned
  BY DEF InsertChunks, UploadsInv
<1>2. DocumentsOK'
  BY <1>1 DEF InsertChunks, UploadsInv, DocumentsOK, Steps
<1>3. \A w \in Uploads : /\ upload'[w].doc = upload[w].doc
                         /\ upload'[w].step = IF w = u THEN "ended" ELSE upload[w].step
  BY DEF InsertChunks, UploadsInv, DocumentsOK
<1>4. \A e \in Docs : rows'[e] = IF e = d THEN rows[e] \cup {u} ELSE rows[e]
  BY <1>1 DEF InsertChunks, UploadsInv, DocumentsOK
<1>5. disk' = disk /\ mixed' = mixed
  BY DEF InsertChunks
<1>6. NoUpload \notin Uploads /\ {u} \ Scanned = {} \cup {u}
  BY <1>1, DocumentsAssumption
<1> HIDE DEF d
<1>7. UploadsInv'
  BY <1>1, <1>2, <1>3, <1>5, <1>6 DEF UploadsInv, DocumentsOK
<1>8. d \notin mixed => disk[d] = u /\ rows[d] = {}
  BY <1>1, <1>6 DEF IndexInv, Indexed, Busy, d
<1>9. IndexInv'
  <2> SUFFICES ASSUME NEW e \in Docs \ mixed PROVE Indexed(e)'
    BY <1>5 DEF IndexInv
  <2>1. \A w \in Uploads : Busy(w)' /\ upload'[w].doc = e => w = disk[e]
    BY <1>3 DEF IndexInv, Indexed, Busy
  <2>2. CASE e = d
    BY <1>3, <1>4, <1>5, <1>6, <1>8, <2>1, <2>2 DEF Indexed
  <2>3. CASE e # d
    <3>1. disk[e] # NoUpload => disk[e] \in Uploads /\ disk[e] # u
      BY <2>3 DEF UploadsInv, DocumentsOK, d
    <3> QED
      BY <1>3, <1>4, <1>5, <2>1, <2>3, <3>1 DEF IndexInv, Indexed
  <2> QED
    BY <2>2, <2>3
<1> QED
  BY <1>7, <1>9

LEMMA LoseIndexed ==
    ASSUME UploadsInv, IndexInv, LoseUploads
    PROVE  UploadsInv' /\ IndexInv'
<1>1. upload' = [u \in Uploads |->
         IF Busy(u) THEN [upload[u] EXCEPT !.step = "lost"] ELSE upload[u]]
  BY DEF LoseUploads
<1>2. \A w \in Uploads :
        /\ upload'[w].doc = upload[w].doc
        /\ upload'[w].step = IF Busy(w) THEN "lost" ELSE upload[w].step
  BY <1>1 DEF UploadsInv, DocumentsOK
<1>3. DocumentsOK'
  BY <1>1 DEF LoseUploads, UploadsInv, DocumentsOK, Steps
<1>4. disk' = disk /\ mixed' = mixed /\ rows' = rows
  BY DEF LoseUploads
<1>5. NoUpload \notin Uploads
  BY DocumentsAssumption
<1>6. UploadsInv'
  BY <1>2, <1>3, <1>4, <1>5 DEF UploadsInv, DocumentsOK, Busy
<1>7. IndexInv'
  BY <1>2, <1>4, <1>5 DEF IndexInv, Indexed, UploadsInv, DocumentsOK, Busy
<1> QED
  BY <1>6, <1>7

LEMMA NextUploads ==
    ASSUME UploadsInv, IndexInv, [Next]_vars
    PROVE  UploadsInv' /\ IndexInv'
<1>1. CASE UNCHANGED documents
  BY <1>1 DEF documents, UploadsInv, IndexInv, Indexed, DocumentsOK, Busy
<1>2. CASE Uploading
  BY <1>2, SaveIndexed, ClearIndexed, InsertIndexed DEF Uploading
<1>3. CASE LoseUploads
  BY <1>3, LoseIndexed
<1> QED
  BY <1>1, <1>2, <1>3 DEF Next, Outside, Restart, vars

\* Whatever uploads die half way, a document's index is that of its file when
\* the file's upload is through, unless two of its uploads met (index.py).
THEOREM IndexFollowsTheFile == Spec => []IndexedAsStored
<1>1. UploadsInv /\ IndexInv => IndexedAsStored
  BY DEF IndexInv, Indexed, IndexedAsStored
<1> QED
  BY InitialUploads, NextUploads, <1>1, PTL DEF Spec

\* Pages of any length, cut to chunks of any size with any overlap below it:
\* a passage no longer than the overlap is found (ingest.py, chunk_pages).
THEOREM PassagesAreFound == Spec => []PassagesFound
<1>1. UploadsInv => PassagesFound
  BY EveryUploadFindable DEF UploadsInv, DocumentsOK, PassagesFound
<1> QED
  BY InitialUploads, NextUploads, <1>1, PTL DEF Spec

\* TypeOK of Chat, its documents included.
THEOREM ChatTyping == Spec => []TypeOK
<1> DEFINE Rest == /\ linked \in BOOLEAN /\ preDue \in BOOLEAN
                   /\ paused \in BOOLEAN /\ comments \in BOOLEAN
                   /\ stage \in [Cases -> {"waiting", "open", "over"}]
<1>1. Init => Rest
  BY DEF Init
<1>2. ASSUME Rest, [Next]_vars PROVE Rest'
  <2>1. CASE UNCHANGED <<world, tooled>>
    BY <1>2, <2>1 DEF world, tooled
  <2>2. CASE Outside
    BY <1>2, <2>2 DEF Outside, Link, ErpMoves, CaseMoves, tooled
  <2>3. ASSUME NEW t \in Turns, Write(t) PROVE Rest'
    BY <1>2, <2>3 DEF Write, world
  <2> QED
    BY <1>2, <2>1, <2>2, <2>3
       DEF Next, Person, Receive, CardLink, FollowLink, DeadLink, SubmitPause,
           SubmitComment, Advance, FindProject, PickCase, TakeReply, Intent,
           AskModel, Call, LastAnswer, Fail, Restart, vars
<1>3. Rest /\ TurnsInv /\ UploadsInv => TypeOK
  BY DEF TurnsInv, UploadsInv, TypeOK
<1> HIDE DEF Rest
<1> QED
  BY <1>1, <1>2, <1>3, InitialTurns, NextTurns, InitialUploads, NextUploads,
     PTL DEF Spec
=============================================================================
