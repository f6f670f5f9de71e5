------------------------- MODULE FileStorageProofs -------------------------
(***************************************************************************)
(* Proofs about FileStorage: for any goroutines, values of any lengths,    *)
(* any TTLs, with and without failures.                                    *)
(***************************************************************************)
EXTENDS FileStorage, TLAPS

-----------------------------------------------------------------------------
(* The inductive invariant.                                                *)

\* These are the first n blocks of v.
Holds(blocks, v, n) ==
    Len(blocks) = n /\ n <= Length[v] /\ \A j \in 1..n : blocks[j] = <<v, j>>

\* An Add that nothing has disturbed is alone, and has written what is in the file; when
\* none is under way, the file holds the value of the last one.
Undisturbed ==
    ~torn =>
        /\ \A w \in Writing : value[w] = last /\ Holds(content, last, Len(buffer[w]))
        /\ \A v, w \in Writing : v = w
        /\ Writing = {} /\ exists => last # None /\ Holds(content, last, Length[last])

\* A Get that no Add crosses has the file to itself, and what it has read is what the
\* file begins with.
Uncrossed ==
    \A c \in Reading :
        /\ pc[c] = "read" => exists
        /\ ~crossed[c] =>
             /\ Writing = {}
             /\ Len(buffer[c]) <= Len(content)
             /\ \A i \in 1..Len(buffer[c]) : buffer[c][i] = content[i]

\* A call that is about to write or to read has done neither.
Fresh == \A c \in Client : pc[c] \in {"open", "stat"} => buffer[c] = <<>>

IInv == TypeOK /\ Undisturbed /\ Uncrossed /\ Fresh

-----------------------------------------------------------------------------
(* Types.                                                                  *)

LEMMA Answers ==
  /\ NoHit("none") \in Answer /\ NoHit("miss") \in Answer /\ NoHit("failed") \in Answer
  /\ \A blocks \in Seq(Block) : Hit(blocks) \in Answer
<1>1. <<>> \in Seq(Block)
  OBVIOUS
<1> QED
  BY <1>1 DEF NoHit, Hit, Answer

LEMMA TypeInit == Init => TypeOK
<1> SUFFICES ASSUME Init PROVE TypeOK
  OBVIOUS
<1>1. <<>> \in Seq(Block)
  OBVIOUS
<1>2. /\ now \in 0..MaxTime /\ mtime \in 0..now /\ ttl \in TTL
  BY ConstantsAssumption DEF Init
<1>3. /\ buffer \in [Client -> Seq(Block)] /\ content \in Seq(Block)
      /\ answer \in [Client -> Answer]
  BY <1>1, Answers DEF Init
<1>4. /\ pc \in [Client -> {"idle", "open", "write", "stat", "read"}]
      /\ value \in [Client -> Value \cup {None}] /\ last \in Value \cup {None}
      /\ crossed \in [Client -> BOOLEAN]
      /\ \A c \in Client : pc[c] = "idle"
  BY DEF Init
<1>5. exists \in BOOLEAN /\ torn \in BOOLEAN /\ ~exists
  BY DEF Init
<1> QED
  BY <1>2, <1>3, <1>4, <1>5 DEF TypeOK

LEMMA TypeStep == TypeOK /\ [Next]_vars => TypeOK'
<1> SUFFICES ASSUME TypeOK, [Next]_vars PROVE TypeOK'
  OBVIOUS
<1> USE NoneAssumption, ConstantsAssumption, Answers DEF TypeOK
<1>1. CASE Tick
  BY <1>1 DEF Tick, file
<1>2. CASE Crash
  BY <1>2 DEF Crash, file
<1>3. ASSUME NEW c \in Client, BeginAdd(c) PROVE TypeOK'
  BY <1>3 DEF BeginAdd, Goto, file
<1>4. ASSUME NEW c \in Client, Open(c) PROVE TypeOK'
  BY <1>4 DEF Open, Goto
<1>5. ASSUME NEW c \in Client, Write(c) PROVE TypeOK'
  BY <1>5 DEF Write, Block
<1>6. ASSUME NEW c \in Client, Close(c) PROVE TypeOK'
  BY <1>6 DEF Close, EndAdd, Goto, file
<1>7. ASSUME NEW c \in Client, WriteFails(c) PROVE TypeOK'
  BY <1>7 DEF WriteFails, EndAdd, Goto, file
<1>8. ASSUME NEW c \in Client, BeginGet(c) PROVE TypeOK'
  BY <1>8 DEF BeginGet, Goto, file
<1>9. ASSUME NEW c \in Client, Stat(c) PROVE TypeOK'
  <2>1. CASE ~exists \/ Expired
    <3>1. Finish(c, NoHit("miss"))
      BY <1>9, <2>1 DEF Stat
    <3> QED
      BY <1>9, <3>1 DEF Stat, Finish, Goto, file
  <2>2. CASE exists /\ ~Expired
    BY <1>9, <2>2 DEF Stat, Goto, file
  <2> QED
    BY <2>1, <2>2 DEF TypeOK
<1>10. ASSUME NEW c \in Client, StatFails(c) PROVE TypeOK'
  BY <1>10 DEF StatFails, Goto, file
<1>11. ASSUME NEW c \in Client, Read(c) PROVE TypeOK'
  <2> DEFINE i == Len(buffer[c]) + 1
  <2>1. CASE i <= Len(content) /\ buffer' = [buffer EXCEPT ![c] = Append(@, content[i])]
             /\ UNCHANGED <<pc, answer>>
    BY <1>11, <2>1 DEF Read, file
  <2>2. CASE Finish(c, Hit(buffer[c]))
    <3>1. Hit(buffer[c]) \in Answer
      OBVIOUS
    <3> QED
      BY <1>11, <2>2, <3>1 DEF Read, Finish, Goto, file
  <2> QED
    BY <1>11, <2>1, <2>2 DEF Read
<1>12. ASSUME NEW c \in Client, ReadFails(c) PROVE TypeOK'
  BY <1>12 DEF ReadFails, Finish, Goto, file
<1>13. CASE UNCHANGED vars
  BY <1>13 DEF vars, file
<1> QED
  BY <1>1, <1>2, <1>3, <1>4, <1>5, <1>6, <1>7, <1>8, <1>9, <1>10, <1>11, <1>12, <1>13 DEF Next

-----------------------------------------------------------------------------
(* The file between two Adds.                                              *)

\* A step that leaves alone the file and those who write it.
LEMMA Undisturbing ==
  ASSUME Undisturbed, UNCHANGED <<exists, content, last>>, torn => torn', Writing' = Writing,
         \A w \in Writing : value'[w] = value[w] /\ buffer'[w] = buffer[w]
  PROVE  Undisturbed'
BY DEF Undisturbed, Holds

\* A step that leaves alone the file and those who read it, and brings no one to write it.
LEMMA Uncrossing ==
  ASSUME Uncrossed, UNCHANGED <<exists, content>>, Writing' \subseteq Writing,
         Reading' \subseteq Reading,
         \A r \in Reading' : /\ pc'[r] = pc[r] /\ buffer'[r] = buffer[r]
                             /\ crossed'[r] = crossed[r]
  PROVE  Uncrossed'
BY DEF Uncrossed

LEMMA AddStarts ==
  ASSUME NEW c \in Client, IInv, BeginAdd(c) \/ (WriteFails(c) /\ pc[c] = "open")
  PROVE  Undisturbed' /\ Uncrossed'
<1>1. /\ UNCHANGED <<exists, content, last, crossed>> /\ torn' = torn
      /\ pc[c] \in {"idle", "open"}
      /\ \E label \in {"idle", "open"} : pc' = [pc EXCEPT ![c] = label]
      /\ \A d \in Client : d # c => value'[d] = value[d] /\ buffer'[d] = buffer[d]
  BY DEF IInv, TypeOK, BeginAdd, WriteFails, EndAdd, Goto, file
<1>2. /\ Writing' = Writing /\ c \notin Writing
      /\ Reading' = Reading /\ c \notin Reading
  BY <1>1 DEF IInv, TypeOK, Writing, Reading
<1>3. Undisturbed'
  BY <1>1, <1>2, Undisturbing DEF IInv, Writing
<1>4. Uncrossed'
  BY <1>1, <1>2, Uncrossing DEF IInv, TypeOK, Reading
<1> QED
  BY <1>3, <1>4

LEMMA OpenStep ==
  ASSUME NEW c \in Client, IInv, Open(c)
  PROVE  Undisturbed' /\ Uncrossed'
<1>1. /\ pc[c] = "open" /\ pc' = [pc EXCEPT ![c] = "write"] /\ buffer' = buffer
      /\ value' = value /\ last' = value[c] /\ content' = <<>> /\ torn' = (Writing # {})
      /\ crossed' = [r \in Client |-> crossed[r] \/ r \in Reading] /\ exists'
  BY DEF Open, Goto
<1>2. Writing' = Writing \cup {c} /\ Reading' = Reading /\ c \notin Reading
  BY <1>1 DEF IInv, TypeOK, Writing, Reading
<1>3. Undisturbed'
  <2>1. value[c] \in Value /\ buffer[c] = <<>>
    BY <1>1 DEF IInv, TypeOK, Fresh
  <2>2. Holds(<<>>, value[c], 0)
    BY <2>1, LengthAssumption DEF Holds
  <2>3. Len(buffer[c]) = 0
    BY <2>1
  <2> QED
    BY <1>1, <1>2, <2>1, <2>2, <2>3 DEF Undisturbed
<1>4. Uncrossed'
  BY <1>1, <1>2 DEF IInv, TypeOK, Uncrossed, Reading
<1> QED
  BY <1>3, <1>4

\* The writer of an undisturbed Add writes the next block of its value.
LEMMA WriteStep ==
  ASSUME NEW c \in Client, IInv, Write(c)
  PROVE  Undisturbed' /\ Uncrossed'
<1> DEFINE i == Len(buffer[c]) + 1
           block == <<value[c], i>>
           size == IF Len(content) > i THEN Len(content) ELSE i
<1>1. /\ pc[c] = "write" /\ i <= Length[value[c]] /\ pc' = pc /\ value' = value
      /\ last' = last /\ torn' = torn /\ crossed' = crossed /\ exists' = exists
      /\ buffer' = [buffer EXCEPT ![c] = Append(@, block)]
      /\ content' = [j \in 1..size |->
                       IF j = i THEN block ELSE IF j <= Len(content) THEN content[j] ELSE None]
  BY DEF Write
<1>2. Writing' = Writing /\ Reading' = Reading /\ c \in Writing /\ c \notin Reading
  BY <1>1 DEF IInv, TypeOK, Writing, Reading
<1>3. Undisturbed'
  <2> SUFFICES ASSUME ~torn PROVE Undisturbed'
    BY <1>1 DEF Undisturbed
  <2>1. value[c] = last /\ Holds(content, last, Len(buffer[c])) /\ \A w \in Writing : w = c
    BY <1>2 DEF IInv, Undisturbed
  <2>2. Len(buffer[c]) \in Nat /\ buffer[c] \in Seq(Block) /\ size = i
    BY <2>1 DEF IInv, TypeOK, Holds
  <2>3. Len(buffer'[c]) = i
    BY <1>1, <2>2 DEF IInv, TypeOK, Block
  <2>4. content' = [j \in 1..i |-> IF j = i THEN block
                                  ELSE IF j <= Len(content) THEN content[j] ELSE None]
    BY <1>1, <2>2
  <2>5. Len(content') = i
    BY <2>2, <2>4
  <2>6. \A j \in 1..i : content'[j] = <<last, j>>
    BY <2>1, <2>2, <2>4 DEF Holds
  <2>7. Holds(content', last, i)
    BY <1>1, <2>1, <2>5, <2>6 DEF Holds
  <2> QED
    BY <1>1, <1>2, <2>1, <2>3, <2>7 DEF Undisturbed
<1>4. Uncrossed'
  BY <1>1, <1>2 DEF IInv, TypeOK, Uncrossed, Reading
<1> QED
  BY <1>3, <1>4

\* The writer of an undisturbed Add leaves its value behind.
LEMMA CloseStep ==
  ASSUME NEW c \in Client, IInv, Close(c)
  PROVE  Undisturbed' /\ Uncrossed'
<1>1. /\ pc[c] = "write" /\ Len(buffer[c]) = Length[value[c]] /\ pc' = [pc EXCEPT ![c] = "idle"]
      /\ buffer' = [buffer EXCEPT ![c] = <<>>] /\ value' = [value EXCEPT ![c] = None]
      /\ UNCHANGED <<exists, content, last, torn, crossed>>
  BY DEF Close, EndAdd, Goto, file
<1>2. Writing' = Writing \ {c} /\ Reading' = Reading /\ c \in Writing /\ c \notin Reading
  BY <1>1 DEF IInv, TypeOK, Writing, Reading
<1>3. Undisturbed'
  <2> SUFFICES ASSUME ~torn PROVE Undisturbed'
    BY <1>1 DEF Undisturbed
  <2>1. value[c] = last /\ Holds(content, last, Length[last]) /\ \A w \in Writing : w = c
    BY <1>1, <1>2 DEF IInv, Undisturbed
  <2>2. last # None
    BY <1>1, <2>1 DEF IInv, TypeOK
  <2> QED
    BY <1>1, <1>2, <2>1, <2>2 DEF Undisturbed, Holds
<1>4. Uncrossed'
  BY <1>1, <1>2, Uncrossing DEF IInv, TypeOK, Reading
<1> QED
  BY <1>3, <1>4

\* An Add breaks off in the middle of the file.
LEMMA BreakStep ==
  ASSUME NEW c \in Client, IInv, WriteFails(c), pc[c] = "write"
  PROVE  Undisturbed' /\ Uncrossed'
<1>1. /\ pc' = [pc EXCEPT ![c] = "idle"] /\ buffer' = [buffer EXCEPT ![c] = <<>>]
      /\ UNCHANGED <<exists, content, crossed>> /\ torn'
  BY DEF WriteFails, EndAdd, Goto, file
<1>2. Writing' = Writing \ {c} /\ Reading' = Reading /\ c \notin Reading
  BY <1>1 DEF IInv, TypeOK, Writing, Reading
<1>3. Uncrossed'
  BY <1>1, <1>2, Uncrossing DEF IInv, TypeOK, Reading
<1> QED
  BY <1>1, <1>3 DEF Undisturbed

\* A Get begins, goes on to read, reads a block or ends.
LEMMA GetSteps ==
  ASSUME NEW c \in Client, IInv,
         BeginGet(c) \/ Stat(c) \/ StatFails(c) \/ Read(c) \/ ReadFails(c)
  PROVE  Undisturbed' /\ Uncrossed'
<1>1. /\ UNCHANGED <<exists, content, last, torn, value>>
      /\ c \notin Writing /\ Writing' = Writing
      /\ \A d \in Client : d # c => /\ pc'[d] = pc[d] /\ buffer'[d] = buffer[d]
                                   /\ crossed'[d] = crossed[d]
  BY DEF IInv, TypeOK, BeginGet, Stat, StatFails, Read, ReadFails, Finish, Goto, file, Writing
<1>2. Undisturbed'
  BY <1>1, Undisturbing DEF IInv, Writing
<1>3. c \in Reading' =>
        /\ pc'[c] = "read" => exists
        /\ ~crossed'[c] =>
             /\ Writing = {}
             /\ Len(buffer'[c]) <= Len(content)
             /\ \A i \in 1..Len(buffer'[c]) : buffer'[c][i] = content[i]
  <2>1. CASE BeginGet(c)
    <3>1. buffer'[c] = <<>> /\ pc'[c] = "stat" /\ (~crossed'[c] => Writing = {})
      BY <2>1 DEF IInv, TypeOK, BeginGet, Goto
    <3>2. Len(<<>>) = 0 /\ Len(content) \in Nat
      BY DEF IInv, TypeOK
    <3> QED
      BY <3>1, <3>2
  <2>2. CASE Stat(c) \/ StatFails(c)
    <3>1. \/ pc'[c] = "idle"
          \/ /\ pc[c] = "stat" /\ exists /\ buffer'[c] = buffer[c] /\ crossed'[c] = crossed[c]
      BY <2>2 DEF IInv, TypeOK, Stat, StatFails, Finish, Goto
    <3> QED
      BY <3>1 DEF Reading, IInv, Uncrossed
  <2>3. CASE Read(c)
    <3> DEFINE i == Len(buffer[c]) + 1
    <3>1. c \in Reading /\ crossed'[c] = crossed[c] /\ exists
      BY <2>3 DEF IInv, TypeOK, Uncrossed, Read, Reading
    <3>2. \/ pc'[c] = "idle"
          \/ i <= Len(content) /\ buffer'[c] = Append(buffer[c], content[i])
      BY <2>3 DEF IInv, TypeOK, Read, Finish, Goto
    <3>3. buffer[c] \in Seq(Block) /\ content \in Seq(Block)
      BY DEF IInv, TypeOK
    <3>4. CASE pc'[c] = "idle"
      BY <3>4 DEF Reading
    <3>5. CASE i <= Len(content) /\ buffer'[c] = Append(buffer[c], content[i])
      <4>1. /\ Len(buffer'[c]) = i /\ buffer'[c][i] = content[i]
            /\ \A j \in 1..Len(buffer[c]) : buffer'[c][j] = buffer[c][j]
        BY <3>3, <3>5
      <4> QED
        BY <3>1, <3>3, <3>5, <4>1 DEF IInv, Uncrossed
    <3> QED
      BY <3>2, <3>4, <3>5
  <2>4. CASE ReadFails(c)
    BY <2>4 DEF IInv, TypeOK, ReadFails, Finish, Goto, Reading
  <2> QED
    BY <2>1, <2>2, <2>3, <2>4
<1>4. Uncrossed'
  BY <1>1, <1>3 DEF IInv, TypeOK, Uncrossed, Reading
<1> QED
  BY <1>2, <1>4

LEMMA CrashStep == ASSUME IInv, Crash PROVE Undisturbed' /\ Uncrossed'
<1>1. /\ UNCHANGED <<exists, content, last>> /\ torn' = (torn \/ Writing # {})
      /\ Writing' = {} /\ Reading' = {}
  BY DEF IInv, TypeOK, Crash, file, Writing, Reading
<1> QED
  BY <1>1 DEF IInv, Undisturbed, Uncrossed, Holds

LEMMA FreshStep == IInv /\ [Next]_vars => Fresh'
BY DEF IInv, TypeOK, Fresh, Next, vars, file, Goto, Finish, EndAdd, Tick, Crash, BeginAdd, Open,
       Write, Close, WriteFails, BeginGet, Stat, StatFails, Read, ReadFails

\* The invariant holds in every reachable state.
THEOREM Inductive == Spec => []IInv
<1>1. Init => IInv
  BY TypeInit DEF Init, IInv, Undisturbed, Uncrossed, Fresh, Writing, Reading
<1>2. IInv /\ [Next]_vars => IInv'
  <2> SUFFICES ASSUME IInv, [Next]_vars PROVE Undisturbed' /\ Uncrossed'
    BY TypeStep, FreshStep DEF IInv
  <2>1. CASE Tick \/ UNCHANGED vars
    <3>1. UNCHANGED <<exists, content, pc, value, buffer, last, torn, crossed>>
      BY <2>1 DEF Tick, vars, file
    <3>2. Writing' = Writing /\ Reading' = Reading
      BY <3>1 DEF Writing, Reading
    <3>3. Undisturbed'
      BY <3>1, <3>2, Undisturbing DEF IInv
    <3>4. Uncrossed'
      BY <3>1, <3>2, Uncrossing DEF IInv
    <3> QED
      BY <3>3, <3>4
  <2>2. CASE Crash
    BY <2>2, CrashStep
  <2>3. ASSUME NEW c \in Client, WriteFails(c) PROVE Undisturbed' /\ Uncrossed'
    BY <2>3, AddStarts, BreakStep DEF WriteFails
  <2>4. ASSUME NEW c \in Client, BeginAdd(c) \/ Open(c) \/ Write(c) \/ Close(c)
        PROVE  Undisturbed' /\ Uncrossed'
    <3>1. CASE BeginAdd(c)
      BY <3>1, AddStarts
    <3>2. CASE Open(c)
      BY <3>2, OpenStep
    <3>3. CASE Write(c)
      BY <3>3, WriteStep
    <3>4. CASE Close(c)
      BY <3>4, CloseStep
    <3> QED
      BY <2>4, <3>1, <3>2, <3>3, <3>4
  <2>5. ASSUME NEW c \in Client,
               BeginGet(c) \/ Stat(c) \/ StatFails(c) \/ Read(c) \/ ReadFails(c)
        PROVE  Undisturbed' /\ Uncrossed'
    BY <2>5, GetSteps
  <2> QED
    BY <2>1, <2>2, <2>3, <2>4, <2>5 DEF Next
<1> QED
  BY <1>1, <1>2, PTL DEF Spec

-----------------------------------------------------------------------------
(* The theorems.                                                           *)

\* The state has its types through every failure and crash of an Add (FileStorage, file.go).
THEOREM TypeCorrect == Spec => []TypeOK
BY Inductive, PTL DEF IInv

\* The blocks of a value, all of them, are the value.
LEMMA HeldWhole ==
  ASSUME NEW blocks \in Seq(Block), NEW v \in Value, Holds(blocks, v, Length[v])
  PROVE  blocks = Whole(v)
<1>1. Length[v] \in Nat
  BY LengthAssumption
<1>2. blocks = [i \in 1..Len(blocks) |-> blocks[i]]
  OBVIOUS
<1>3. [i \in 1..Len(blocks) |-> blocks[i]] = [i \in 1..Length[v] |-> <<v, i>>]
  BY DEF Holds
<1> QED
  BY <1>2, <1>3 DEF Whole

\* A Get that ends answers what is in the file.
LEMMA GetEnds ==
  ASSUME IInv, [Next]_vars, NEW c \in Reading, pc'[c] = "idle", ~torn, ~crossed[c],
         answer'[c].status # "none"
  PROVE  CASE answer'[c].status = "hit"  -> answer'[c].blocks = Whole(last)
           [] answer'[c].status = "miss" -> ~exists \/ Expired
           [] OTHER                      -> Faults
<1>1. pc[c] \in {"stat", "read"} /\ c \in Client
  BY DEF Reading
<1>2. Stat(c) \/ Read(c) \/ ReadFails(c)
  <2>1. ~Crash
    BY <1>1 DEF Crash, NoHit
  <2>2. ~(Tick \/ UNCHANGED vars)
    BY <1>1 DEF Tick, vars
  <2>3. ASSUME NEW d \in Client, d # c,
               \/ BeginAdd(d) \/ Open(d) \/ Write(d) \/ Close(d) \/ WriteFails(d)
               \/ BeginGet(d) \/ Stat(d) \/ StatFails(d) \/ Read(d) \/ ReadFails(d)
        PROVE  FALSE
    <3>1. pc'[c] = pc[c]
      BY <1>1, <2>3 DEF IInv, TypeOK, BeginAdd, Open, Write, Close, WriteFails, BeginGet, Stat,
         StatFails, Read, ReadFails, Finish, EndAdd, Goto
    <3> QED
      BY <1>1, <3>1
  <2>4. ~(BeginAdd(c) \/ Open(c) \/ Write(c) \/ Close(c) \/ WriteFails(c) \/ BeginGet(c)
          \/ StatFails(c))
    BY <1>1 DEF IInv, TypeOK, BeginAdd, Open, Write, Close, WriteFails, BeginGet, StatFails, Goto
  <2> QED
    BY <1>1, <2>1, <2>2, <2>3, <2>4 DEF Next
<1>3. CASE Stat(c)
  <2>1. (~exists \/ Expired) /\ answer'[c] = NoHit("miss")
    BY <1>1, <1>3 DEF IInv, TypeOK, Stat, Finish, Goto
  <2> QED
    BY <2>1 DEF NoHit
<1>4. CASE Read(c)
  <2>1. pc[c] = "read" /\ Len(buffer[c]) + 1 > Len(content) /\ answer'[c] = Hit(buffer[c])
    BY <1>1, <1>4 DEF IInv, TypeOK, Read, Finish, Goto
  <2>2. /\ Writing = {} /\ exists /\ Len(buffer[c]) <= Len(content)
        /\ \A i \in 1..Len(buffer[c]) : buffer[c][i] = content[i]
    BY <2>1 DEF IInv, Uncrossed
  <2>3. /\ buffer[c] \in Seq(Block) /\ content \in Seq(Block) /\ last \in Value
        /\ Holds(content, last, Length[last])
    BY <1>1, <2>2 DEF IInv, TypeOK, Undisturbed
  <2>4. Len(buffer[c]) = Len(content)
    BY <2>1, <2>2, <2>3
  <2>5. Holds(buffer[c], last, Length[last])
    BY <2>2, <2>3, <2>4 DEF Holds
  <2>6. answer'[c].status = "hit" /\ answer'[c].blocks = Whole(last)
    BY <2>1, <2>3, <2>5, HeldWhole DEF Hit
  <2> QED
    BY <2>6
<1>5. CASE ReadFails(c)
  <2>1. Faults /\ answer'[c] = NoHit("failed")
    BY <1>1, <1>5 DEF IInv, TypeOK, ReadFails, Finish
  <2> QED
    BY <2>1 DEF NoHit
<1> QED
  BY <1>2, <1>3, <1>4, <1>5

\* What an Add that runs alone leaves behind is answered whole to a Get that no Add crosses,
\* whatever the Adds before it left (FileStorage.Add and Get, file.go).
THEOREM LastAddIsAnswered == Spec => AnswersLastAdd
<1>1. IInv /\ [Next]_vars =>
        [\A c \in Reading :
           pc'[c] = "idle" /\ ~torn /\ ~crossed[c] /\ answer'[c].status # "none" =>
            CASE answer'[c].status = "hit"  -> answer'[c].blocks = Whole(last)
              [] answer'[c].status = "miss" -> ~exists \/ Expired
              [] OTHER                      -> Faults]_vars
  BY GetEnds
<1> QED
  BY <1>1, Inductive, PTL DEF Spec, AnswersLastAdd

=============================================================================
