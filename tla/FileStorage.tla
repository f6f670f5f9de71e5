---------------------------- MODULE FileStorage ----------------------------
(***************************************************************************)
(* The storage on disk (pkg/cache/file.go): one file per key, the age of   *)
(* an entry is the age of the file's mtime.  Add is os.WriteFile, which    *)
(* truncates the file and then writes it; Get is os.Stat and os.ReadFile,  *)
(* which reads until it finds no more.  Nothing locks the file: calls of   *)
(* several goroutines interleave between system calls, a write may fail    *)
(* half way (the disk is full), and the process may die between any two of *)
(* them, leaving the file as it is for the next process to find.           *)
(*                                                                         *)
(* Keys are separate files, so one is modelled.  A value is Length[v]      *)
(* blocks, a block the unit that is read and written at once.              *)
(*                                                                         *)
(* An operator named Action_Fault is that action with a plausible bug.     *)
(***************************************************************************)
EXTENDS Naturals, Sequences

CONSTANTS
    Client,     \* goroutines, one call in flight each
    Value,
    Length,     \* blocks of each value
    None,       \* no value; a block that was skipped over
    TTL,        \* the TTLs the key's namespace may have; 0 never expires
    Faults,     \* may writes and reads fail, and the process die?
    MaxTime     \* bound: the last instant of the clock

ASSUME LengthAssumption == Length \in [Value -> Nat]
ASSUME NoneAssumption == None \notin Value
ASSUME ConstantsAssumption == TTL \subseteq Nat /\ Faults \in BOOLEAN /\ MaxTime \in Nat

VARIABLES
    now,
    ttl,        \* the TTL of the key's namespace, set before the first call
    exists,     \* does the file exist?
    content,    \* its blocks: the value and the position each was written from
    mtime,
    pc,         \* where each goroutine is: idle, open or write (Add),
                \* stat, read (Get)
    value,      \* what it is adding
    buffer,     \* what it has written or read so far, by number of blocks or blocks
    answer,     \* how its last Get ended
    last,       \* history: the value of the Add that truncated the file last
    torn,       \* history: was that Add disturbed by another, a failure, a crash?
    crossed     \* history: did an Add run during the Get under way?

vars == <<now, ttl, exists, content, mtime, pc, value, buffer, answer, last, torn,
          crossed>>

file == <<exists, content, mtime>>

Block == (Value \X Nat) \cup {None}
Answer == [status : {"none", "hit", "miss", "failed"}, blocks : Seq(Block)]
Whole(v) == [i \in 1..Length[v] |-> <<v, i>>]

Hit(blocks) == [status |-> "hit", blocks |-> blocks]
NoHit(status) == [status |-> status, blocks |-> <<>>]

\* The state has its types, and a call that writes has an existing file and a value.
TypeOK ==
    /\ now \in 0..MaxTime
    /\ ttl \in TTL
    /\ exists \in BOOLEAN
    /\ content \in Seq(Block)
    /\ mtime \in 0..now
    /\ pc \in [Client -> {"idle", "open", "write", "stat", "read"}]
    /\ value \in [Client -> Value \cup {None}]
    /\ buffer \in [Client -> Seq(Block)]
    /\ answer \in [Client -> Answer]
    /\ last \in Value \cup {None}
    /\ torn \in BOOLEAN
    /\ crossed \in [Client -> BOOLEAN]
    /\ \A c \in Client : pc[c] = "write" => exists
    /\ \A c \in Client : pc[c] \in {"open", "write"} => value[c] # None

Init ==
    /\ now = 0
    /\ ttl \in TTL
    /\ exists = FALSE
    /\ content = <<>>
    /\ mtime = 0
    /\ pc = [c \in Client |-> "idle"]
    /\ value = [c \in Client |-> None]
    /\ buffer = [c \in Client |-> <<>>]
    /\ answer = [c \in Client |-> NoHit("none")]
    /\ last = None
    /\ torn = FALSE
    /\ crossed = [c \in Client |-> FALSE]

Writing == {c \in Client : pc[c] = "write"}
Reading == {c \in Client : pc[c] \in {"stat", "read"}}

Goto(c, label) == pc' = [pc EXCEPT ![c] = label]

Tick ==
    /\ now < MaxTime
    /\ now' = now + 1
    /\ UNCHANGED <<ttl, file, pc, value, buffer, answer, last, torn, crossed>>

-----------------------------------------------------------------------------
(* Add.                                                                    *)

BeginAdd(c) ==
    /\ pc[c] = "idle"
    /\ \E v \in Value : value' = [value EXCEPT ![c] = v]
    /\ buffer' = [buffer EXCEPT ![c] = <<>>]
    /\ answer' = [answer EXCEPT ![c] = NoHit("none")]
    /\ Goto(c, "open")
    /\ UNCHANGED <<now, ttl, file, last, torn, crossed>>

EndAdd(c) ==
    /\ Goto(c, "idle")
    /\ value' = [value EXCEPT ![c] = None]
    /\ buffer' = [buffer EXCEPT ![c] = <<>>]

\* Fault: the file is opened without truncating it.
Open_KeepsTail(c) ==
    /\ pc[c] = "open"
    /\ exists' = TRUE
    /\ mtime' = now
    /\ last' = value[c]
    /\ torn' = (Writing # {})
    /\ crossed' = [r \in Client |-> crossed[r] \/ r \in Reading]
    /\ Goto(c, "write")
    /\ UNCHANGED <<now, ttl, content, value, buffer, answer>>

\* os.WriteFile opens and truncates, with the directory already made.
Open(c) ==
    /\ pc[c] = "open"
    /\ exists' = TRUE
    /\ content' = <<>>
    /\ mtime' = now
    /\ last' = value[c]
    /\ torn' = (Writing # {})
    /\ crossed' = [r \in Client |-> crossed[r] \/ r \in Reading]
    /\ Goto(c, "write")
    /\ UNCHANGED <<now, ttl, value, buffer, answer>>

\* The next block goes to the goroutine's own position in the file; what another
\* one truncated away before it is left as a hole.
Write(c) ==
    LET i == Len(buffer[c]) + 1
        block == <<value[c], i>>
        size == IF Len(content) > i THEN Len(content) ELSE i
    IN  /\ pc[c] = "write"
        /\ i <= Length[value[c]]
        /\ content' = [j \in 1..size |->
                         IF j = i THEN block
                         ELSE IF j <= Len(content) THEN content[j] ELSE None]
        /\ mtime' = now
        /\ buffer' = [buffer EXCEPT ![c] = Append(@, block)]
        /\ UNCHANGED <<now, ttl, exists, pc, value, answer, last, torn, crossed>>

Close(c) ==
    /\ pc[c] = "write"
    /\ Len(buffer[c]) = Length[value[c]]
    /\ EndAdd(c)
    /\ UNCHANGED <<now, ttl, file, answer, last, torn, crossed>>

\* Fault: the file is removed, whoever else is writing it.
WriteFails_Removes(c) ==
    /\ Faults
    /\ pc[c] \in {"open", "write"}
    /\ EndAdd(c)
    /\ exists' = FALSE
    /\ content' = <<>>
    /\ torn' = (torn \/ pc[c] = "write")
    /\ UNCHANGED <<now, ttl, mtime, answer, last, crossed>>

\* The error is logged and the file left as it is.
WriteFails(c) ==
    /\ Faults
    /\ pc[c] \in {"open", "write"}
    /\ EndAdd(c)
    /\ torn' = (torn \/ pc[c] = "write")
    /\ UNCHANGED <<now, ttl, file, answer, last, crossed>>

-----------------------------------------------------------------------------
(* Get.                                                                    *)

BeginGet(c) ==
    /\ pc[c] = "idle"
    /\ Goto(c, "stat")
    /\ buffer' = [buffer EXCEPT ![c] = <<>>]
    /\ answer' = [answer EXCEPT ![c] = NoHit("none")]
    /\ crossed' = [crossed EXCEPT ![c] = Writing # {}]
    /\ UNCHANGED <<now, ttl, file, value, last, torn>>

Finish(c, result) ==
    /\ Goto(c, "idle")
    /\ answer' = [answer EXCEPT ![c] = result]
    /\ buffer' = [buffer EXCEPT ![c] = <<>>]

Expired == ttl > 0 /\ now - mtime > ttl

\* Without a TTL there is no Stat: the absent file is found absent by the open.
Stat(c) ==
    /\ pc[c] = "stat"
    /\ IF ~exists \/ Expired
       THEN Finish(c, NoHit("miss"))
       ELSE Goto(c, "read") /\ UNCHANGED <<answer, buffer>>
    /\ UNCHANGED <<now, ttl, file, value, last, torn, crossed>>

\* Any other error of os.Stat skips the check of the age.
StatFails(c) ==
    /\ Faults
    /\ pc[c] = "stat"
    /\ exists
    /\ ttl > 0
    /\ Goto(c, "read")
    /\ UNCHANGED <<now, ttl, file, value, buffer, answer, last, torn, crossed>>

\* One block, or the end of the file.
Read(c) ==
    LET i == Len(buffer[c]) + 1 IN
    /\ pc[c] = "read"
    /\ \/ /\ i <= Len(content)
          /\ buffer' = [buffer EXCEPT ![c] = Append(@, content[i])]
          /\ UNCHANGED <<pc, answer>>
       \/ /\ i > Len(content)
          /\ Finish(c, Hit(buffer[c]))
    /\ UNCHANGED <<now, ttl, file, value, last, torn, crossed>>

\* The error is logged and reported as a miss.
ReadFails(c) ==
    /\ Faults
    /\ pc[c] = "read"
    /\ Finish(c, NoHit("failed"))
    /\ UNCHANGED <<now, ttl, file, value, last, torn, crossed>>

-----------------------------------------------------------------------------
\* The process dies and another one starts on the same directory.
Crash ==
    /\ Faults
    /\ pc' = [c \in Client |-> "idle"]
    /\ value' = [c \in Client |-> None]
    /\ buffer' = [c \in Client |-> <<>>]
    /\ answer' = [c \in Client |-> NoHit("none")]
    /\ torn' = (torn \/ Writing # {})
    /\ crossed' = [c \in Client |-> FALSE]
    /\ UNCHANGED <<now, ttl, file, last>>

Next ==
    \/ Tick
    \/ Crash
    \/ \E c \in Client :
         \/ BeginAdd(c) \/ Open(c) \/ Write(c) \/ Close(c) \/ WriteFails(c)
         \/ BeginGet(c) \/ Stat(c) \/ StatFails(c) \/ Read(c) \/ ReadFails(c)

Spec == Init /\ [][Next]_vars

-----------------------------------------------------------------------------
(* Properties.                                                             *)

\* An Add that runs alone and to its end repairs whatever an earlier one left
\* behind, longer or torn: a Get that no Add crosses then returns that value whole,
\* and misses it only if it has expired.
AnswersLastAdd ==
    [][\A c \in Reading :
         pc'[c] = "idle" /\ ~torn /\ ~crossed[c] /\ answer'[c].status # "none" =>
            CASE answer'[c].status = "hit"  -> answer'[c].blocks = Whole(last)
              [] answer'[c].status = "miss" -> ~exists \/ Expired
              [] OTHER                      -> Faults
      ]_vars

\* What a Get returns is a value that was added (storage_test.go:37).
HitsAreWhole ==
    \A c \in Client :
        answer[c].status = "hit" => \E v \in Value : answer[c].blocks = Whole(v)

=============================================================================
