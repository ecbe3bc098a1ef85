------------------------------ MODULE DispatcherTask ------------------------------
(***************************************************************************)
(* components/Common/include/DispatcherTask.hpp: the task that calls the   *)
(* registered tasks, and main, which registers them while it is running.   *)
(*                                                                         *)
(* The dispatcher has been created before main begins and has the higher   *)
(* priority on the one core: main runs only while the dispatcher is        *)
(* blocked, between two passes or inside a task that waits, and is         *)
(* interrupted anywhere when the dispatcher goes on.  RegisterTask appends *)
(* to a std::vector; when its buffer is full, the entries move to another  *)
(* of twice the capacity, and an iterator into the old one is worthless.   *)
(***************************************************************************)
EXTENDS Naturals, Sequences, SequencesExt

CONSTANTS
  Tasks,               \* the entries main registers, in that order
  Waiting,             \* the tasks whose Update() blocks
  SLOW_TASK_COUNTER    \* 10

TaskEntry(task, freq) == [task |-> task, freq |-> freq]

VARIABLES
  m_entries,   \* buffer (counted), size and capacity of the vector
  growing,     \* main has freed the full buffer, but m_entries is still the old
  pass,        \* the dispatcher: what it does, and the range it goes through
  tickCount,
  called,      \* history: the tasks called in this pass
  complete     \* history: all tasks were registered before this pass began

vars == <<m_entries, growing, pass, tickCount, called, complete>>

NoEntries == [buffer |-> 0, size |-> 0, capacity |-> 0]
NoPass == [at |-> "delay", buffer |-> 0, next |-> 1, end |-> 0]

Init ==
  /\ m_entries = NoEntries
  /\ growing = FALSE
  /\ pass = NoPass
  /\ tickCount = 0
  /\ called = <<>>
  /\ complete = FALSE

-------------------------------------------------------------------------------
(* main. *)

Blocked == pass.at \in {"delay", "waiting"}

Registered == m_entries.size = Len(Tasks)

RegisterTask ==
  /\ Blocked /\ ~growing /\ ~Registered
  /\ IF m_entries.size < m_entries.capacity
       THEN /\ m_entries' = [m_entries EXCEPT !.size = @ + 1]
            /\ UNCHANGED growing
       ELSE /\ growing' = TRUE
            /\ UNCHANGED m_entries
  /\ UNCHANGED <<pass, tickCount, called, complete>>

FinishGrowing ==
  /\ Blocked /\ growing
  /\ m_entries' = [buffer |-> m_entries.buffer + 1,
                   size |-> m_entries.size + 1,
                   capacity |-> IF m_entries.capacity = 0 THEN 1
                                ELSE 2 * m_entries.capacity]
  /\ growing' = FALSE
  /\ UNCHANGED <<pass, tickCount, called, complete>>

-------------------------------------------------------------------------------
(* The dispatcher. *)

(* Faulty variant: the range is taken when the dispatcher starts. *)
BeginPassWithFirstRange ==
  /\ pass.at = "delay"
  /\ tickCount' = IF tickCount >= SLOW_TASK_COUNTER THEN 0 ELSE tickCount
  /\ pass' = [at |-> "loop", buffer |-> pass.buffer, next |-> 1, end |-> pass.end]
  /\ called' = <<>>
  /\ complete' = Registered
  /\ UNCHANGED <<m_entries, growing>>

(* Faulty variant: the counter is set back to the pass after the slow one. *)
BeginPassWrapToOne ==
  /\ pass.at = "delay"
  /\ tickCount' = IF tickCount >= SLOW_TASK_COUNTER THEN 1 ELSE tickCount
  /\ pass' = [at |-> "loop", buffer |-> m_entries.buffer, next |-> 1,
              end |-> m_entries.size]
  /\ called' = <<>>
  /\ complete' = Registered
  /\ UNCHANGED <<m_entries, growing>>

BeginPass ==
  /\ pass.at = "delay"
  /\ tickCount' = IF tickCount >= SLOW_TASK_COUNTER THEN 0 ELSE tickCount
  /\ pass' = [at |-> "loop", buffer |-> m_entries.buffer, next |-> 1,
              end |-> m_entries.size]
  /\ called' = <<>>
  /\ complete' = Registered
  /\ UNCHANGED <<m_entries, growing>>

slowTaskTrigger == tickCount = 0

(* The next entry is read from a buffer that has been freed. *)
ReadsFreed ==
  /\ pass.at = "loop" /\ pass.next <= pass.end
  /\ pass.buffer # m_entries.buffer \/ growing

(* An entry is read.  What is read from a freed buffer may still be the     *)
(* entry; where the allocator or a new owner has written, it is none of     *)
(* either frequency, or leads to a call of no function (Panic).             *)
Read(entry) ==
  /\ pass.at = "loop" /\ pass.next <= pass.end
  /\ entry = Tasks[pass.next]

Due(entry) == entry.freq = "100MS" \/ slowTaskTrigger

(* The call of `task': of a task that waits, its beginning. *)
Call(task) ==
  /\ \E entry \in ToSet(Tasks) : entry.task = task /\ Read(entry) /\ Due(entry)
  /\ called' = Append(called, task)
  /\ pass' = IF task \in Waiting THEN [pass EXCEPT !.at = "waiting"]
             ELSE [pass EXCEPT !.next = @ + 1]
  /\ UNCHANGED <<m_entries, growing, tickCount, complete>>

Return ==
  /\ pass.at = "waiting"
  /\ pass' = [pass EXCEPT !.at = "loop", !.next = @ + 1]
  /\ UNCHANGED <<m_entries, growing, tickCount, called, complete>>

Skip ==
  /\ \/ \E entry \in ToSet(Tasks) : Read(entry) /\ ~Due(entry)
     \/ ReadsFreed
  /\ pass' = [pass EXCEPT !.next = @ + 1]
  /\ UNCHANGED <<m_entries, growing, tickCount, called, complete>>

EndPass ==
  /\ pass.at = "loop" /\ pass.next > pass.end
  /\ pass' = [pass EXCEPT !.at = "delay"]
  /\ tickCount' = tickCount + 1
  /\ UNCHANGED <<m_entries, growing, called, complete>>

(* The exception restarts the chip: everything begins anew. *)
Panic ==
  /\ ReadsFreed
  /\ m_entries' = NoEntries /\ growing' = FALSE
  /\ pass' = NoPass /\ tickCount' = 0
  /\ called' = <<>> /\ complete' = FALSE

Main == RegisterTask \/ FinishGrowing

-------------------------------------------------------------------------------
(* Properties. *)

TypeOK ==
  /\ m_entries.size \in 0 .. m_entries.capacity
  /\ m_entries.size <= Len(Tasks)
  /\ growing \in BOOLEAN
  /\ pass.at \in {"delay", "loop", "waiting"}
  /\ pass.next \in 1 .. pass.end + 1
  /\ tickCount \in 0 .. SLOW_TASK_COUNTER

(* The entries this pass has dealt with: it has called those that were due. *)
Passed == IF pass.at = "waiting" THEN pass.next ELSE pass.next - 1

DueUpTo(n) == {m \in DOMAIN Tasks : m <= n /\ Due(Tasks[m])}

(* A pass that began after the registration calls every task that is due,   *)
(* in the order of registration, and none twice: whatever main appended in  *)
(* earlier passes, and wherever the entries were moved meanwhile, did no    *)
(* lasting harm.                                                            *)
PassIsComplete ==
  complete /\ pass.at # "delay" =>
    /\ ~ReadsFreed
    /\ pass.end = Len(Tasks)
    /\ Len(called) = Cardinality(DueUpTo(Passed))
    /\ \A m \in DueUpTo(Passed) : called[Cardinality(DueUpTo(m))] = Tasks[m].task
===============================================================================
