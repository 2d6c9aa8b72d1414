------------------------------ MODULE PeerBook ------------------------------
(***************************************************************************)
(* PeerBook: the ranked, persisted address book, and the threads of the    *)
(* reconnection service that write it.                                     *)
(*                                                                         *)
(* Each operation on the records is a critical section; save() takes a     *)
(* snapshot under the lock and writes the file after releasing it, first   *)
(* truncating it (fopen "wb"), then writing.  A caller always saves right  *)
(* after it changed the records.  Reading back a truncated file yields no  *)
(* records.  Times are unix seconds.                                       *)
(***************************************************************************)
EXTENDS Naturals, FiniteSets

CONSTANTS
    Addrs,       \* dialable addresses
    Threads,     \* application, reactor and loop threads
    MaxAge,      \* archive_max_age
    MaxSize,     \* archive_max
    MaxNow,      \* bound on the clock
    MaxCount,    \* bound on connect_count and fail_streak
    Crashes      \* may the process die and start again

ASSUME BookAssumption ==
    /\ {MaxAge, MaxSize, MaxNow, MaxCount} \subseteq Nat
    /\ MaxNow > 0
    /\ Crashes \in BOOLEAN

VARIABLES
    records,   \* records_
    file,      \* the backing file: its records, or Torn
    saving,    \* what each thread is about to write
    at,        \* where each thread is in change-then-save
    now,       \* wall clock
    sighted    \* history: when the address was last really seen or connected

bookVars == <<records, file, saving, at, now, sighted>>

Absent == [last_seen |-> 0, last_connected |-> 0, connect_count |-> 0,
           fail_streak |-> 0, known |-> FALSE]
Records == [last_seen : 0..MaxNow, last_connected : 0..MaxNow,
            connect_count : 0..MaxCount, fail_streak : 0..MaxCount, known : BOOLEAN]
Empty == [a \in Addrs |-> Absent]
Torn == [a \in {} |-> Absent]
KnownIn(b) == {a \in DOMAIN b : b[a].known}

BookTypeOK ==
    /\ records \in [Addrs -> Records]
    /\ file \in [Addrs -> Records] \cup {Torn}
    /\ saving \in [Threads -> [Addrs -> Records]]
    /\ at \in [Threads -> {"idle", "save", "open", "write"}]
    /\ now \in 1..MaxNow
    /\ sighted \in [Addrs -> 0..MaxNow]

-----------------------------------------------------------------------------
(* Ranking.                                                                *)

(* Mutant: failures weigh more than past connections.                      *)
betterFewestFailures(r, s) ==
    \/ r.fail_streak < s.fail_streak
    \/ r.fail_streak = s.fail_streak /\ r.last_connected > s.last_connected

(* The anonymous namespace's better(): ever connected, then most recently, *)
(* then most often, then fewest failures, then most recently seen.         *)
better(r, s) ==
    \/ r.last_connected > 0 /\ s.last_connected = 0
    \/ /\ (r.last_connected > 0) = (s.last_connected > 0)
       /\ \/ r.last_connected > s.last_connected
          \/ /\ r.last_connected = s.last_connected
             /\ \/ r.connect_count > s.connect_count
                \/ /\ r.connect_count = s.connect_count
                   /\ \/ r.fail_streak < s.fail_streak
                      \/ r.fail_streak = s.fail_streak /\ r.last_seen > s.last_seen

is_stale(r) == /\ MaxAge > 0
               /\ r.last_seen > 0
               /\ now > r.last_seen
               /\ now - r.last_seen > MaxAge

(* What best(n) and the cap of prune() may keep of a set of addresses: any *)
(* n that std::sort can put first.                                         *)
BestOf(b, cand, n) ==
    {keep \in SUBSET cand :
        /\ Cardinality(keep) = IF n < Cardinality(cand) THEN n ELSE Cardinality(cand)
        /\ \A a \in keep, d \in cand \ keep : ~better(b[d], b[a])}

(* prune(): drop the stale, then keep the MaxSize best.                    *)
Pruned(b) ==
    LET fresh == {a \in KnownIn(b) : ~is_stale(b[a])}
        kept == IF MaxSize > 0 THEN BestOf(b, fresh, MaxSize) ELSE {fresh}
    IN {[a \in Addrs |-> IF a \in k THEN b[a] ELSE Absent] : k \in kept}

-----------------------------------------------------------------------------
(* Changes: connect_count++ and fail_streak++, up to the bound.            *)
Capped(n) == IF n < MaxCount THEN n + 1 ELSE MaxCount

Connected(r) ==
    [last_seen |-> now, last_connected |-> now,
     connect_count |-> Capped(r.connect_count), fail_streak |-> 0, known |-> TRUE]
Seen(r) ==
    [last_seen |-> now, last_connected |-> r.last_connected,
     connect_count |-> r.connect_count, fail_streak |-> r.fail_streak, known |-> TRUE]

(* Mutant: a failed dial counts as a sighting.                             *)
FailedSeen(r) == IF r.known THEN [r EXCEPT !.fail_streak = Capped(@), !.last_seen = now]
                            ELSE r

Failed(r) ==
    [last_seen |-> r.last_seen, last_connected |-> r.last_connected,
     connect_count |-> r.connect_count,
     fail_streak |-> IF r.known THEN Capped(r.fail_streak) ELSE r.fail_streak,
     known |-> r.known]

Change(t, a) ==
    /\ at[t] = "idle"
    /\ \/ /\ records' = [records EXCEPT ![a] = Connected(@)]
          /\ sighted' = [sighted EXCEPT ![a] = now]
       \/ /\ records' = [records EXCEPT ![a] = Seen(@)]
          /\ sighted' = [sighted EXCEPT ![a] = now]
       \/ /\ records' = [records EXCEPT ![a] = Failed(@)]
          /\ sighted' = sighted
       \/ /\ records[a].known
          /\ records' = [records EXCEPT ![a] = Absent]
          /\ sighted' = sighted
    /\ at' = [at EXCEPT ![t] = "save"]
    /\ UNCHANGED <<file, saving, now>>

(* save(): snapshot, truncate, write.                                      *)
Snapshot(t) ==
    /\ at[t] = "save"
    /\ saving' = [saving EXCEPT ![t] = records]
    /\ at' = [at EXCEPT ![t] = "open"]
    /\ UNCHANGED <<records, file, now, sighted>>

Truncate(t) ==
    /\ at[t] = "open"
    /\ file' = Torn
    /\ at' = [at EXCEPT ![t] = "write"]
    /\ UNCHANGED <<records, saving, now, sighted>>

Write(t) ==
    /\ at[t] = "write"
    /\ file' = saving[t]
    /\ saving' = [saving EXCEPT ![t] = Empty]
    /\ at' = [at EXCEPT ![t] = "idle"]
    /\ UNCHANGED <<records, now, sighted>>

(* The process dies and the constructor runs: load, prune, save.  No other *)
(* thread exists yet.                                                      *)
Loaded == IF file = Torn THEN Empty ELSE file

Restart ==
    /\ Crashes
    /\ \E b \in Pruned(Loaded) : records' = b /\ file' = b
    /\ saving' = [t \in Threads |-> Empty]
    /\ at' = [t \in Threads |-> "idle"]
    /\ UNCHANGED <<now, sighted>>

ClockTicks ==
    /\ now < MaxNow
    /\ now' = now + 1
    /\ UNCHANGED <<records, file, saving, at, sighted>>

BookInit ==
    /\ records = Empty
    /\ file = Torn
    /\ saving = [t \in Threads |-> Empty]
    /\ at = [t \in Threads |-> "idle"]
    /\ now = 1
    /\ sighted = [a \in Addrs |-> 0]

BookNext ==
    \/ \E t \in Threads :
         \/ \E a \in Addrs : Change(t, a)
         \/ Snapshot(t) \/ Truncate(t) \/ Write(t)
    \/ Restart
    \/ ClockTicks

BookSpec == BookInit /\ [][BookNext]_bookVars

-----------------------------------------------------------------------------
(* Properties.                                                             *)

(* "a peer that only ever fails must still age out (otherwise repeated     *)
(* give-ups would keep it forever fresh)" (note_failure): the age a record *)
(* is pruned by is never younger than its last real sighting, whatever     *)
(* mixture of failures, restarts and reloads lies in between.              *)
AgeIsHonest ==
    \A a \in Addrs : records[a].known => records[a].last_seen <= sighted[a]

(* "cap to max_size keeping the best" (prune), "ever-connected before      *)
(* never-connected" (best): a restart keeps an address that never worked   *)
(* only if it keeps every fresh one that did.                              *)
RestartKeepsProven ==
    [][Restart =>
         \A a, d \in Addrs :
            (/\ records'[a].known /\ records'[a].last_connected = 0
             /\ Loaded[d].known /\ Loaded[d].last_connected > 0
             /\ ~is_stale(Loaded[d]))
                => records'[d].known]_bookVars

(* What std::sort requires of better(): a strict weak order on whatever    *)
(* records the book can hold.                                              *)
StrictWeakOrder(S) ==
    /\ \A r \in S : ~better(r, r)
    /\ \A r, s, t \in S : better(r, s) /\ better(s, t) => better(r, t)
    /\ \A r, s, t \in S : better(r, t) => better(r, s) \/ better(s, t)

=============================================================================
