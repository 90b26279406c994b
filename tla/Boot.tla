--------------------------------- MODULE Boot ---------------------------------
(***************************************************************************)
(* The start of the server (main.go, router.go, seed.go): connect with     *)
(* retries, migrate, seed an empty database, serve. The seed is a sequence *)
(* of INSERTs, each committed by itself, and is skipped once there are     *)
(* users. Servers crash, are started again, and may start side by side.    *)
(***************************************************************************)
EXTENDS Naturals, FiniteSets

CONSTANTS
    Servers,
    ConnectTries,   \* how often a server tries to connect before it gives up
    CrashBound      \* how many crashes and failed statements there are

ASSUME BootAssumption ==
    ConnectTries \in Nat /\ CrashBound \in Nat

\* The tables that seedData fills; stores, users and SKUs have unique codes.
Tables == {"stores", "users", "skus", "inventories", "records"}
UniqueTables == {"stores", "users", "skus"}

VARIABLES
    seeds,     \* seeds[t]: how often table t holds the seed rows
    at,        \* at[s]: where server s is; a table is the one it fills next
    tries,     \* tries[s]: how often it may still try to connect
    crashes    \* the crashes so far

bootVars == <<seeds, at, tries, crashes>>

Phases == {"down", "connect", "count", "serving"}

\* The SKUs are inserted after the inventory that refers to them.
BugAfter ==
    [stores |-> "users", users |-> "inventories", inventories |-> "skus",
     skus |-> "records", records |-> "serving"]

\* What follows the INSERT into a table.
After ==
    [stores |-> "users", users |-> "skus", skus |-> "inventories",
     inventories |-> "records", records |-> "serving"]

BootTypeOK ==
    /\ seeds \in [Tables -> Nat]
    /\ at \in [Servers -> Phases \cup Tables]
    /\ tries \in [Servers -> 0..ConnectTries]
    /\ crashes \in 0..CrashBound

\* init.sql may have filled the database before the first start.
BootInit ==
    /\ \E n \in {0, 1} : seeds = [t \in Tables |-> n]
    /\ at = [s \in Servers |-> "down"]
    /\ tries = [s \in Servers |-> 0]
    /\ crashes = 0

-----------------------------------------------------------------------------
\* The container is started, for the first time or again.
Start(s) ==
    /\ at[s] = "down"
    /\ at' = [at EXCEPT ![s] = "connect"]
    /\ tries' = [tries EXCEPT ![s] = ConnectTries]
    /\ UNCHANGED <<seeds, crashes>>

\* connectDB; the migration that follows changes nothing in a migrated database.
Connect(s) ==
    /\ at[s] = "connect"
    /\ tries[s] > 0
    /\ at' = [at EXCEPT ![s] = "count"]
    /\ UNCHANGED <<seeds, tries, crashes>>

\* The number of tries is one short of its check.
BugConnectFails(s) ==
    /\ at[s] = "connect"
    /\ crashes < CrashBound
    /\ tries' = [tries EXCEPT ![s] = @ - 1]
    /\ at' = [at EXCEPT ![s] = IF tries[s] = 0 THEN "down" ELSE "connect"]
    /\ crashes' = IF tries[s] = 0 THEN crashes + 1 ELSE crashes
    /\ UNCHANGED seeds

\* The database is not ready: wait and try again, in the end give up and exit.
ConnectFails(s) ==
    /\ at[s] = "connect"
    /\ tries[s] > 0
    /\ crashes < CrashBound
    /\ tries' = [tries EXCEPT ![s] = @ - 1]
    /\ at' = [at EXCEPT ![s] = IF tries[s] = 1 THEN "down" ELSE "connect"]
    /\ crashes' = IF tries[s] = 1 THEN crashes + 1 ELSE crashes
    /\ UNCHANGED seeds

\* Every start seeds the database.
BugCountUsers(s) ==
    /\ at[s] = "count"
    /\ at' = [at EXCEPT ![s] = "stores"]
    /\ UNCHANGED <<seeds, tries, crashes>>

\* seed: the database is seeded unless there are users.
CountUsers(s) ==
    /\ at[s] = "count"
    /\ at' = [at EXCEPT ![s] = IF seeds["users"] > 0 THEN "serving" ELSE "stores"]
    /\ UNCHANGED <<seeds, tries, crashes>>

\* The insertion of the stores is not checked for an error.
BugRefused(t) == t \in {"users", "skus"} /\ seeds[t] > 0

\* An INSERT of rows with unique codes fails where the rows are already.
Refused(t) == t \in UniqueTables /\ seeds[t] > 0

\* seedData's next INSERT; its failure makes the server exit.
Insert(s) ==
    /\ at[s] \in Tables
    /\ IF Refused(at[s])
       THEN /\ at' = [at EXCEPT ![s] = "down"]
            /\ seeds' = seeds
       ELSE /\ at' = [at EXCEPT ![s] = After[at[s]]]
            /\ seeds' = [seeds EXCEPT ![at[s]] = @ + 1]
    /\ UNCHANGED <<tries, crashes>>

\* A crash, a shutdown, or a statement that fails for a reason of its own.
Crash(s) ==
    /\ at[s] # "down"
    /\ crashes < CrashBound
    /\ at' = [at EXCEPT ![s] = "down"]
    /\ crashes' = crashes + 1
    /\ UNCHANGED <<seeds, tries>>

Progress(s) == Start(s) \/ Connect(s) \/ CountUsers(s) \/ Insert(s)

BootNext == \E s \in Servers : Progress(s) \/ ConnectFails(s) \/ Crash(s)

-----------------------------------------------------------------------------
\* No crash, restart or second server makes the seed rows appear twice, not
\* even in the tables of inventory and records, which nothing makes unique: a
\* server that starts over fails at the stores, whose codes are.
SeededOnce == \A t \in Tables : seeds[t] <= 1

\* A crash may leave a part of the seed only, and no later start completes it;
\* but what is there never refers to what is not: the INSERTs take effect in
\* order, also when two servers run them side by side.
SeedRefersToRows ==
    /\ seeds["users"] <= seeds["stores"]
    /\ seeds["inventories"] <= seeds["stores"] /\ seeds["inventories"] <= seeds["skus"]
    /\ seeds["records"] <= seeds["stores"] /\ seeds["records"] <= seeds["skus"]

\* Whatever crashes, every server on a database that had its seed serves in the
\* end. Without it, a crash between stores and users stops every later start.
ServesInTheEnd ==
    (\A t \in Tables : seeds[t] > 0) => \A s \in Servers : <>[](at[s] = "serving")
=============================================================================
