-------------------------- MODULE DriverLifecycle --------------------------
(***************************************************************************)
(* Module start-up, INI handling and logging of the extension             *)
(* (src/ext/php_driver.c).                                                 *)
(*                                                                         *)
(* Two threads: the PHP thread, which registers the module, runs MINIT    *)
(* (REGISTER_INI_ENTRIES calls OnUpdateLog then OnUpdateLogLevel), serves *)
(* requests that may change the INI settings, and shuts the module down;  *)
(* and a driver I/O thread, which logs a message whenever the driver has  *)
(* one.  The driver calls php_driver_log only if php_driver_log_initialize*)
(* installed it; its own default sink (stderr) is outside this module.   *)
(*                                                                         *)
(* log_initialize runs from the GINIT function, under uv_once.  Whether   *)
(* the Zend engine calls GINIT depends on the module entry: with          *)
(* NO_MODULE_GLOBALS (php_driver.c:77) it has no globals constructor.     *)
(* GlobalsRegistered says which entry is built; the code has FALSE.       *)
(*                                                                         *)
(* Scripts may create persistent clusters and sessions; their resources   *)
(* live in the engine's persistent list until the process ends.  A        *)
(* session owns the driver's I/O threads, so the log thread runs only     *)
(* while a session lives.  At shutdown the engine destroys the persistent *)
(* list (last entry first, each through the destructor MINIT registered)  *)
(* and only then calls MSHUTDOWN and the globals destructor.              *)
(***************************************************************************)
EXTENDS Naturals, Sequences, SequencesExt

CONSTANTS
    GlobalsRegistered, \* the module entry declares globals with GINIT
    LogValues,         \* values of cassandra.log (model values)
    Syslog,            \* the value "syslog"
    EmptyLog,          \* the value "" (the default)
    Unwritable,        \* values naming a file fopen(.., "a") cannot open
    LevelInputs,       \* values of cassandra.log_level, as character sequences
    NoLocation,        \* log_location == NULL
    NoMessage,         \* nothing logged yet
    MaxLogs,           \* messages the driver logs in a behaviour
    MaxResources       \* persistent clusters and sessions a behaviour creates

ASSUME /\ GlobalsRegistered \in BOOLEAN
       /\ {Syslog, EmptyLog} \cup Unwritable \subseteq LogValues
       /\ NoLocation \notin LogValues
       /\ MaxLogs \in Nat
       /\ MaxResources \in Nat

\* The strings OnUpdateLogLevel compares against, in the order it tries
\* them, and the cass log level each selects.
LevelNames ==
    << <<"C","R","I","T","I","C","A","L">>, <<"E","R","R","O","R">>,
       <<"W","A","R","N">>, <<"I","N","F","O">>, <<"D","E","B","U","G">>,
       <<"T","R","A","C","E">> >>
CassLevel ==
    <<"DISABLED", "ERROR", "WARN", "INFO", "DEBUG", "TRACE">>
Levels == {CassLevel[i] : i \in 1..6}

VARIABLES
    phase,     \* PHP thread: "register", "minit", "minit_level", "running", "done"
    wpc,       \* PHP thread inside OnUpdateLog: "idle", "want", "locked", "stored"
    newLog,    \* the value OnUpdateLog is installing
    lockInit,  \* uv_rwlock_init has run on log_lock (and no destroy since)
    writer,    \* log_lock is write-locked
    readers,   \* number of read locks held on log_lock
    location,  \* log_location
    level,     \* the cass log level
    callback,  \* the driver's log callback: "default" or "php_driver_log"
    lpc,       \* driver thread: "idle", "locked", "copied"
    snap,      \* its copy of log_location
    emitted,   \* the last message: where it went and the setting it was for
    logged,    \* messages the driver thread has started to log
    plist,     \* the persistent list: its "cluster" and "session" entries
    pclusters, \* PHP_DRIVER_G(persistent_clusters)
    psessions  \* PHP_DRIVER_G(persistent_sessions)

vars == <<phase, wpc, newLog, lockInit, writer, readers, location, level,
          callback, lpc, snap, emitted, logged, plist, pclusters, psessions>>

\* The variables of the persistent resources, for the steps that leave them.
rsrcVars == <<plist, pclusters, psessions>>

Dests == LogValues \cup {"stderr", "syslog"}

TypeOK ==
    /\ phase \in {"register", "minit", "minit_level", "running", "rsrc", "done"}
    /\ wpc \in {"idle", "want", "locked", "stored"}
    /\ newLog \in LogValues \cup {NoLocation}
    /\ lockInit \in BOOLEAN
    /\ writer \in BOOLEAN
    /\ readers \in 0..1
    /\ location \in LogValues \cup {NoLocation}
    /\ level \in Levels
    /\ callback \in {"default", "php_driver_log"}
    /\ lpc \in {"idle", "locked", "copied"}
    /\ snap \in LogValues \cup {NoLocation}
    /\ emitted \in {NoMessage} \cup [dest : Dests, cfg : LogValues \cup {NoLocation}]
    /\ logged \in 0..MaxLogs
    /\ plist \in Seq({"cluster", "session"}) /\ Len(plist) <= MaxResources
    /\ pclusters \in 0..MaxResources
    /\ psessions \in 0..MaxResources

\* Process start: static storage is zero, so log_location is NULL and the
\* lock holds zero bytes; the driver logs at ERROR through its default.
Init ==
    /\ phase = "register"
    /\ wpc = "idle"
    /\ newLog = NoLocation
    /\ lockInit = FALSE
    /\ writer = FALSE
    /\ readers = 0
    /\ location = NoLocation
    /\ level = "ERROR"
    /\ callback = "default"
    /\ lpc = "idle"
    /\ snap = NoLocation
    /\ emitted = NoMessage
    /\ logged = 0
    /\ plist = <<>>
    /\ pclusters = 0
    /\ psessions = 0

\* Mutant of LogInitialize: uv_rwlock_init is left out.
LogInitializeNoLockInit ==
    /\ UNCHANGED lockInit
    /\ level' = "ERROR"
    /\ callback' = "php_driver_log"

\* php_driver_log_initialize: init the lock, level ERROR, install the callback.
LogInitialize ==
    /\ lockInit' = TRUE
    /\ level' = "ERROR"
    /\ callback' = "php_driver_log"

\* Module registration: the engine calls the globals constructor
\* (ZEND_GINIT_FUNCTION, whose uv_once runs log_initialize) only when the
\* module entry declares globals.
RegisterModule ==
    /\ phase = "register"
    /\ IF GlobalsRegistered THEN LogInitialize
                            ELSE UNCHANGED <<lockInit, level, callback>>
    /\ phase' = "minit"
    /\ UNCHANGED <<wpc, newLog, writer, readers, location, lpc, snap, emitted, logged, rsrcVars>>

\* Mutant of UpdLogLock: OnUpdateLog goes on without waiting for the read
\* locks to be released.
UpdLogLockNoWait ==
    /\ wpc = "want"
    /\ ~writer
    /\ writer' = TRUE
    /\ wpc' = "locked"
    /\ UNCHANGED <<phase, newLog, lockInit, readers, location, level,
                   callback, lpc, snap, emitted, logged, rsrcVars>>

\* OnUpdateLog, in the steps the lock separates: write-lock log_lock; free
\* the old location and store the new one (strdup of the value, through
\* realpath unless it is a prefix of "syslog"; the spelling of a path is not
\* modelled); unlock.
UpdLogLock ==
    /\ wpc = "want"
    /\ ~writer /\ readers = 0
    /\ writer' = TRUE
    /\ wpc' = "locked"
    /\ UNCHANGED <<phase, newLog, lockInit, readers, location, level,
                   callback, lpc, snap, emitted, logged, rsrcVars>>

UpdLogStore ==
    /\ wpc = "locked"
    /\ location' = newLog
    /\ wpc' = "stored"
    /\ UNCHANGED <<phase, newLog, lockInit, writer, readers, level,
                   callback, lpc, snap, emitted, logged, rsrcVars>>

\* Mutant of UpdLogUnlock: the write lock is not released.
UpdLogNoUnlock ==
    /\ wpc = "stored"
    /\ wpc' = "idle"
    /\ UNCHANGED <<phase, newLog, lockInit, writer, readers, location, level,
                   callback, lpc, snap, emitted, logged, rsrcVars>>

UpdLogUnlock ==
    /\ wpc = "stored"
    /\ writer' = FALSE
    /\ wpc' = "idle"
    /\ UNCHANGED <<phase, newLog, lockInit, readers, location, level,
                   callback, lpc, snap, emitted, logged, rsrcVars>>

\* OnUpdateLogLevel: the first name, in order, that the value is a prefix
\* of (strncmp over the value's length) selects its level; no match gives
\* ERROR with a notice.
ParseLevel(v) ==
    IF \E i \in 1..6 : IsPrefix(v, LevelNames[i])
      THEN CassLevel[CHOOSE i \in 1..6 : IsPrefix(v, LevelNames[i])
                                       /\ \A j \in 1..(i - 1) : ~IsPrefix(v, LevelNames[j])]
      ELSE "ERROR"

OnUpdateLogLevel(v) ==
    /\ level' = ParseLevel(v)

\* MINIT, first part: REGISTER_INI_ENTRIES calls OnUpdateLog with the
\* configured cassandra.log.
MinitLog ==
    /\ phase = "minit"
    /\ \E v \in LogValues : newLog' = v
    /\ wpc' = "want"
    /\ phase' = "minit_level"
    /\ UNCHANGED <<lockInit, writer, readers, location, level,
                   callback, lpc, snap, emitted, logged, rsrcVars>>

\* MINIT, rest: OnUpdateLogLevel with the configured level, then the
\* resource destructors and classes are registered.
MinitLevel ==
    /\ phase = "minit_level" /\ wpc = "idle"
    /\ \E v \in LevelInputs : OnUpdateLogLevel(v)
    /\ phase' = "running"
    /\ UNCHANGED <<wpc, newLog, lockInit, writer, readers, location,
                   callback, lpc, snap, emitted, logged, rsrcVars>>

\* ini_set("cassandra.log", v) during a request.
IniSetLog ==
    /\ phase = "running" /\ wpc = "idle"
    /\ \E v \in LogValues : newLog' = v
    /\ wpc' = "want"
    /\ UNCHANGED <<phase, lockInit, writer, readers, location, level,
                   callback, lpc, snap, emitted, logged, rsrcVars>>

\* ini_set("cassandra.log_level", v) during a request.
IniSetLevel ==
    /\ phase = "running" /\ wpc = "idle"
    /\ \E v \in LevelInputs : OnUpdateLogLevel(v)
    /\ UNCHANGED <<phase, wpc, newLog, lockInit, writer, readers, location,
                   callback, lpc, snap, emitted, logged, rsrcVars>>

\* Where php_driver_log sends a message for a copied location: nothing set
\* or empty -> stderr; exactly "syslog" -> syslog; otherwise the file,
\* falling back to stderr when fopen fails.
LogDest(l) ==
    IF l \in {NoLocation, EmptyLog} THEN "stderr"
    ELSE IF l = Syslog THEN "syslog"
    ELSE IF l \in Unwritable THEN "stderr"
    ELSE l

\* A session's I/O threads exist from connect until cass_session_free.
SessionLive == \E i \in 1..Len(plist) : plist[i] = "session"

\* php_driver_log: read-lock, copy log_location, unlock, write.  An I/O
\* thread of a live session calls it, at any phase, shutdown included.
LogRdLock ==
    /\ SessionLive /\ callback = "php_driver_log" /\ lpc = "idle"
    /\ logged < MaxLogs
    /\ ~writer
    /\ readers' = readers + 1
    /\ lpc' = "locked"
    /\ logged' = logged + 1
    /\ UNCHANGED <<phase, wpc, newLog, lockInit, writer, location, level,
                   callback, snap, emitted, rsrcVars>>

\* Mutant of LogCopyUnlock: the read lock is not released.
LogCopyNoUnlock ==
    /\ lpc = "locked"
    /\ snap' = location
    /\ lpc' = "copied"
    /\ UNCHANGED <<phase, wpc, newLog, lockInit, writer, readers, location, level,
                   callback, emitted, logged, rsrcVars>>

LogCopyUnlock ==
    /\ lpc = "locked"
    /\ snap' = location
    /\ readers' = readers - 1
    /\ lpc' = "copied"
    /\ UNCHANGED <<phase, wpc, newLog, lockInit, writer, location, level,
                   callback, emitted, logged, rsrcVars>>

LogWrite ==
    /\ lpc = "copied"
    /\ emitted' = [dest |-> LogDest(snap), cfg |-> snap]
    /\ lpc' = "idle"
    /\ UNCHANGED <<phase, wpc, newLog, lockInit, writer, readers, location, level,
                   callback, snap, logged, rsrcVars>>

\* A script builds a persistent cluster (ClusterBuilder with persistent
\* sessions) or connects a persistent session (DefaultCluster::connect):
\* the resource enters the persistent list and its counter goes up.
NewPersistentCluster ==
    /\ phase = "running" /\ wpc = "idle" /\ Len(plist) < MaxResources
    /\ plist' = Append(plist, "cluster")
    /\ pclusters' = pclusters + 1
    /\ UNCHANGED <<phase, wpc, newLog, lockInit, writer, readers, location,
                   level, callback, lpc, snap, emitted, logged, psessions>>

NewPersistentSession ==
    /\ phase = "running" /\ wpc = "idle" /\ Len(plist) < MaxResources
    /\ plist' = Append(plist, "session")
    /\ psessions' = psessions + 1
    /\ UNCHANGED <<phase, wpc, newLog, lockInit, writer, readers, location,
                   level, callback, lpc, snap, emitted, logged, pclusters>>

\* The process ends: between requests, the engine starts destroying the
\* persistent list (zend_shutdown, before the modules are shut down).
EngineShutdown ==
    /\ phase = "running" /\ wpc = "idle"
    /\ phase' = "rsrc"
    /\ UNCHANGED <<wpc, newLog, lockInit, writer, readers, location, level,
                   callback, lpc, snap, emitted, logged, rsrcVars>>

\* Mutant of ClusterDtor: the cluster is freed but persistent_clusters is
\* not decremented.
ClusterDtorNoDec ==
    /\ UNCHANGED <<pclusters, psessions>>

\* php_driver_cluster_dtor: cass_cluster_free, persistent_clusters--.
ClusterDtor ==
    /\ pclusters' = pclusters - 1
    /\ UNCHANGED psessions

\* Mutant of SessionDtor: the session is freed without joining its threads.
SessionDtorNoJoin ==
    /\ psessions' = psessions - 1
    /\ UNCHANGED pclusters

\* php_driver_session_dtor: free the connect future, drop the session's
\* reference (the last one: cass_session_free closes the session and
\* joins its I/O threads, waiting for a log call in progress when no
\* other session keeps the log thread), persistent_sessions--.
SessionDtor ==
    /\ SessionLive' \/ lpc = "idle"
    /\ psessions' = psessions - 1
    /\ UNCHANGED pclusters

\* The engine destroys the persistent list from its last entry, calling
\* the destructor registered for the entry's type.
ResourceDtor ==
    /\ phase = "rsrc" /\ plist # <<>>
    /\ plist' = Front(plist)
    /\ IF Last(plist) = "cluster" THEN ClusterDtor ELSE SessionDtor
    /\ UNCHANGED <<phase, wpc, newLog, lockInit, writer, readers, location,
                   level, callback, lpc, snap, emitted, logged>>

\* php_driver_log_cleanup: cass_log_cleanup, destroy log_lock without
\* taking it, free log_location.
LogCleanup ==
    /\ lockInit' = FALSE
    /\ location' = NoLocation

\* Then MSHUTDOWN (nothing to do), and the globals destructor when there is
\* one (ZEND_GSHUTDOWN_FUNCTION: free the uuid generator, then LogCleanup).
ModuleShutdown ==
    /\ phase = "rsrc" /\ plist = <<>>
    /\ phase' = "done"
    /\ IF GlobalsRegistered THEN LogCleanup ELSE UNCHANGED <<lockInit, location>>
    /\ UNCHANGED <<wpc, newLog, writer, readers, level, callback,
                   lpc, snap, emitted, logged, rsrcVars>>

Next ==
    \/ RegisterModule \/ MinitLog \/ MinitLevel
    \/ UpdLogLock \/ UpdLogStore \/ UpdLogUnlock
    \/ IniSetLog \/ IniSetLevel
    \/ LogRdLock \/ LogCopyUnlock \/ LogWrite
    \/ NewPersistentCluster \/ NewPersistentSession
    \/ EngineShutdown \/ ResourceDtor \/ ModuleShutdown

Spec == Init /\ [][Next]_vars

\* Each thread that can take its next step eventually does (the OS runs
\* every runnable thread).  Only the steps a thread takes on its own are
\* fair: whether a script calls ini_set and whether the driver has a
\* message to log is up to them.  Once the engine has begun to shut down,
\* its thread runs the destructors and module shutdown without waiting on
\* a script.
FairSpec ==
    /\ Spec
    /\ WF_vars(RegisterModule) /\ WF_vars(MinitLog) /\ WF_vars(MinitLevel)
    /\ WF_vars(UpdLogLock) /\ WF_vars(UpdLogStore) /\ WF_vars(UpdLogUnlock)
    /\ WF_vars(LogCopyUnlock) /\ WF_vars(LogWrite)
    /\ WF_vars(ResourceDtor) /\ WF_vars(ModuleShutdown)

-----------------------------------------------------------------------------
(* Properties.                                                             *)

\* Every lock and unlock of log_lock (OnUpdateLog's write lock, the log
\* callback's read lock) happens on a lock uv_rwlock_init has initialised.
LockInitBeforeUse ==
    [][(writer' # writer \/ readers' # readers) => lockInit]_vars

\* Every OnUpdateLog (at MINIT or from ini_set) gets the write lock and
\* finishes: the log thread's read lock is always released, and it takes
\* it again only for the messages the driver still has.  Start-up with it:
\* the module reaches the request phase.
OnUpdateLogCompletes ==
    /\ (wpc = "want") ~> (wpc = "idle")
    /\ (phase = "register") ~> (phase = "running")

\* Once the engine starts destroying the persistent list, shutdown ends:
\* every session's cass_session_free returns (its join waits only for a
\* log call that finishes), the module shuts down, and the
\* persistent_clusters and persistent_sessions counters that MINFO shows
\* are back to zero.
ShutdownCompletes ==
    (phase = "rsrc") ~> (phase = "done" /\ pclusters = 0 /\ psessions = 0)

\* OnUpdateLog frees and replaces log_location, and the globals
\* destructor's log_cleanup frees it, only while no php_driver_log call of
\* the driver's thread is between taking its read lock and copying the
\* location: the log thread never copies a string being freed.
LocationStableDuringCopy ==
    [][ \/ (wpc = "locked" /\ wpc' = "stored")
        \/ (phase = "rsrc" /\ phase' = "done")
        => lpc # "locked" ]_vars
=============================================================================
