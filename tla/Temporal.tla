------------------------------ MODULE Temporal ------------------------------
(***************************************************************************)
(* The temporal value wrappers Cassandra\Time (src/ext/src/Time.c),        *)
(* Cassandra\Timestamp (Timestamp.c) and Cassandra\Timeuuid (Timeuuid.c),  *)
(* each as the PHP variables of a script (Objs) holding one object of the *)
(* class.  $o = new X(arg) replaces the object only when the constructor  *)
(* returns; $o->__construct(arg) runs the same init function on the       *)
(* object already held, and the script catches what it throws.            *)
(*                                                                         *)
(* The three classes share no state; a behaviour works with the class     *)
(* chosen in Init (cls), so the state space is their sum, not product.    *)
(*                                                                         *)
(* A 64-bit Time payload v is the pair <<q, r>> with v = q * 10^9 + r and *)
(* 0 <= r < 10^9 (seconds and nanoseconds), exact for every int64 and     *)
(* ordered lexicographically.  Timestamp payloads are milliseconds.  A    *)
(* Timeuuid is its version, its 60-bit timestamp in 100 ns ticks since    *)
(* the Unix epoch, and the clock_seq_and_node word as its rank in        *)
(* unsigned order.  Clock reads are inputs.                                *)
(***************************************************************************)
EXTENDS Integers

CONSTANTS
    Objs,          \* the script's variables
    TimeArgs,      \* arguments of Time::__construct (records, see TimeInit)
    EpochSecs,     \* DateTime::getTimestamp() results for fromDateTime
    TsArgs,        \* arguments of Timestamp::__construct
    UuidArgs,      \* arguments of Timeuuid::__construct
    Unparsable     \* a string that is no number / no UUID

VARIABLES
    cls,           \* the class this behaviour works with
    time,          \* Obj -> Time payload <<q, r>>
    timeThrew,     \* Obj -> the last constructor run on the object threw
    ts,            \* Obj -> Timestamp payload (ms)
    uuid,          \* Obj -> [ver, t, csn]
    uuidThrew,     \* Obj -> as timeThrew, for the Timeuuid
    lastOp, ret    \* the last method called and its result

vars == <<cls, time, timeThrew, ts, uuid, uuidThrew, lastOp, ret>>

NsPerSec == 1000000000
SecsPerDay == 86400
\* NUM_NANOSECONDS_PER_DAY, the largest Time: 86399999999999.
MaxTime == <<SecsPerDay - 1, NsPerSec - 1>>

\* C's / on signed integers truncates toward zero.
CDiv(a, b) == IF (a >= 0) = (b > 0) THEN a \div b ELSE -((-a) \div b)
\* PHP_DRIVER_COMPARE, and its lexicographic form for pairs.
Cmp(a, b) == IF a < b THEN -1 ELSE IF a > b THEN 1 ELSE 0
PairLt(x, y) == x[1] < y[1] \/ (x[1] = y[1] /\ x[2] < y[2])
PairCmp(x, y) == IF PairLt(x, y) THEN -1 ELSE IF PairLt(y, x) THEN 1 ELSE 0

-----------------------------------------------------------------------------
(* Time.                                                                   *)

\* cass_time_from_epoch: seconds of the day of an epoch second, in ns.
TimeFromEpoch(s) == <<s % SecsPerDay, 0>>

\* php_driver_time_now_ns (Linux): from_epoch(tv_sec) + tv_nsec.
TimeNowNs(clk) == <<clk.sec % SecsPerDay, clk.nsec>>

\* The range check of php_driver_time_init: v < 0 || v > NUM_..._PER_DAY.
TimeOutOfRange(v) == PairLt(v, <<0, 0>>) \/ PairLt(MaxTime, v)

\* Mutant of TimeInit: a numeric string is stored without the range check.
TimeInitStringUnchecked(self, arg) ==
    CASE arg.kind = "none"   -> [v |-> TimeNowNs(arg.clk), threw |-> FALSE]
      [] arg.kind = "long"   -> [v |-> arg.v, threw |-> TimeOutOfRange(arg.v)]
      [] arg.kind = "string" /\ arg.v = Unparsable -> [v |-> self, threw |-> TRUE]
      [] arg.kind = "string" -> [v |-> arg.v, threw |-> FALSE]
      [] OTHER               -> [v |-> self, threw |-> TRUE]

\* php_driver_time_init on an object holding self: the value it leaves and
\* whether it throws.  No argument reads the clock; an int is stored, a
\* string is parsed into the payload (php_driver_parse_bigint throws and
\* returns on failure); anything else throws before any store.  A stored
\* value is range-checked after the store.
TimeInit(self, arg) ==
    LET stored == [v |-> arg.v, threw |-> TimeOutOfRange(arg.v)]
    IN CASE arg.kind = "none"   -> [v |-> TimeNowNs(arg.clk), threw |-> FALSE]
         [] arg.kind = "long"   -> stored
         [] arg.kind = "string" /\ arg.v = Unparsable -> [v |-> self, threw |-> TRUE]
         [] arg.kind = "string" -> stored
         [] OTHER               -> [v |-> self, threw |-> TRUE]

\* $o = new Time(arg): php_driver_time_new zeroes the payload, init runs;
\* the assignment happens only if nothing was thrown.
TimeNew(o, arg) ==
    LET r == TimeInit(<<0, 0>>, arg) IN
    /\ cls = "Time"
    /\ time' = IF r.threw THEN time ELSE [time EXCEPT ![o] = r.v]
    /\ timeThrew' = IF r.threw THEN timeThrew ELSE [timeThrew EXCEPT ![o] = FALSE]
    /\ lastOp' = "Time::new" /\ ret' = r.threw
    /\ UNCHANGED <<cls, ts, uuid, uuidThrew>>

\* $o->__construct(arg) on the object held: init works on it in place.
TimeConstruct(o, arg) ==
    LET r == TimeInit(time[o], arg) IN
    /\ cls = "Time"
    /\ time' = [time EXCEPT ![o] = r.v]
    /\ timeThrew' = [timeThrew EXCEPT ![o] = r.threw]
    /\ lastOp' = "Time::__construct" /\ ret' = r.threw
    /\ UNCHANGED <<cls, ts, uuid, uuidThrew>>

\* $o = Time::fromDateTime($dt): a new Time of getTimestamp()'s second.
TimeFromDateTime(o, s) ==
    /\ cls = "Time"
    /\ time' = [time EXCEPT ![o] = TimeFromEpoch(s)]
    /\ timeThrew' = [timeThrew EXCEPT ![o] = FALSE]
    /\ lastOp' = "Time::fromDateTime" /\ ret' = FALSE
    /\ UNCHANGED <<cls, ts, uuid, uuidThrew>>

\* Time::seconds(): time / NANOSECONDS_PER_SECOND, truncating.
Seconds(v) == IF v[1] < 0 /\ v[2] # 0 THEN v[1] + 1 ELSE v[1]

TimeSeconds(o) ==
    /\ cls = "Time"
    /\ lastOp' = "Time::seconds" /\ ret' = Seconds(time[o])
    /\ UNCHANGED <<cls, time, timeThrew, ts, uuid, uuidThrew>>

\* The compare handler (both objects are Times).
TimeCompare(a, b) == PairCmp(time[a], time[b])

-----------------------------------------------------------------------------
(* Timestamp.                                                              *)

\* php_driver_timestamp_init: "|ll" seconds, microseconds (both 0 when
\* absent); with no argument gettimeofday gives the seconds and whole
\* milliseconds of microseconds; then value = us / 1000 + seconds * 1000.
\* An argument that is not an int fails zend_parse_parameters, which
\* throws before anything is stored.
TsValue(arg) ==
    LET s  == IF arg.n = 0 THEN arg.clk.sec ELSE arg.s
        us == CASE arg.n = 0 -> (arg.clk.usec \div 1000) * 1000
                [] arg.n = 1 -> 0
                [] OTHER     -> arg.us
    IN CDiv(us, 1000) + s * 1000

\* $o = new Timestamp(...) and $o->__construct(...) run the same init: the
\* value is computed first and stored last, so a throw stores nothing.
TsInit(o, arg) ==
    /\ cls = "Timestamp"
    /\ ts' = IF arg.bad THEN ts ELSE [ts EXCEPT ![o] = TsValue(arg)]
    /\ lastOp' = "Timestamp::__construct" /\ ret' = arg.bad
    /\ UNCHANGED <<cls, time, timeThrew, uuid, uuidThrew>>

\* Timestamp::time(), and the second toDateTime() formats as "@%ld".
TsSeconds(v) == CDiv(v, 1000)

TsTime(o) ==
    /\ cls = "Timestamp"
    /\ lastOp' = "Timestamp::time" /\ ret' = TsSeconds(ts[o])
    /\ UNCHANGED <<cls, time, timeThrew, ts, uuid, uuidThrew>>

TsToDateTime(o) ==
    /\ cls = "Timestamp"
    /\ lastOp' = "Timestamp::toDateTime" /\ ret' = TsSeconds(ts[o])
    /\ UNCHANGED <<cls, time, timeThrew, ts, uuid, uuidThrew>>

\* Timestamp::microtime(get_as_float).  As a float: timestamp / 1000.00,
\* recorded exactly as the milliseconds it is the thousandth of.  As a
\* string "%.8F %ld": the second sec = timestamp / 1000 and the fraction
\* (timestamp - sec * 1000) / 1000.00, recorded as its milliseconds (three
\* decimals, printed exactly with eight).
Microtime(v, asFloat) ==
    IF asFloat THEN [ms |-> v]
    ELSE LET sec == CDiv(v, 1000) IN [fracMs |-> v - sec * 1000, sec |-> sec]

TsMicrotime(o, asFloat) ==
    /\ cls = "Timestamp"
    /\ lastOp' = "Timestamp::microtime" /\ ret' = Microtime(ts[o], asFloat)
    /\ UNCHANGED <<cls, time, timeThrew, ts, uuid, uuidThrew>>

\* The compare handler.
TsCompare(a, b) == Cmp(ts[a], ts[b])

-----------------------------------------------------------------------------
(* Timeuuid.                                                               *)

\* cass_uuid_timestamp: the uuid's timestamp in ms since the epoch.
UuidMillis(u) == u.t \div 10000

\* php_driver_uuid_generate_from_time: a version-1 uuid of an epoch-ms
\* timestamp; the generator supplies clock_seq_and_node.
FromTime(ms, csn) == [ver |-> 1, t |-> ms * 10000, csn |-> csn]

\* php_driver_timeuuid_init on an object holding self.  No argument:
\* uuid_generate_time (a version-1 uuid of the clock).  An int < 0 throws
\* before any store, else the uuid is generated from it.  A string is
\* parsed by cass_uuid_from_string into the payload (on failure it throws
\* with the payload untouched); a parsed uuid whose version is not 1 then
\* throws, the uuid already stored.  Anything else throws.
UuidInit(self, arg) ==
    CASE arg.kind = "none" ->
            [u |-> [ver |-> 1, t |-> arg.clk, csn |-> arg.csn], threw |-> FALSE]
      [] arg.kind = "long" /\ arg.v < 0 -> [u |-> self, threw |-> TRUE]
      [] arg.kind = "long" -> [u |-> FromTime(arg.v, arg.csn), threw |-> FALSE]
      [] arg.kind = "string" /\ arg.u = Unparsable -> [u |-> self, threw |-> TRUE]
      [] arg.kind = "string" -> [u |-> arg.u, threw |-> arg.u.ver # 1]
      [] OTHER -> [u |-> self, threw |-> TRUE]

\* Mutant of UuidNew: the new object is assigned even when init threw.
UuidNewAssignsOnThrow(o, arg) ==
    LET r == UuidInit([ver |-> 0, t |-> 0, csn |-> 0], arg) IN
    /\ cls = "Timeuuid"
    /\ uuid' = [uuid EXCEPT ![o] = r.u]
    /\ uuidThrew' = [uuidThrew EXCEPT ![o] = FALSE]
    /\ lastOp' = "Timeuuid::new" /\ ret' = r.threw
    /\ UNCHANGED <<cls, time, timeThrew, ts>>

\* $o = new Timeuuid(arg) (php_driver_timeuuid_new leaves the uuid zeroed).
UuidNew(o, arg) ==
    LET r == UuidInit([ver |-> 0, t |-> 0, csn |-> 0], arg) IN
    /\ cls = "Timeuuid"
    /\ uuid' = IF r.threw THEN uuid ELSE [uuid EXCEPT ![o] = r.u]
    /\ uuidThrew' = IF r.threw THEN uuidThrew ELSE [uuidThrew EXCEPT ![o] = FALSE]
    /\ lastOp' = "Timeuuid::new" /\ ret' = r.threw
    /\ UNCHANGED <<cls, time, timeThrew, ts>>

\* $o->__construct(arg).
UuidConstruct(o, arg) ==
    LET r == UuidInit(uuid[o], arg) IN
    /\ cls = "Timeuuid"
    /\ uuid' = [uuid EXCEPT ![o] = r.u]
    /\ uuidThrew' = [uuidThrew EXCEPT ![o] = r.threw]
    /\ lastOp' = "Timeuuid::__construct" /\ ret' = r.threw
    /\ UNCHANGED <<cls, time, timeThrew, ts>>

\* Timeuuid::time() and the second toDateTime() formats: ms / 1000.
UuidSeconds(u) == UuidMillis(u) \div 1000

UuidTime(o) ==
    /\ cls = "Timeuuid"
    /\ lastOp' = "Timeuuid::time" /\ ret' = UuidSeconds(uuid[o])
    /\ UNCHANGED <<cls, time, timeThrew, ts, uuid, uuidThrew>>

UuidToDateTime(o) ==
    /\ cls = "Timeuuid"
    /\ lastOp' = "Timeuuid::toDateTime" /\ ret' = UuidSeconds(uuid[o])
    /\ UNCHANGED <<cls, time, timeThrew, ts, uuid, uuidThrew>>

UuidVersion(o) ==
    /\ cls = "Timeuuid"
    /\ lastOp' = "Timeuuid::version" /\ ret' = uuid[o].ver
    /\ UNCHANGED <<cls, time, timeThrew, ts, uuid, uuidThrew>>

\* Mutant of UuidCompare: clock_seq_and_node compared before the time.
UuidCompareNodeFirst(a, b) ==
    LET x == uuid[a]
        y == uuid[b]
    IN IF x.csn # y.csn THEN Cmp(x.csn, y.csn)
       ELSE PairCmp(<<x.ver, x.t>>, <<y.ver, y.t>>)

\* The compare handler: time_and_version (version in the top four bits,
\* then the timestamp) as an unsigned word, then clock_seq_and_node.
UuidCompare(a, b) ==
    LET x == uuid[a]
        y == uuid[b]
    IN IF <<x.ver, x.t>> # <<y.ver, y.t>> THEN PairCmp(<<x.ver, x.t>>, <<y.ver, y.t>>)
       ELSE Cmp(x.csn, y.csn)

\* A comparison ($a < $b, $a == $b) runs the class's handler.
CompareOp(a, b) ==
    /\ lastOp' = "compare"
    /\ ret' = CASE cls = "Time"      -> TimeCompare(a, b)
                [] cls = "Timestamp" -> TsCompare(a, b)
                [] OTHER             -> UuidCompare(a, b)
    /\ UNCHANGED <<cls, time, timeThrew, ts, uuid, uuidThrew>>

-----------------------------------------------------------------------------
Init ==
    /\ cls \in {"Time", "Timestamp", "Timeuuid"}
    \* Each variable starts holding an object made by new with no argument.
    /\ \E arg \in {x \in TimeArgs : x.kind = "none"} :
          time = [o \in Objs |-> TimeInit(<<0, 0>>, arg).v]
    /\ timeThrew = [o \in Objs |-> FALSE]
    /\ \E arg \in {x \in TsArgs : x.n = 0 /\ ~x.bad} :
          ts = [o \in Objs |-> TsValue(arg)]
    /\ \E arg \in {x \in UuidArgs : x.kind = "none"} :
          uuid = [o \in Objs |-> UuidInit([ver |-> 0, t |-> 0, csn |-> 0], arg).u]
    /\ uuidThrew = [o \in Objs |-> FALSE]
    /\ lastOp = "none" /\ ret = FALSE

Next ==
    \/ \E o \in Objs :
          \/ \E a \in TimeArgs : TimeNew(o, a) \/ TimeConstruct(o, a)
          \/ \E s \in EpochSecs : TimeFromDateTime(o, s)
          \/ TimeSeconds(o)
          \/ \E a \in TsArgs : TsInit(o, a)
          \/ TsTime(o) \/ TsToDateTime(o)
          \/ \E f \in BOOLEAN : TsMicrotime(o, f)
          \/ \E a \in UuidArgs : UuidNew(o, a) \/ UuidConstruct(o, a)
          \/ UuidTime(o) \/ UuidToDateTime(o) \/ UuidVersion(o)
    \/ \E a, b \in Objs : CompareOp(a, b)

Spec == Init /\ [][Next]_vars

-----------------------------------------------------------------------------
(* Properties.                                                             *)

TypeOK ==
    /\ cls \in {"Time", "Timestamp", "Timeuuid"}
    /\ \A o \in Objs :
          /\ time[o] \in Int \X (0 .. NsPerSec - 1)
          /\ ts[o] \in Int
          /\ uuid[o] \in [ver : {1, 4}, t : Nat, csn : Nat]
    /\ timeThrew \in [Objs -> BOOLEAN]
    /\ uuidThrew \in [Objs -> BOOLEAN]

\* A Time outside [0, NUM_NANOSECONDS_PER_DAY] or a Timeuuid of a version
\* other than 1 is only ever held after a constructor call on that object
\* threw: every path of php_driver_time_init (clock, int, numeric string)
\* and of php_driver_timeuuid_init (clock, int, uuid string) that returns
\* normally leaves a valid payload, and Time::fromDateTime and new never
\* hand out an invalid one.  (The converse does happen: __construct stores
\* the rejected value before it throws.)
InvalidOnlyAfterThrow ==
    \A o \in Objs :
        /\ PairLt(time[o], <<0, 0>>) \/ PairLt(MaxTime, time[o]) => timeThrew[o]
        /\ uuid[o].ver # 1 => uuidThrew[o]

\* The compare handlers order objects as their time() does: a Time, a
\* Timestamp or a version-1 Timeuuid compares lower than one whose
\* seconds()/time() is larger, and two Timeuuids compare equal only when
\* their uuids are equal (ties on the timestamp are broken by the
\* clock_seq_and_node word), whatever constructors made them.
CompareAgreesWithTime ==
    \A a, b \in Objs :
        /\ Seconds(time[a]) < Seconds(time[b]) => TimeCompare(a, b) = -1
        /\ TsSeconds(ts[a]) < TsSeconds(ts[b]) => TsCompare(a, b) = -1
        /\ uuid[a].ver = 1 /\ uuid[b].ver = 1
           /\ UuidSeconds(uuid[a]) < UuidSeconds(uuid[b])
           => UuidCompare(a, b) = -1
        /\ UuidCompare(a, b) = 0 <=> uuid[a] = uuid[b]

=============================================================================
