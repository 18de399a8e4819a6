# TLA+ models of the php-cassandra value types and module lifecycle

These modules model the C code of the PHP extension under `src/ext/`. The
extension wraps the DataStax C/C++ driver. The parts under `src/` are
the value classes (`Set`, `Tuple`, `UserTypeValue`, `Tinyint`, `Smallint`,
`Time`, `Timestamp`, `Timeuuid`, `Blob`), the SSL options builder,
`SimpleStatement`, the monotonic timestamp generator, and the module
lifecycle with its logging (`php_driver.c`).

## Inventory

| Part | Source | State | Operations | Hard behaviour |
|---|---|---|---|---|
| Set | `Set.c` | uthash list of entries (insertion order), cursor `iter_curr`/`iter_temp`/`iter_index`, memoised `hashv` + `dirty` | `add`, `remove`, `has`, `count`, `values`, `current`, `key`, `next`, `valid`, `rewind`, hash/compare handlers | remove during iteration; cursor pointers into freed entries; cache invalidation |
| Tinyint / Smallint | `Tinyint.c`, `Smallint.c` | one 8-/16-bit payload | constructor (int, double, string, copy), `add`..`sqrt`, `min`, `max`, compare | overflow detection by wrap-around; 64→32→8 bit narrowing; `MIN / -1` |
| Tuple | `Tuple.c` | type + zend hash of slot → value (insertion order) | `set`, `get`, `count`, iterator, compare, hash | compare walks insertion order, not slot order |
| UserTypeValue | `UserTypeValue.c` | type + zend hash of field → value | `set`, `get`, iterator, compare, hash | as Tuple, by field name |
| Time / Timestamp / Timeuuid | `Time.c`, `Timestamp.c`, `Timeuuid.c` | one 64-bit value | constructors from clock or argument, conversions, compare | range checks after assignment; millisecond/second arithmetic |
| SSL options builder | `SSLOptions/Builder.c`, `SSLOptions.c` | paths and flags collected by `with*()` | `with*()`, `build()` | path checked at `with*()`, read at `build()`; partial build |
| Lifecycle and logging | `php_driver.c` | log lock, log location, log level, persistent resource counters | MINIT, GINIT, MSHUTDOWN, GSHUTDOWN, INI handlers, the log callback, resource dtors (RINIT/RSHUTDOWN exist but are not modelled, see below) | init order; lock use before init; prefix matching of INI values |
| Blob, SimpleStatement, Monotonic | `Blob.c`, `SimpleStatement.c`, `TimestampGenerator/Monotonic.c` | immutable after construction | constructor, getters, free | none a model checker adds to |

The classes do not call each other. One exception is collections: they hold
values of the other classes and compare or hash them through the handlers.
The lifecycle code registers every class at MINIT. It also owns the logging
state that the driver's threads read.

## Modules

| Module | Models | Correspondence |
|---|---|---|
| `PhpSet` | one `Set` object | `entries` is the uthash list (entry numbers in insertion order), `val` is each entry's value, `iter_curr`/`iter_temp` are the cursor pointers. An entry missing from `entries` has been freed. A pointer to it is dangling. Each method is an action, and `lastOp`/`ret` record what it returned. |
| `SetForeach` | PHP `foreach` over a `Set` | Extends `PhpSet` with a program counter for Zend's iterator protocol (rewind; valid; current; body; next). The body may call any data method. `removed` and `visits` are history variables. The script also fills a second Set `$copy` with each visited value; `Copy` is its content and `CompareIsSetEquality` applies `PhpSet`'s `SetCompare` (the compare handler, Set.c:410) to the two Sets after the loop. |
| `ValueSet` | the abstract set | Holds a mathematical set `S` with the same methods. Iteration methods may return any member. `SetForeach` refines it with `S <- Content`. |
| `FixedInt` | `Tinyint` (and `Smallint`) | `self` and `other` are the payloads of two objects, drawn from `Operands`. One action per method, and `last` records the method, the operands, the outcome (`ok`/`range`/`div0`) and the result. C narrowing is `Wrap`, and C `/` and `%` are `CDiv`/`CMod`. A 64-bit PHP int is split into 32-bit words because TLC integers are 32-bit. A PHP float is given by what the cast to `cass_int32_t` sees (`num` with its integral part, `big` beyond 32 bits or infinite, `nan`), and `DoubleToInt32` resolves the cast of an out-of-range value, which is undefined in C, by the build's `Arch`: x86-64 gives `INT_MIN`, aarch64 saturates and maps NaN to 0. A numeric string is its parsed value or `big`/`nan` for one that is out of range or not a number. The copy and wrong-type constructors are actions too. |
| `Smallint` | `Smallint` | `FixedInt` at 16 bits. Each `Smallint*` action is the `FixedInt` action for the same method of `Smallint.c`. |
| `Composite` | `Tuple` objects of one type | `values` is each object's zend hash of key to value, in insertion order (an update keeps the key's position). `pos` is the iterator's index into the type's keys. `dirty`/`hashv` are the hash memo. The compare handler counts values, then compares them pairwise in insertion order. The hash handler combines them in insertion order; a hash is represented by the value sequence it combines. |
| `UserTypeValue` | `UserTypeValue` objects | `Composite` keyed by field name. Each `Udt*` action is the `Composite` action for the same method of `UserTypeValue.c`. |
| `DriverLifecycle` | `php_driver.c`: registration, MINIT, INI handlers, logging, GSHUTDOWN | Two threads. The PHP thread registers the module, runs MINIT (`OnUpdateLog`, then `OnUpdateLogLevel`), calls `ini_set` and shuts down. The driver's I/O thread runs `php_driver_log`. `OnUpdateLog` and `php_driver_log` are split at the lock operations (`wpc`, `lpc`). `writer`/`readers` are the rwlock, and `lockInit` records whether `uv_rwlock_init` ran, and `logged` counts the driver's messages up to the bound `MaxLogs`. `GlobalsRegistered` chooses the module entry: the code has `NO_MODULE_GLOBALS` (FALSE). `plist` is the engine's persistent list of cluster and session handles, in creation order (at most `MaxResources`), and `pclusters`/`psessions` are the counters the dtors decrement. Shutdown follows the engine: `EngineShutdown` enters phase `rsrc`, `ResourceDtor` destroys the last entry first (a session's dtor `cass_session_free` joins the I/O threads, so the log thread is idle after it), and `ModuleShutdown` runs MSHUTDOWN/GSHUTDOWN when the list is empty. `SessionLive` says whether the driver's I/O thread, and so `php_driver_log`, can run. |
| `SslBuilder` | `SSLOptions\Builder` | `trusted`/`clientCert`/`privateKey` are the recorded paths. `files` is the file system, which another process changes (`EnvChange`, at most `MaxEnvChanges` times). `build()` is one step per file it reads (`bpc`), and `loaded` is what the CassSsl received. `EmptyIsNull` is the PHP-version behaviour of `php_stream_copy_to_mem` on an empty file. `flags` and `passphrase` are the other builder fields; `keyPass` is history, the passphrase argument of the `withPrivateKey` call that recorded the key. `NewSsl` is `php_driver_ssl_new` (a fresh CassSsl), and `sslFlags`/`sslPass` are what it received. |
| `Temporal` | `Time`, `Timestamp`, `Timeuuid` | The script's variables (`Objs`) each hold one object of the class chosen in `Init` (`cls`). The classes share no state, so a behaviour explores one class, and the state space is the sum of the three. `time` holds a `Time` as `<<seconds, nanoseconds>>`, which is exact for any int64 and ordered lexicographically. `ts` holds a `Timestamp` in milliseconds. `uuid` holds a `Timeuuid` as version, 100 ns timestamp and the rank of `clock_seq_and_node`. `TimeInit`/`UuidInit` are the init functions; `*New` assigns only when init returned, `*Construct` runs init on the held object. Clock reads and arguments are inputs. `timeThrew`/`uuidThrew` are history: did the last constructor on the object throw. |
| `MC_*` | model values and bounds for TLC | |

## Runs

| Run | Checks | Result |
|---|---|---|
| `set_current_after_remove` (`MC_PhpSet_current.cfg`) | `CurrentReturnsMember` | **violated**: `add(x); rewind(); remove(x); current()` reads the freed entry |
| `set_foreach` (`MC_SetForeach.cfg`) | `ForeachVisitsEachOnce` (no element visited twice; every element present at the start and never removed is visited), `ImplementsValueSet`, `TempLive` (next()'s pointer is never dangling), `HashCacheFresh` (a clean memoised hash equals the hash of the current contents), `CompareIsSetEquality` (after the loop, the compare handler returns 0 for `$set` against `$copy`, in either order, exactly when they hold the same values; it compares counts and then looks each value of one up in the other). Outside loops the script calls the data methods and `rewind`/`valid`/`next` in any order. | pass |
| `tinyint_arith` (`MC_FixedInt.cfg`) | `CheckedOpsExact` (add/sub/mul/abs/neg/compare raise exactly on overflow and are otherwise exact), `NonLongConstructExact` (a float or string constructor accepts exactly the values whose integral part is in range, with no fraction lost to the range check, and stores that part) | pass, all 65536 operand pairs |
| `smallint_div_overflow` (`MC_Smallint_div.cfg`) | `DivModExact` | **violated**: `-32768 / -1` returns -32768 (Tinyint: `-128 / -1`) |
| `smallint_construct_long` (`MC_Smallint_construct.cfg`) | `ConstructExact` | **violated**: an int of more than 32 bits whose low word is in range is accepted |
| `tuple_hash` (`MC_Tuple.cfg`) | `TypeOK`, `HashAgreesWithCompare` (tuples that compare equal have equal hashes, memoised or fresh) | pass |
| `udt_compare` (`MC_UserTypeValue_compare.cfg`) | `CompareIsValueEquality` | **violated**: `{a: 1, b: 2}` and `{a: 2, b: 1}`, with their fields set in opposite orders, compare equal. Tuple has the same loop. |
| `log_registered` (`MC_DriverLifecycle.cfg`, globals registered) | `TypeOK`, `LockInitBeforeUse`, `LocationStableDuringCopy` (no step of `OnUpdateLog` that frees and replaces `log_location`, and no `log_cleanup`, happens while a `php_driver_log` call is between its read lock and its copy), `OnUpdateLogCompletes` (under `FairSpec`, start-up reaches `running` and every `OnUpdateLog` that wants the write lock gets it and releases it), `ShutdownCompletes` (once the engine starts destroying the persistent list, module shutdown is reached, every session destructor's join returns, and `persistent_clusters` and `persistent_sessions` are back at 0) | pass, including persistent clusters and sessions destroyed in the engine's order before GSHUTDOWN destroys the lock |
| `log_lock_uninit` (`MC_DriverLifecycle_lock.cfg`, as built) | `LockInitBeforeUse` | **violated**: `OnUpdateLog` write-locks `log_lock` at MINIT, and nothing has initialised it |
| `ssl_build_php8` (`MC_SslBuilder_php8.cfg`) | `TypeOK`, `BuildCompleteOrThrows`, `BuildKeyPassphrase` (a completed build gave the driver the passphrase of the `withPrivateKey` call that recorded the key, none if that call had none) | pass: whatever happens to the files after `with*()` checked them, `build()` loads every recorded file or throws, and an earlier key's passphrase never travels with a later key |
| `ssl_build_partial` (`MC_SslBuilder.cfg`, `EmptyIsNull`) | `BuildCompleteOrThrows` | **violated**: when `php_stream_copy_to_mem` returns NULL (for an empty file, as PHP before 8 does), `build()` returns without that file and those after it, and without an exception. Builder.c calls the PHP 8.1 `php_stat` signature (line 118), so on the PHP it compiles against only a NULL for another reason reaches this path; the missing exception at lines 41-43 is in the code either way |
| `temporal_values` (`MC_Temporal.cfg`) | `TypeOK`, `InvalidOnlyAfterThrow` (a `Time` outside `[0, 86399999999999]` or a `Timeuuid` of another version than 1 exists only after a constructor threw on that object), `CompareAgreesWithTime` (the compare handlers order objects as `seconds()`/`time()` do; Timeuuids compare equal only when equal) | pass |

Each property of a passing run has a mutant in `PROJECT.json`: a plausible bug in a mapped definition that TLC shows violates it.

Bounds:
- **Set runs:** three symmetric elements and at most four entry allocations. That is enough for a cursor on a removed element, a re-add behind the cursor, and a removal of the element next() moves to.
- **Tinyint:** the run enumerates the whole 8-bit domain.
- **Smallint:** operands are the extremes, their neighbours, the square-root boundary and the 8-bit boundaries.
- **Constructor inputs:** longs on both sides of each boundary, in the low and in the high word; floats at the two range ends and one past each, zero, both infinities and NaN; strings in range, out of the 8-bit range, beyond 32 bits and not numeric.
- **Tuple/UDT:** two objects of a two-key type, two values, and keys just outside the type (-1 and 2 for Tuple, an unknown field for UDT); the objects are symmetric. That is enough for two orders of setting two keys, overwrites, and a stale memo on either object.
- **Lifecycle:** the log values are syslog, empty, a writable file, an unwritable file and "sys". Each INI value is taken from these, so `ini_set` can race the log thread on every kind of destination. `MaxLogs` = 2 lets a message be logged before and after an `ini_set` while a writer waits. `MaxResources` = 2 allows a cluster and a session in either order, or two of a kind, so a session dtor runs both before and after another resource's.
- **Temporal:** two symmetric variables per class. `Time` ints are -1, 0, noon + 1 ns, the maximum and the maximum + 1; numeric strings are -1, noon + 1 ns and the maximum + 1, plus a malformed string and a wrong type. The clock is read at midnight and at the last nanosecond of a day two days after the epoch, and DateTimes are -1, 0 and two days + 5 s. `Timestamp` seconds are -1, 0 and 1, with microseconds -1500, 500000 and 1500000, plus two clock reads (0 s with 999999 µs, 2 s with 1500 µs) and a wrong-typed argument. `Timeuuid` arguments are two clock reads, the ints -1, 0 and 1500, a version-1 string, a version-4 string, a malformed string and a wrong type; there are two `clock_seq_and_node` values. This reaches every constructor path, a rejected value on each side of the range, and uuids that tie on time.
- **SSL:** two symmetric paths, at most two trusted certificates, and two file-system changes. That allows one change between `with*()` and `build()` and one between two reads of `build()`. Two passphrases (with the omitted one) give a key with a passphrase followed by one without, and two flag arguments, 1 and 2^32 + 1, that the cast narrows to the same int.

Fairness. Only `log_registered` checks liveness. Its `FairSpec` puts weak fairness on steps that each thread takes without waiting on outside input: module registration, the two MINIT handlers, each step of `OnUpdateLog` (lock, store, unlock), and the log thread's unlock and write after it copied the settings. The code justifies this: a running thread that holds no blocked lock keeps executing. The resource destructors and module shutdown are fair too: once the engine has begun shutting down, its thread runs them without waiting on a script. Fairness is not put on `ini_set` calls, on the driver deciding to log, or on the start of shutdown, because those depend on the script and the server. The driver logs at most `MaxLogs` (2) messages per behaviour. Without that bound, a reader-preferring rwlock could keep a writer waiting forever, and weak fairness cannot rule that out. The PHP value classes are sequential: one request thread calls methods one at a time, and every method terminates. The lifecycle runs disable the deadlock check because the process ends after module shutdown.

## Further observations, not run

- **Log level matching:** `OnUpdateLogLevel` (php_driver.c:351) matches by prefix over the value's length. `cassandra.log_level = "W"` gives WARN, and an empty value gives CRITICAL, i.e. logging disabled. The documented behaviour is "unknown → ERROR". `ParseLevel` models the prefix match.
- **Log destination:** with `NO_MODULE_GLOBALS` the log callback is never installed either, so `cassandra.log` has no effect.
- **Set hash:** it combines element hashes in insertion order, while Set compare ignores order (see hazards).
- **Set compare is not antisymmetric:** two Sets of one size whose contents differ compare as 1 in both orders (Set.c:446), so neither is less than the other, and `sort()` over such Sets depends on the input order.
- **Mutable elements in a Set:** `add()` shares a `Tuple` or `UserTypeValue` object with the caller (`ZVAL_COPY`, Set.c:47). A later `set()` on the object changes its hash while it stays in the Set's bucket for the old hash, so `has()` of an equal value can miss it. The Set models draw elements from immutable values.
- **Removing and re-adding the current element:** a `foreach` body that calls `remove($v); add($v)` appends the value behind the cursor, so the loop meets it again and never ends. `MaxEntries` bounds the entries a behaviour creates, which hides the unbounded loop.
- **Constructors mutate before they validate:** `InvalidOnlyAfterThrow` is the strongest statement that holds. The converse fails: `$t->__construct(-1)` on a held `Time` (Time.c:110) and `$u->__construct(<version-4 uuid>)` on a held `Timeuuid` (Timeuuid.c:59) throw, but leave the rejected value in the object. spec.md says validation failures leave the receiving wrapper unchanged.
- **Float constructors on aarch64:** with `Arch = "aarch64"` in `MC_FixedInt.cfg`, `NonLongConstructExact` fails: `new Tinyint(NAN)` (Tinyint.c:86) casts NaN to 0, passes the range check and holds 0 instead of throwing. On x86-64 the same cast yields `INT_MIN` and the constructor throws. The cast is undefined in C, so which happens depends on the target.
- **Timestamp before the epoch:** `time()`, `toDateTime()` and `microtime()` truncate toward zero. `new Timestamp(-1, 500000)` is -500 ms, and `time()` returns 0, not -1. `microtime()` returns `"-0.50000000 0"`, with a fraction that PHP's own `microtime()` never makes negative. The order is kept (`CompareAgreesWithTime`).
- **Timeuuid(ts)->time():** spec.md says it equals `ts`, and that `ts` is in milliseconds. `time()` returns `cass_uuid_timestamp / 1000` (Timeuuid.c:131), i.e. seconds. The generator `php_driver_uuid_generate_from_time` is not in the repository. If it takes milliseconds, as spec.md says, `time()` returns `ts / 1000`.

## Plan

Done: Set, Tinyint/Smallint (every constructor kind), Tuple/UserTypeValue, the lifecycle and logging with persistent resources and shutdown order, the SSL builder with flags and passphrase, and the temporal classes.

Left:
1. The Set hash against the compare handler; this needs `php_driver_combine_hash`, which is not in the repository.

Not modelled, and why:
- `Blob`, `SimpleStatement` and `Monotonic`: they have no state changes after construction.
- String formatting (`__toString`, `Timeuuid::uuid()`), `type()`, and the temporal hash handlers (`php_driver_bigint_hash` is not in the repository).
- The Windows and macOS clocks of `Time` and `Timestamp`: only the Linux clock is modelled.
- The element-type validation, the string parsers and `php_driver_combine_hash`: they are not under `src/`.
- MINFO and the class registration in MINIT.
- RINIT/RSHUTDOWN: they create and destroy a per-request type cache that no modelled operation reads.
- The free, properties and compare handlers of the SSL builder and of `SSLOptions`: they release what an object holds or read it, and change nothing a script sees.
- `exception_class`: it only chooses the class of an exception.
- The read-only conversions of `Tinyint` and `Smallint` (`value`, `toInt`, `toDouble`, the cast and properties handlers): they read the payload and change nothing.
