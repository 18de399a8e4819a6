----------------------------- MODULE SslBuilder -----------------------------
(***************************************************************************)
(* Cassandra\SSLOptions\Builder (src/ext/src/SSLOptions/Builder.c).        *)
(*                                                                         *)
(* The with*() methods check with php_stat that a path is readable and    *)
(* record it; build() later opens and reads each recorded file and hands  *)
(* its contents to the driver's CassSsl.  Between the two, and between    *)
(* two reads of build(), other processes may change the files: the file   *)
(* system is the environment, and each of its changes is a step.  build() *)
(* is split into one step per file it reads.                              *)
(*                                                                         *)
(* A file's content is abstracted to what decides the outcome: missing,  *)
(* empty, a valid PEM item, or invalid content the driver rejects.        *)
(***************************************************************************)
EXTENDS Naturals, Sequences, FiniteSets

CONSTANTS
    Paths,          \* file names a script may pass
    MaxCerts,       \* bound on the number of trusted certificates
    MaxEnvChanges,  \* bound on file-system changes
    None,           \* no path recorded
    EmptyIsNull,    \* php_stream_copy_to_mem returns NULL for an empty
                    \* stream (PHP 7) rather than "" (PHP 8)
    Passphrases,    \* passphrases a script may pass to withPrivateKey
    FlagInputs      \* integers a script may pass to withVerifyFlags

Contents == {"missing", "empty", "valid", "invalid"}
Readable == Contents \ {"missing"}

VARIABLES
    files,      \* path -> content
    envChanges, \* file-system changes so far
    trusted,    \* builder->trusted_certs
    clientCert, \* builder->client_cert
    privateKey, \* builder->private_key
    bpc,        \* build(): the item it reads next, 0 when not running
    loaded,     \* items the CassSsl being built has received
    outcome,    \* how the last method call ended, if it was build():
                \* "returned" or "threw"; "none" for any other call
    flags,      \* builder->flags
    passphrase, \* builder->passphrase (None when NULL)
    keyPass,    \* the passphrase argument of the withPrivateKey call
                \* that recorded privateKey (None when omitted); history
    sslFlags,   \* verify flags the CassSsl being built received
    sslPass     \* passphrase the CassSsl received with the private key

vars == <<files, envChanges, trusted, clientCert, privateKey, bpc, loaded, outcome,
          flags, passphrase, keyPass, sslFlags, sslPass>>
keyVars == <<flags, passphrase, keyPass, sslFlags, sslPass>>

\* builder->flags = (int) flags: a zend_long narrowed to 32 bits.  TLC
\* integers are 32 bits wide, so a long argument is given as its two
\* halves [hi, lo], lo being the low word read as a signed int; the cast
\* keeps lo and drops hi.
IntCast(l) == l.lo

\* The items build() loads, numbered in the order it loads them: the
\* trusted certificates by index, then the client certificate, then the
\* private key.  Item 0 stands for "no item" (build() not running).
ClientItem == MaxCerts + 1
KeyItem == MaxCerts + 2
Items == 1..KeyItem

Configured ==
    (1..Len(trusted))
    \cup (IF clientCert # None THEN {ClientItem} ELSE {})
    \cup (IF privateKey # None THEN {KeyItem} ELSE {})

PathOf(i) == CASE i = ClientItem -> clientCert
               [] i = KeyItem -> privateKey
               [] OTHER -> trusted[i]

\* The configured item build() reads after item i, or 0 at the end.
After(i) ==
    LET rest == {j \in Configured : j > i}
    IN  IF rest = {} THEN 0 ELSE CHOOSE j \in rest : \A k \in rest : j <= k

TypeOK ==
    /\ files \in [Paths -> Contents]
    /\ envChanges \in 0..MaxEnvChanges
    /\ trusted \in Seq(Paths) /\ Len(trusted) <= MaxCerts
    /\ clientCert \in Paths \cup {None}
    /\ privateKey \in Paths \cup {None}
    /\ bpc \in 0..KeyItem
    /\ loaded \subseteq Items
    /\ outcome \in {"none", "returned", "threw"}
    /\ flags \in {IntCast(f) : f \in FlagInputs} \cup {0}
    /\ passphrase \in Passphrases \cup {None}
    /\ keyPass \in Passphrases \cup {None}
    /\ sslFlags \in {IntCast(f) : f \in FlagInputs} \cup {0}
    /\ sslPass \in Passphrases \cup {None}

\* A new builder (php_driver_ssl_builder_new) records nothing; the files
\* exist in any state.
Init ==
    /\ files \in [Paths -> Contents]
    /\ envChanges = 0
    /\ trusted = <<>>
    /\ clientCert = None
    /\ privateKey = None
    /\ bpc = 0
    /\ loaded = {}
    /\ outcome = "none"
    /\ flags = 0
    /\ passphrase = None
    /\ keyPass = None
    /\ sslFlags = 0
    /\ sslPass = None

\* Another process creates, truncates, rewrites or deletes a file.
EnvChange ==
    /\ envChanges < MaxEnvChanges
    /\ \E p \in Paths, c \in Contents : files' = [files EXCEPT ![p] = c]
    /\ envChanges' = envChanges + 1
    /\ UNCHANGED <<trusted, clientCert, privateKey, bpc, loaded, outcome>>
    /\ UNCHANGED keyVars

\* Mutant of WithTrustedCerts: the new paths are added to the recorded
\* list instead of replacing it.
WithTrustedCertsAppend(ps) ==
    /\ bpc = 0
    /\ IF \A i \in 1..Len(ps) : files[ps[i]] \in Readable
         THEN trusted' = trusted \o ps
         ELSE UNCHANGED trusted
    /\ outcome' = "none"
    /\ UNCHANGED <<files, envChanges, clientCert, privateKey, bpc, loaded>>
    /\ UNCHANGED keyVars

\* withTrustedCerts(p1, ...): every path is checked readable first; the
\* first unreadable one throws and leaves the builder as it was; otherwise
\* the recorded list is replaced.
WithTrustedCerts(ps) ==
    /\ bpc = 0
    /\ IF \A i \in 1..Len(ps) : files[ps[i]] \in Readable
         THEN trusted' = ps
         ELSE UNCHANGED trusted
    /\ outcome' = "none"
    /\ UNCHANGED <<files, envChanges, clientCert, privateKey, bpc, loaded>>
    /\ UNCHANGED keyVars

\* withClientCert(p): checked readable, then recorded.
WithClientCert(p) ==
    /\ bpc = 0
    /\ clientCert' = IF files[p] \in Readable THEN p ELSE clientCert
    /\ outcome' = "none"
    /\ UNCHANGED <<files, envChanges, trusted, privateKey, bpc, loaded>>
    /\ UNCHANGED keyVars

\* withVerifyFlags(flags): the bitmask is stored, narrowed to an int.
WithVerifyFlags(f) ==
    /\ bpc = 0
    /\ flags' = IntCast(f)
    /\ outcome' = "none"
    /\ UNCHANGED <<files, envChanges, trusted, clientCert, privateKey, bpc, loaded>>
    /\ UNCHANGED <<passphrase, keyPass, sslFlags, sslPass>>

\* Mutant of WithPrivateKey: the old passphrase is freed only when a new
\* one is given, so an omitted passphrase keeps the previous key's.
WithPrivateKeyKeepPass(p, pw) ==
    /\ bpc = 0
    /\ files[p] \in Readable
    /\ privateKey' = p
    /\ passphrase' = IF pw # None THEN pw ELSE passphrase
    /\ keyPass' = pw
    /\ outcome' = "none"
    /\ UNCHANGED <<files, envChanges, trusted, clientCert, bpc, loaded>>
    /\ UNCHANGED <<flags, sslFlags, sslPass>>

\* withPrivateKey(p [, pw]): an unreadable path throws and leaves the
\* builder as it was; otherwise the key is recorded, the old passphrase
\* freed and reset to NULL, and the new one (if given) stored.  pw = None
\* is the call without a passphrase.
WithPrivateKey(p, pw) ==
    /\ bpc = 0
    /\ IF files[p] \in Readable
         THEN /\ privateKey' = p
              /\ passphrase' = pw
              /\ keyPass' = pw
         ELSE UNCHANGED <<privateKey, passphrase, keyPass>>
    /\ outcome' = "none"
    /\ UNCHANGED <<files, envChanges, trusted, clientCert, bpc, loaded>>
    /\ UNCHANGED <<flags, sslFlags, sslPass>>

\* php_driver_ssl_new: the SSLOptions object wraps a fresh CassSsl
\* (cass_ssl_new), which holds no certificate, key or passphrase.
NewSsl == loaded' = {} /\ sslPass' = None

\* build(): a new SSLOptions (object_init_ex), verify flags set, then one
\* file per step.
BuildStart ==
    /\ bpc = 0
    /\ NewSsl
    /\ sslFlags' = flags
    /\ IF After(0) = 0
         THEN /\ outcome' = "returned"
              /\ UNCHANGED bpc
         ELSE /\ bpc' = After(0)
              /\ outcome' = "none"
    /\ UNCHANGED <<files, envChanges, trusted, clientCert, privateKey>>
    /\ UNCHANGED <<flags, passphrase, keyPass>>

\* Mutant of LoadResults: a file that cannot be opened makes
\* file_get_contents return 0 without throwing.
LoadResultsNoThrow(c) ==
    CASE c = "missing" -> {"returned"}
      [] c = "empty"   -> IF EmptyIsNull THEN {"returned"} ELSE {"threw"}
      [] c = "invalid" -> {"threw"}
      [] c = "valid"   -> {"loaded"}

\* Outcome of file_get_contents plus the driver call on content c:
\* "threw", "returned" (file_get_contents returned 0 with no exception, and
\* build() returns), or "loaded".
LoadResults(c) ==
    CASE c = "missing" -> {"threw"}
      [] c = "empty"   -> IF EmptyIsNull THEN {"returned"} ELSE {"threw"}
      [] c = "invalid" -> {"threw"}
      [] c = "valid"   -> {"loaded"}

\* file_get_contents then cass_ssl_add_trusted_cert_n / set_cert_n /
\* set_private_key for item bpc.  A file that cannot be opened throws; an
\* empty one makes php_stream_copy_to_mem return NULL (PHP 7) and
\* file_get_contents returns 0 with no exception, so build() returns; PHP 8
\* returns "" for it, which the driver rejects like invalid content, and
\* ASSERT_SUCCESS throws.
BuildLoad ==
    /\ bpc # 0
    /\ \E r \in LoadResults(files[PathOf(bpc)]) :
          IF r = "loaded"
            THEN /\ loaded' = loaded \cup {bpc}
                 /\ sslPass' = IF bpc = KeyItem THEN passphrase ELSE sslPass
                 /\ bpc' = After(bpc)
                 /\ outcome' = IF After(bpc) = 0 THEN "returned" ELSE "none"
            ELSE /\ outcome' = r /\ bpc' = 0 /\ UNCHANGED <<loaded, sslPass>>
    /\ UNCHANGED <<files, envChanges, trusted, clientCert, privateKey>>
    /\ UNCHANGED <<flags, passphrase, keyPass, sslFlags>>

Next ==
    \/ EnvChange
    \/ \E n \in 1..MaxCerts : \E ps \in [1..n -> Paths] : WithTrustedCerts(ps)
    \/ \E p \in Paths : WithClientCert(p)
    \/ \E p \in Paths, pw \in Passphrases \cup {None} : WithPrivateKey(p, pw)
    \/ \E f \in FlagInputs : WithVerifyFlags(f)
    \/ BuildStart \/ BuildLoad

Spec == Init /\ [][Next]_vars

-----------------------------------------------------------------------------
(* Properties.                                                             *)

\* A build() that returns an SSLOptions without throwing has given the
\* driver every certificate and key the builder recorded (spec: TLS
\* material is loaded or the call fails), whatever happened to the files
\* between the with*() checks and the reads of build().
BuildCompleteOrThrows ==
    outcome = "returned" /\ bpc = 0 => loaded = Configured

\* A build() that has handed the private key to the driver gave it the
\* passphrase of the withPrivateKey call that recorded that key, and no
\* passphrase if that call had none: a passphrase left over from an
\* earlier key, or from a later call that failed its readability check,
\* is never used (withPrivateKey, builder->passphrase reset).
BuildKeyPassphrase ==
    outcome = "returned" /\ KeyItem \in loaded => sslPass = keyPass
=============================================================================
