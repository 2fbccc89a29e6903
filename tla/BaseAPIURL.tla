----------------------------- MODULE BaseAPIURL -----------------------------
(***************************************************************************)
(* mapper.Handler.BaseAPIURL, which ToIndexModel turns into an https URL   *)
(* in place, on a Handler that the handlers of all partitions share and    *)
(* that nothing protects.                                                  *)
(*                                                                         *)
(* The URL is "http" s...s "://host".  A Go string is two words, the       *)
(* address of its bytes and its length; an assignment stores them one at a *)
(* time.  `bytes` is the number of s's of the bytes pointed to, `length`   *)
(* the number of s's the length leaves room for: they agree unless one of  *)
(* the two words is stale, and then the string is cut short or runs into   *)
(* the bytes that follow it.                                               *)
(***************************************************************************)
EXTENDS Naturals

CONSTANTS
    Handler,      \* the handlers that run at the same time
    Configured,   \* the base URLs considered, by their number of s's: 0, 1
    MaxDocuments  \* bound: documents each handler maps

ASSUME ConfiguredAssumption == Configured \subseteq {0, 1}
ASSUME MaxDocumentsAssumption == MaxDocuments \in Nat

VARIABLES
    configured,     \* the base URL given to the program; never changes
    bytes, length,  \* the two words of the shared string
    pc,             \* where each handler is in ToIndexModel
    arg,            \* the string each handler has read or computed
    mapped,         \* documents each handler has mapped
    urls            \* the base URLs of the documents mapped so far

vars == <<configured, bytes, length, pc, arg, mapped, urls>>

URL == [bytes : Nat, length : Nat]
BaseURL == [bytes |-> bytes, length |-> length]
Https   == [bytes |-> 1, length |-> 1]

Init ==
    /\ configured \in Configured
    /\ bytes = configured
    /\ length = configured
    /\ pc = [h \in Handler |-> "check"]
    /\ arg = [h \in Handler |-> BaseURL]
    /\ mapped = [h \in Handler |-> 0]
    /\ urls = {}

(* Mutant: "http" is looked for, without the "://".                        *)
HasHttpPrefixLoose(u) == u.bytes \in Nat

HasHttpPrefix(u) == u.bytes = 0

(* strings.HasPrefix(h.BaseAPIURL, "http://")                              *)
Check(h) ==
    /\ pc[h] = "check"
    /\ mapped[h] < MaxDocuments
    /\ arg' = [arg EXCEPT ![h] = BaseURL]
    /\ pc' = [pc EXCEPT ![h] =
                 IF HasHttpPrefix(BaseURL) THEN "replace" ELSE "populate"]
    /\ UNCHANGED <<configured, bytes, length, mapped, urls>>

Secured(u) == [bytes |-> u.bytes + 1, length |-> u.length + 1]

(* strings.Replace(h.BaseAPIURL, "http", "https", 1).  The build may read  *)
(* the field again or use what the check has read.                         *)
Replace(h) ==
    /\ pc[h] = "replace"
    /\ \E u \in {arg[h], BaseURL} : arg' = [arg EXCEPT ![h] = Secured(u)]
    /\ pc' = [pc EXCEPT ![h] = "assign"]
    /\ UNCHANGED <<configured, bytes, length, mapped, urls>>

(* Mutant: the result of Replace is not assigned.                          *)
AssignNothing(h) ==
    /\ pc[h] = "assign"
    /\ pc' = [pc EXCEPT ![h] = "populate"]
    /\ UNCHANGED <<configured, bytes, length, arg, mapped, urls>>

(* The first word of the assignment, whichever it is; then the other.      *)
Assign(h) ==
    /\ pc[h] = "assign"
    /\ \/ /\ length' = arg[h].length
          /\ pc' = [pc EXCEPT ![h] = "bytes"]
          /\ UNCHANGED bytes
       \/ /\ bytes' = arg[h].bytes
          /\ pc' = [pc EXCEPT ![h] = "length"]
          /\ UNCHANGED length
    /\ UNCHANGED <<configured, arg, mapped, urls>>

AssignOther(h) ==
    /\ pc[h] \in {"bytes", "length"}
    /\ bytes' = IF pc[h] = "bytes" THEN arg[h].bytes ELSE bytes
    /\ length' = IF pc[h] = "length" THEN arg[h].length ELSE length
    /\ pc' = [pc EXCEPT ![h] = "populate"]
    /\ UNCHANGED <<configured, arg, mapped, urls>>

(* populateContentRelatedFields reads the field once more for ModelAPIURL. *)
Populate(h) ==
    /\ pc[h] = "populate"
    /\ urls' = urls \cup {BaseURL}
    /\ mapped' = [mapped EXCEPT ![h] = @ + 1]
    /\ pc' = [pc EXCEPT ![h] = "check"]
    /\ UNCHANGED <<configured, bytes, length, arg>>

ToIndexModel(h) ==
    Check(h) \/ Replace(h) \/ Assign(h) \/ AssignOther(h) \/ Populate(h)

Next == \E h \in Handler : ToIndexModel(h)

Spec == Init /\ [][Next]_vars

-----------------------------------------------------------------------------
TypeOK ==
    /\ configured \in Configured
    /\ bytes \in Nat /\ length \in Nat
    /\ pc \in [Handler -> {"check", "replace", "assign", "bytes", "length",
                           "populate"}]
    /\ arg \in [Handler -> URL]
    /\ mapped \in [Handler -> 0 .. MaxDocuments]
    /\ urls \subseteq URL

(* The model_api_url of every document is the https form of the configured *)
(* URL, as the expected models of mapper_test.go have it                   *)
(* (test/testdata/testElasticModel1.json:27), however many handlers run.   *)
EveryDocumentHttps == urls \subseteq {Https}

(* With an https base URL, as by default, the field is never written and    *)
(* what is said above is true.                                             *)
HttpsIsKept == configured = 1 => EveryDocumentHttps

(* What the handlers cannot spoil for each other: once one of them has     *)
(* mapped a document, no bytes of a plain http URL are ever read again.    *)
NeverPlainHttp == \A u \in urls : u.bytes > 0

=============================================================================
