---------------------------- MODULE RemoteConfig ----------------------------
(***************************************************************************)
(* load_config (config.py): a node that starts fetches its configuration   *)
(* over HTTPS, or reads the local file; a fetched one replaces the file.   *)
(* The nodes of a cluster may keep that file on one shared volume, and a   *)
(* node may lose power at any point.                                       *)
(***************************************************************************)
EXTENDS Integers, FiniteSets

CONSTANTS
    Nodes,
    Docs,           \* what servers and files may contain
    Valid,          \* those that parse_config_text accepts
    MaxRedirects,   \* MAX_REMOTE_CONFIG_REDIRECTS
    MaxBoots,       \* bound: starts of a node, of all nodes together
    None, Torn

ASSUME ValidAssumption == Valid \subseteq Docs
ASSUME RedirectsAssumption == MaxRedirects \in Nat /\ MaxBoots \in Nat
ASSUME NoneAssumption == None \notin Docs /\ Torn \notin Docs /\ None # Torn

VARIABLES
    at,         \* where load_config is
    source,     \* is YEETLLM_CONFIG_URL set?
    url,        \* does current_url pass validate_config_url ("https")?
    pin,        \* YEETLLM_CONFIG_SHA256, by the document it stands for
    hops,       \* redirect_count
    got,        \* the configuration in hand
    temp,       \* the node's temporary file
    file,       \* the file at config_path, and whether it is on disk
    boots,
    contacted,  \* history: URLs a request was sent to
    fetched     \* history: the document this start received

vars == <<at, source, url, pin, hops, got, temp, file, boots, contacted, fetched>>

Schemes == {"https", "refused"}
Files == [doc : Docs \union {None, Torn}, durable : BOOLEAN]

\* What the variables hold; a fetch follows at most MaxRedirects redirects
\* (config.py:450-472).
TypeOK ==
    /\ at \in [Nodes -> {"down", "fetch", "parse", "write", "rename", "running"}]
    /\ source \in [Nodes -> {"url", "local"}]
    /\ url \in [Nodes -> Schemes]
    /\ pin \in [Nodes -> Docs \union {None}]
    /\ hops \in [Nodes -> 0..MaxRedirects]
    /\ got \in [Nodes -> Docs \union {None, Torn}]
    /\ temp \in [Nodes -> Files \union {None}]
    /\ file \in Files
    /\ boots \in 0..MaxBoots
    /\ contacted \subseteq Schemes
    /\ fetched \in [Nodes -> Docs \union {None}]

Init ==
    /\ at = [n \in Nodes |-> "down"]
    /\ source = [n \in Nodes |-> "local"]
    /\ url = [n \in Nodes |-> "https"]
    /\ pin = [n \in Nodes |-> None]
    /\ hops = [n \in Nodes |-> 0]
    /\ got = [n \in Nodes |-> None]
    /\ temp = [n \in Nodes |-> None]
    /\ file \in [doc : Docs \union {None}, durable : {TRUE}]
    /\ boots = 0 /\ contacted = {}
    /\ fetched = [n \in Nodes |-> None]

---------------------------------------------------------------------------

\* RuntimeValidationError: the command ends before anything else is started.
Abort(n) == at' = [at EXCEPT ![n] = "down"]

Boot(n, s, u, p) ==
    /\ at[n] = "down" /\ boots < MaxBoots /\ boots' = boots + 1
    /\ s = "local" => p = None /\ u = "https"    \* a digest without a URL is refused
    /\ at' = [at EXCEPT ![n] = IF s = "url" THEN "fetch" ELSE "parse"]
    /\ source' = [source EXCEPT ![n] = s]
    /\ url' = [url EXCEPT ![n] = u]
    /\ pin' = [pin EXCEPT ![n] = p]
    /\ hops' = [hops EXCEPT ![n] = 0]
    /\ got' = [got EXCEPT ![n] = IF s = "url" THEN None ELSE file.doc]
    /\ fetched' = [fetched EXCEPT ![n] = None]
    /\ UNCHANGED <<temp, file, contacted>>

\* validate_config_url, before the first request and after every redirect.
Acceptable_FirstOnly(n) == hops[n] > 0 \/ url[n] = "https"
Acceptable(n) == url[n] = "https"

RefuseUrl(n) ==
    /\ at[n] = "fetch" /\ ~Acceptable(n) /\ Abort(n)
    /\ UNCHANGED <<source, url, pin, hops, got, temp, file, boots, contacted, fetched>>

Contact(n) ==
    /\ at[n] = "fetch" /\ Acceptable(n)
    /\ contacted' = contacted \union {url[n]}

Redirect(n, u) ==
    /\ Contact(n)
    /\ IF hops[n] = MaxRedirects
       THEN Abort(n) /\ UNCHANGED <<url, hops>>
       ELSE /\ url' = [url EXCEPT ![n] = u] /\ hops' = [hops EXCEPT ![n] = @ + 1]
            /\ UNCHANGED at
    /\ UNCHANGED <<source, pin, got, temp, file, boots, fetched>>

\* A status, a size, a timeout or a broken connection the loop raises for.
FetchFails_FallsBack(n) ==
    /\ Contact(n)
    /\ IF file.doc = None THEN Abort(n) /\ UNCHANGED got
       ELSE at' = [at EXCEPT ![n] = "parse"] /\ got' = [got EXCEPT ![n] = file.doc]
    /\ UNCHANGED <<source, url, pin, hops, temp, file, boots, fetched>>
FetchFails(n) ==
    /\ Contact(n) /\ Abort(n)
    /\ UNCHANGED <<source, url, pin, hops, got, temp, file, boots, fetched>>

\* The body is complete; the digest decides.
Receive(n, d) ==
    /\ Contact(n)
    /\ fetched' = [fetched EXCEPT ![n] = d]
    /\ IF pin[n] \in {None, d}
       THEN at' = [at EXCEPT ![n] = "parse"] /\ got' = [got EXCEPT ![n] = d]
       ELSE Abort(n) /\ UNCHANGED got
    /\ UNCHANGED <<source, url, pin, hops, temp, file, boots>>

\* A fetched document is persisted after it has been parsed.
Parse_AfterWrite(n) ==
    /\ at[n] = "parse"
    /\ at' = [at EXCEPT ![n] =
          IF source[n] = "url" THEN "write" ELSE IF got[n] \in Valid THEN "running" ELSE "down"]
    /\ UNCHANGED <<source, url, pin, hops, got, temp, file, boots, contacted, fetched>>
Parse(n) ==
    /\ at[n] = "parse"
    /\ at' = [at EXCEPT ![n] =
          IF got[n] \notin Valid THEN "down"
          ELSE IF source[n] = "url" THEN "write" ELSE "running"]
    /\ UNCHANGED <<source, url, pin, hops, got, temp, file, boots, contacted, fetched>>

\* mkstemp, write, flush and fsync.
Write_NoSync(n) ==
    /\ at[n] = "write" /\ at' = [at EXCEPT ![n] = "rename"]
    /\ temp' = [temp EXCEPT ![n] = [doc |-> got[n], durable |-> FALSE]]
    /\ UNCHANGED <<source, url, pin, hops, got, file, boots, contacted, fetched>>
Write(n) ==
    /\ at[n] = "write" /\ at' = [at EXCEPT ![n] = "rename"]
    /\ temp' = [temp EXCEPT ![n] = [doc |-> got[n], durable |-> TRUE]]
    /\ UNCHANGED <<source, url, pin, hops, got, file, boots, contacted, fetched>>

Rename(n) ==
    /\ at[n] = "rename" /\ at' = [at EXCEPT ![n] = "running"]
    /\ file' = temp[n] /\ temp' = [temp EXCEPT ![n] = None]
    /\ UNCHANGED <<source, url, pin, hops, got, boots, contacted, fetched>>

\* An OSError on the way; `finally` unlinks the temporary file.
PersistFails(n) ==
    /\ at[n] \in {"write", "rename"} /\ Abort(n)
    /\ temp' = [temp EXCEPT ![n] = None]
    /\ UNCHANGED <<source, url, pin, hops, got, file, boots, contacted, fetched>>

\* The container ends, or the power goes: what is not on disk is lost.
Lose(f) == IF f # None /\ ~f.durable THEN [doc |-> Torn, durable |-> TRUE] ELSE f

Ends(n) ==
    /\ at[n] # "down" /\ Abort(n)
    /\ temp' = [temp EXCEPT ![n] = IF at[n] = "rename" THEN Lose(@) ELSE @]
    /\ file' = Lose(file)
    /\ UNCHANGED <<source, url, pin, hops, got, boots, contacted, fetched>>

---------------------------------------------------------------------------

Load(n) ==
    \/ \E s \in {"url", "local"}, u \in Schemes, p \in Docs \union {None} : Boot(n, s, u, p)
    \/ RefuseUrl(n) \/ FetchFails(n) \/ Parse(n)
    \/ \E u \in Schemes : Redirect(n, u)
    \/ \E d \in Docs : Receive(n, d)
    \/ Write(n) \/ Rename(n) \/ PersistFails(n)

Terminated == boots = MaxBoots /\ (\A n \in Nodes : at[n] = "down") /\ UNCHANGED vars
Next == (\E n \in Nodes : Load(n) \/ Ends(n)) \/ Terminated
Spec == Init /\ [][Next]_vars

---------------------------------------------------------------------------

\* YeetLLM never silently falls back to a stale local file (README.md:703-704):
\* a node started from a URL runs the document that this very start received,
\* whatever other nodes have put into the shared file meanwhile, and the pinned
\* one if there is a pin (config.py:377-395, 510-513).  And it was fetched over
\* HTTPS alone, wherever redirects led (config.py:452, 472).
RunsWhatItFetched ==
    /\ contacted \subseteq {"https"}
    /\ \A n \in Nodes :
          at[n] = "running" /\ source[n] = "url"
              => got[n] = fetched[n] /\ pin[n] \in {None, got[n]}

\* The file is whole at every moment, after a loss of power too: the data is on
\* disk before the rename makes it the configuration (config.py:543-547).
FileIsWhole == file.doc # Torn

\* Only a document that parses ever replaces the file (config.py:394-395), with
\* several nodes writing it and some of them failing half-way.
ParsedBeforePersisted == [][file'.doc # file.doc => file'.doc \in Valid]_vars
=============================================================================
