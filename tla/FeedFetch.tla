------------------------------ MODULE FeedFetch ------------------------------
(***************************************************************************)
(* One download of a feed document (feeds/feed_fetch.py): every hop's       *)
(* target is checked, redirects are followed by hand, the body is read      *)
(* chunk by chunk, and a total deadline is looked at between the calls that *)
(* block.  The deadline interrupts none of them, and the timeouts bound one *)
(* wait on a socket, not a call: session.send resolves the name once more,  *)
(* which has no timeout, tries one address after the other, and reads the   *)
(* answer (of a redirect, its body too) in as many pieces as the server     *)
(* cares to send.  What the code leaves open is bounded by constants.       *)
(***************************************************************************)
EXTENDS Integers

CONSTANTS
  Urls,
  Form,              \* [Urls -> UrlForms]: what can be said of one without DNS
  ConnectTimeout, ReadTimeout, TotalTimeout, MaxBytes, MaxRedirects,  \* the policy
  ResolveTime,       \* bound: what one getaddrinfo takes
  MaxAddresses,      \* bound: addresses a name resolves to
  MaxReads,          \* bound: reads of the socket one call makes
  ChunkSizes         \* bound: sizes of the chunks a server sends

UrlForms == {"ok", "unpreparable", "invalid_url", "blocked_port"}

ASSUME FetchAssumption ==
  /\ Form \in [Urls -> UrlForms]
  /\ {ConnectTimeout, ReadTimeout, TotalTimeout, MaxBytes, MaxRedirects} \subseteq Int
  /\ ResolveTime \in Nat /\ ChunkSizes \subseteq Nat
  /\ {MaxAddresses, MaxReads} \subseteq Nat \ {0}

VARIABLES
  fetchStep,         \* where the download is
  url,               \* the target of the request under way
  redirects,         \* redirects_followed
  reply,             \* its status, length header and encoding
  bodySize,          \* bytes of the body
  elapsed,           \* time since the download began
  result             \* "document" or the code of the FeedFetchError

fetchVars == <<fetchStep, url, redirects, reply, bodySize, elapsed, result>>

Codes == {"invalid_policy", "invalid_url", "blocked_port", "dns_failure",
          "blocked_target", "timeout", "tls_failure", "network_failure",
          "redirect_limit", "invalid_redirect", "http_failure",
          "unsupported_encoding", "response_too_large", "invalid_content"}

NoResult == "none"
NoLength == MaxBytes + 2
Replies == [status: {"none", "redirect", "success", "failure"},
            location: Urls \cup {"none"},
            identity: BOOLEAN,               \* Content-Encoding
            length: {NoLength, MaxBytes, MaxBytes + 1}]
NoReply == [status |-> "none", location |-> "none", identity |-> TRUE, length |-> NoLength]

(* _check_deadline                                                           *)
Late(now) == now >= TotalTimeout

(* _validate_policy                                                          *)
PolicyValid ==
  /\ ConnectTimeout > 0 /\ ReadTimeout > 0 /\ TotalTimeout > 0
  /\ MaxBytes > 0 /\ MaxRedirects >= 0

(* The longest call that only reads, each read with its own timeout.         *)
ReadTime == MaxReads * ReadTimeout

(* The longest session.send: the name again, every address with the whole    *)
(* connect timeout, the TLS handshake, and the answer.                       *)
SendTime == ResolveTime + (MaxAddresses + 1) * ConnectTimeout + ReadTime

End(outcome) == fetchStep' = "done" /\ result' = outcome
Goto(next) == fetchStep' = next /\ UNCHANGED result

-----------------------------------------------------------------------------
FetchInit ==
  /\ fetchStep = "start"
  /\ url \in Urls
  /\ redirects = 0 /\ bodySize = 0 /\ elapsed = 0
  /\ reply = NoReply
  /\ result = NoResult

Start ==
  /\ fetchStep = "start"
  /\ \/ ~PolicyValid /\ End("invalid_policy")
     \/ PolicyValid /\ Form[url] = "unpreparable" /\ End("invalid_url")
     \/ PolicyValid /\ Form[url] # "unpreparable" /\ Goto("resolve")
  /\ UNCHANGED <<url, redirects, reply, bodySize, elapsed>>

(* The first check of the deadline, then _validate_target.                   *)
Resolve ==
  /\ fetchStep = "resolve"
  /\ \/ Late(elapsed) /\ End("timeout") /\ UNCHANGED elapsed
     \/ /\ ~Late(elapsed) /\ Form[url] # "ok"
        /\ End(Form[url]) /\ UNCHANGED elapsed
     \/ /\ ~Late(elapsed) /\ Form[url] = "ok"
        /\ \E d \in 0..ResolveTime : elapsed' = elapsed + d
        /\ \/ Goto("send")
           \/ \E code \in {"dns_failure", "blocked_target"} : End(code)
  /\ UNCHANGED <<url, redirects, reply, bodySize>>

(* What session.send makes of the server.                                    *)
Answer ==
  \/ \E code \in {"timeout", "tls_failure", "network_failure"} :
       End(code) /\ UNCHANGED reply
  \/ /\ reply' \in {r \in Replies : r.status # "none" /\ (r.status # "redirect" => r.location = "none")}
     /\ Goto("reply")

(* Plausible bug: no look at the deadline after the name was resolved.       *)
SendAnyway ==
  /\ fetchStep = "send"
  /\ \E d \in 0..SendTime : elapsed' = elapsed + d
  /\ Answer
  /\ UNCHANGED <<url, redirects, bodySize>>

Send ==
  /\ fetchStep = "send"
  /\ \/ Late(elapsed) /\ End("timeout") /\ UNCHANGED <<elapsed, reply>>
     \/ /\ ~Late(elapsed)
        /\ \E d \in 0..SendTime : elapsed' = elapsed + d
        /\ Answer
  /\ UNCHANGED <<url, redirects, bodySize>>

Redirect ==
  /\ fetchStep = "reply" /\ reply.status = "redirect"
  /\ UNCHANGED <<bodySize, elapsed>>
  /\ IF redirects < MaxRedirects /\ reply.location # "none"
        /\ Form[reply.location] # "unpreparable"
     THEN /\ url' = reply.location
          /\ redirects' = redirects + 1
          /\ reply' = NoReply
          /\ Goto("resolve")
     ELSE /\ End(IF redirects >= MaxRedirects THEN "redirect_limit"
                 ELSE "invalid_redirect")
          /\ UNCHANGED <<url, redirects, reply>>

(* The status, and _read_bounded up to its first check of the deadline.      *)
Accept ==
  /\ fetchStep = "reply" /\ reply.status # "redirect"
  /\ \/ reply.status = "failure" /\ End("http_failure")
     \/ reply.status = "success" /\ ~reply.identity /\ End("unsupported_encoding")
     \/ /\ reply.status = "success" /\ reply.identity
        /\ IF reply.length # NoLength /\ reply.length > MaxBytes
           THEN End("response_too_large")
           ELSE IF Late(elapsed) THEN End("timeout") ELSE Goto("body")
  /\ UNCHANGED <<url, redirects, reply, bodySize, elapsed>>

Chunk ==
  /\ fetchStep = "body"
  /\ \E d \in 0..ReadTime, n \in ChunkSizes :
       /\ elapsed' = elapsed + d
       /\ IF Late(elapsed') THEN End("timeout") /\ UNCHANGED bodySize
          ELSE IF bodySize + n > MaxBytes
          THEN End("response_too_large") /\ UNCHANGED bodySize
          ELSE bodySize' = bodySize + n /\ Goto("body")
  /\ UNCHANGED <<url, redirects, reply>>

(* The last read finds the end of the body, whatever time it is.             *)
EndOfBody ==
  /\ fetchStep = "body"
  /\ \E d \in 0..ReadTime : elapsed' = elapsed + d
  /\ End(IF bodySize = 0 THEN "invalid_content" ELSE "document")
  /\ UNCHANGED <<url, redirects, reply, bodySize>>

(* _classify_stream_error                                                    *)
StreamBreaks ==
  /\ fetchStep = "body"
  /\ \E d \in 0..ReadTime : elapsed' = elapsed + d
  /\ \E code \in {"timeout", "tls_failure", "network_failure"} : End(code)
  /\ UNCHANGED <<url, redirects, reply, bodySize>>

FetchNext == Start \/ Resolve \/ Send \/ Redirect \/ Accept \/ Chunk \/ EndOfBody \/ StreamBreaks

FetchSpec == FetchInit /\ [][FetchNext]_fetchVars

-----------------------------------------------------------------------------
FetchTypeOK ==
  /\ fetchStep \in {"start", "resolve", "send", "reply", "body", "done"}
  /\ url \in Urls
  /\ redirects \in Nat
  /\ reply \in Replies
  /\ bodySize \in Nat
  /\ elapsed \in Nat
  /\ result \in Codes \cup {"document", NoResult}

(* Over redirects, slow names, servers that drip and bodies that differ from *)
(* their length, no call begins after the deadline: a download outlasts it   *)
(* by less than the longest call, which is a session.send with all its       *)
(* connects and reads, and a document by less than one read.  A document is  *)
(* not empty and within the size limit.  An invalid policy takes no time.    *)
FetchBounded ==
  /\ IF PolicyValid THEN elapsed < TotalTimeout + SendTime ELSE elapsed = 0
  /\ result = "document" =>
       bodySize \in 1..MaxBytes /\ elapsed < TotalTimeout + ReadTime
=============================================================================
