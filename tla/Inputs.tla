------------------------------- MODULE Inputs -------------------------------
(***************************************************************************)
(* The images of a request, read one after the other before its provider   *)
(* calls upstream: local and inline ones, crates/artifacts/src/input.rs,   *)
(* and remote ones, remote.rs, which may redirect and whose host is        *)
(* resolved and checked before every connection.  Files change while they  *)
(* are read; resolvers and servers are external and answer as they like.   *)
(* Neither the deadline nor the token of the request is looked at here.    *)
(* Bounds: Images per request; sizes in units, up to one past a limit.     *)
(***************************************************************************)
EXTENDS Integers, FiniteSets

CONSTANTS Images,                    \* inputs a request may have
          MaxEncodedBytes, MaxReferenceBytes,
          Hosts, Ports, Addresses,   \* what URLs name, and what hosts resolve to
          RemotePolicies             \* the remote sections tried: RemoteInputPolicy

ASSUME InputsAssumption ==
  /\ Images \subseteq Nat /\ {MaxEncodedBytes, MaxReferenceBytes} \subseteq Nat
  /\ RemotePolicies \subseteq [enabled : BOOLEAN, hosts : SUBSET Hosts, ports : SUBSET Ports,
                              private : BOOLEAN, redirects : Nat]

VARIABLE loading  \* where input_content() is

Url == [host : Hosts, port : Ports, sound : BOOLEAN]  \* http(s) without credentials, or not

(* input_content() before the next image, and when it has returned or was    *)
(* dropped: nothing is kept of it.                                           *)
Between(remote, left, total) ==
  [step |-> "next", remote |-> remote, left |-> left, total |-> total, hop |-> 0]
Loaded == [step |-> "loaded"]

InputsInit ==
  \E remote \in RemotePolicies, images \in Images :
    loading = IF images = 0 THEN Loaded ELSE Between(remote, images, 0)

Sizes == 0..(MaxEncodedBytes + 1)

(* is_public_ip() and is_public_ipv4(), over classes of addresses: "private" *)
(* is unique local in version 6, and a mapped address is of version 4.       *)
Special     == {"unspecified", "loopback", "private", "link_local", "multicast", "documentation"}
SpecialOnV4 == {"broadcast", "shared", "protocol", "benchmark", "future"}

(* Mutant: the ranges that only version 4 has are forgotten.                 *)
IsPublicForBoth(address) == address.class \notin Special

IsPublic(address) ==
  address.class \notin Special \cup (IF address.version = 4 THEN SpecialOnV4 ELSE {})

(* validate_url()                                                            *)
Allows(remote, url) ==
  /\ url.sound
  /\ remote.hosts # {} => url.host \in remote.hosts
  /\ url.port \in remote.ports

(* lookup_host() and the check of what it returns: one address that is not   *)
(* public is enough.                                                         *)
Resolves(remote, found) ==
  found # {} /\ (~remote.private => \A address \in found : IsPublic(address))

(* Mutant: the client resolves the name again.                               *)
TargetsOfTheClient == Addresses

(* resolve_to_addrs(): the connection goes where the check has looked.       *)
Targets == loading.found

-----------------------------------------------------------------------------
(* inspect_image() and the sum of input_content(); anything that is not an   *)
(* image of the declared type fails.                                         *)
Keep(bytes) ==
  LET total == loading.total + bytes IN
  /\ bytes \in 1..MaxEncodedBytes /\ total <= MaxReferenceBytes
  /\ loading' = IF loading.left = 1 THEN Loaded
                ELSE Between(loading.remote, loading.left - 1, total)

(* load_file(): `listed` bytes when it is opened, `there` when it is read.   *)
ReadFile(listed, there) ==
  /\ loading.step = "next"
  /\ listed <= MaxEncodedBytes /\ there <= MaxEncodedBytes
  /\ Keep(there)

(* decode_base64(), decode_data_url(): four characters for three bytes, less *)
(* the padding.                                                              *)
Decode(quads, padding) ==
  /\ loading.step = "next"
  /\ 4 * quads <= (MaxEncodedBytes * 4 + 2) \div 3 + 4
  /\ Keep(3 * quads - padding)

(* fetch(), a hop up to its connection                                       *)
Resolve(url, found) ==
  /\ \/ loading.step = "next" /\ loading.remote.enabled
     \/ loading.step = "redirected" /\ url = loading.url
  /\ Allows(loading.remote, url) /\ Resolves(loading.remote, found)
  /\ loading' = [step |-> "resolved", remote |-> loading.remote, left |-> loading.left,
                 total |-> loading.total, hop |-> loading.hop, url |-> url, found |-> found]

Connect(address) ==
  /\ loading.step = "resolved"
  /\ loading' = [step |-> "connected", remote |-> loading.remote, left |-> loading.left,
                 total |-> loading.total, hop |-> loading.hop, url |-> loading.url, to |-> address]

(* The last hop that is allowed may not redirect; checked_redirect().        *)
Redirect(url) ==
  /\ loading.step = "connected" /\ loading.hop < loading.remote.redirects
  /\ loading' = [step |-> "redirected", remote |-> loading.remote, left |-> loading.left,
                 total |-> loading.total, hop |-> loading.hop + 1, url |-> url]

(* A success whose length, when declared, is within the limit.               *)
Body ==
  /\ loading.step = "connected"
  /\ loading' = [step |-> "body", remote |-> loading.remote, left |-> loading.left,
                 total |-> loading.total, bytes |-> 0]

BodyChunk(bytes) ==
  /\ loading.step = "body" /\ loading.bytes + bytes <= MaxEncodedBytes
  /\ loading' = [loading EXCEPT !.bytes = @ + bytes]

EndOfBody == loading.step = "body" /\ Keep(loading.bytes)

LoadStep ==
  \/ \E listed, there \in Sizes : ReadFile(listed, there)
  \/ \E quads \in Sizes, padding \in 0..2 : Decode(quads, padding)
  \/ \E url \in Url, found \in SUBSET Addresses : Resolve(url, found)
  \/ loading.step = "resolved" /\ \E address \in Targets : Connect(address)
  \/ \E url \in Url : Redirect(url)
  \/ Body \/ EndOfBody
  \/ \E bytes \in Sizes \ {0} : BodyChunk(bytes)

(* Everything that is refused, and everything that fails, is an error of     *)
(* code input, and it may happen at any await, the timeout of a hop included.*)
LoadFails == loading.step # "loaded" /\ loading' = Loaded

-----------------------------------------------------------------------------
(* The addresses the test reserved_ranges_are_not_public, remote.rs:343,     *)
(* names, one by one, whatever is_public_ip() makes of them.                 *)
ReservedRanges ==
  [version : {4}, class : {"private", "loopback", "link_local", "shared", "documentation",
                           "benchmark", "multicast", "future"}]
  \cup [version : {6}, class : {"loopback", "private", "link_local", "documentation"}]

(* configuration.md:94, validate_url(), pinned_client(): every connection    *)
(* goes to a host (any, if none is listed) and a port of the policy; unless  *)
(* the policy allows private networks, at an address that has passed         *)
(* is_public_ip() and is of none of the ranges its test names; whatever the  *)
(* name resolves to meanwhile and through every redirect.  And no more is    *)
(* held of an image, or of all images, than the limits allow.                *)
InputsWithinPolicy ==
  LET remote == loading.remote IN
  /\ loading.step \in {"connected", "body"} => remote.enabled
  /\ loading.step = "connected" =>
       /\ Allows(remote, loading.url)
       /\ ~remote.private => IsPublic(loading.to) /\ loading.to \notin ReservedRanges
       /\ loading.hop <= remote.redirects
  /\ loading.step = "body" => loading.bytes <= MaxEncodedBytes
  /\ loading.step # "loaded" => loading.total <= MaxReferenceBytes
=============================================================================
