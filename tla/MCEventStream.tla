--------------------------- MODULE MCEventStream ---------------------------
(* Two outputs, two attempts, two previews each, channels of one place; up  *)
(* to two images, from one of two hosts on one of two ports, one redirect;  *)
(* hosts resolve to any of a public address, one that is reserved in        *)
(* version 4 only, and one that is reserved in both.                        *)
EXTENDS EventStream

MCOutputs   == 1..2
MCImages    == 0..2
MCAddresses == {[version |-> 4, class |-> "global"], [version |-> 4, class |-> "shared"],
                [version |-> 6, class |-> "loopback"]}

Remote(enabled, hosts, private) ==
  [enabled |-> enabled, hosts |-> hosts, ports |-> {443}, private |-> private, redirects |-> 1]
MCRemotePolicies ==
  {Remote(FALSE, {}, FALSE), Remote(TRUE, {}, FALSE), Remote(TRUE, {"h1"}, FALSE), Remote(TRUE, {}, TRUE)}
=============================================================================
