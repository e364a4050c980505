---------------------------- MODULE NetworkKeys ----------------------------
(***************************************************************************)
(* The keys by which devices of one network find each other: the address   *)
(* the server observes (signaling clientip/index.ts:109-265) and the ones  *)
(* a page finds by probing (web core/discovery/index.ts:100-265).          *)
(*                                                                         *)
(* An address is a record: its family, its prefixes (`wide', the /16 or    *)
(* /48, and `mid', the rest of the /24 or /64), its host part, its scope.  *)
(* A hashed key is the tuple the server hashes; a reported one keeps the   *)
(* client's tag, and is a key itself.                                      *)
(***************************************************************************)
EXTENDS Integers, Sequences, SequencesExt

\* The scopes: "loopback" (127.0.0.1 and ::1), "private" (10/8, 172.16/12, 192.168/16),
\* "link" (169.254/16, fe80), "shared" (100.64/10, fc00, fd00) and "public".
\* isPrivateOrLocalIp
IsPrivateOrLocal(ip) == ip.scope # "public"

\* DEFAULT_TRUSTED_PROXIES
IsTrustedProxy(ip) == ip.scope \in {"loopback", "private"}

\* extractVerifiedClientIp: behind a trusted proxy it is the address of the CDN's
\* header, or one of X-Forwarded-For: the first that is no proxy's own, or, where
\* TRUST_PROXY_HOPS is set (`hops' is empty or holds it), the last that is none after
\* as many have been left out.
ForwardedIp(parts, hops) ==
  LET clients == SelectSeq(parts, LAMBDA ip : ~IsTrustedProxy(ip))
      counted == IF hops = <<>> THEN {}
                 ELSE {i \in 1 .. Len(parts) - Head(hops) : ~IsTrustedProxy(parts[i])} IN
  IF counted # {} THEN parts[Max(counted)]
  ELSE IF hops = <<>> /\ clients # <<>> THEN Head(clients)
  ELSE Head(parts)

VerifiedClientIp(req, hops) ==
  IF ~IsTrustedProxy(req.socket) THEN req.socket
  ELSE IF req.cdn # <<>> THEN Head(req.cdn)
  ELSE IF req.forwarded # <<>> THEN ForwardedIp(req.forwarded, hops)
  ELSE req.socket

\* deriveNetworkKey: a loopback address, the /64 of an IPv6, or an IPv4.
NetworkKey(ip) ==
  IF ip.scope = "loopback" THEN <<"loopback">>
  ELSE IF ip.family = 6 THEN <<"v6", ip.wide, ip.mid>>
  ELSE <<"v4", ip.wide, ip.mid, ip.host>>

\* The second family of prefixes of an address (addIpHierarchyKeys:196-214).
PrefixKeys(ip) ==
  IF ip.family = 6
  THEN {<<"v6", ip.wide, ip.mid>>}
       \cup {k \in {<<"v6net48", ip.wide>>} : ip.scope \notin {"link", "loopback"}}
  ELSE {<<"v4subnet", ip.wide, ip.mid>>}
       \cup {k \in {<<"v4net16", ip.wide>>} : ~IsPrivateOrLocal(ip)}

\* addIpHierarchyKeys
HierarchyKeys(ip) ==
  {NetworkKey(ip)}
  \cup {k \in {<<"local-lan-group">>} : IsPrivateOrLocal(ip)}
  \cup PrefixKeys(ip)

-----------------------------------------------------------------------------
LocalLan == <<"local-lan">>      \* the report of a page that has not probed

\* What probeNetwork reports of an address that an echo or STUN told it, and of
\* one that is the host's own.
ReportOf(ip) ==
  IF ip.family = 6 THEN {<<"v6:", [ip EXCEPT !.host = 1]>>, <<"v6sub48:", ip.wide>>}
  ELSE {<<"v4:", ip>>, <<"v4sub24:", ip.wide, ip.mid>>}

ReportOfFound(ip) ==
  ReportOf(ip) \cup (IF ip.family = 6 THEN {}
                     ELSE IF IsPrivateOrLocal(ip) THEN {LocalLan}
                     ELSE {<<"v4sub16:", ip.wide>>})

\* probeNetwork: the keys a page reports of the place it is at.
ProbedKeys(place) ==
  (UNION {ReportOfFound(ip) : ip \in place.found})
  \cup (UNION {ReportOf(ip) : ip \in place.host})
  \cup {k \in {LocalLan} : place.found = {}}

\* The hashed keys the server adds for a report (deriveNetworkKeySet:243-263).
HashedKeys(report) ==
  CASE report[1] \in {"v4:", "v6:"} -> HierarchyKeys(report[2])
    [] report[1] = "v4sub24:"       -> {<<"v4subnet", report[2], report[3]>>}
    [] report[1] = "v4sub16:"       -> {<<"v4net16", report[2]>>}
    [] report[1] = "v6sub48:"       -> {<<"v6net48", report[2]>>}
    [] report = LocalLan            -> {<<"local-lan-group">>}

\* deriveNetworkKeySet
NetworkKeySet(ip, reports) ==
  HierarchyKeys(ip) \cup reports \cup UNION {HashedKeys(report) : report \in reports}
=============================================================================
