----------------------------- MODULE AddressBans -----------------------------
(***************************************************************************)
(* The banned addresses (security/ipBans.ts): a table, the cache of it     *)
(* that the guard in front of every request reads (app.ts), and a counter  *)
(* of failed logins that bans on its own (auth/routes.ts). The admins'     *)
(* requests (security/routes.ts) and the logins of several visitors wait   *)
(* for the database at the same time, and the backend may be restarted     *)
(* between any two steps.                                                  *)
(*                                                                         *)
(* The database is external: a statement succeeds, or is reported as       *)
(* failed, whether or not it was carried out.                              *)
(***************************************************************************)
EXTENDS Naturals

CONSTANTS
  Addresses,  \* the addresses requests come from
  Inquiries,  \* bound: the requests under way at a time
  Threshold,  \* AUTO_BAN_THRESHOLD
  MaxLogins,  \* bound: logins
  MaxRulings, \* bound: the admins' requests
  MaxOutages, \* bound: failed statements and restarts
  NoInquiry   \* no request

ASSUME AddressBansAssumption ==
  /\ Threshold \in Nat \ {0}
  /\ MaxLogins \in Nat
  /\ MaxRulings \in Nat
  /\ MaxOutages \in Nat

VARIABLES
  bannedRows,   \* the addresses in the table BannedIp
  bannedIps,    \* the cache
  failedLogins, \* per address: the failures in its window
  inquiries,    \* the requests under way
  parted,       \* ghost: the addresses of which table and cache may differ
                \* since the start, by a failed statement or a contrary request
  logins,       \* logins so far
  rulings,      \* the admins' requests so far
  outages       \* failed statements and restarts so far

banVars == <<bannedRows, bannedIps, failedLogins, inquiries, parted, logins, rulings, outages>>

\* What a request does: "ban" and "unban" of an admin, "auto" of the counter.
Inquiry == [does : {"login"}, ip : Addresses, at : {"password"}]
           \union [does : {"ban", "auto", "unban"}, ip : Addresses, at : {"table", "cache"}]

\* No request is none of these.
ASSUME NoInquiryAssumption == NoInquiry \notin Inquiry

BansTypeOK ==
  /\ bannedRows \subseteq Addresses
  /\ bannedIps \subseteq Addresses
  /\ failedLogins \in [Addresses -> Nat]
  /\ inquiries \in [Inquiries -> Inquiry \union {NoInquiry}]
  /\ parted \subseteq Addresses
  /\ logins \in 0..MaxLogins
  /\ rulings \in 0..MaxRulings
  /\ outages \in 0..MaxOutages

\* loadBannedIps has read the table.
BansInit ==
  /\ bannedRows \in SUBSET Addresses
  /\ bannedIps = bannedRows
  /\ failedLogins = [ip \in Addresses |-> 0]
  /\ inquiries = [i \in Inquiries |-> NoInquiry]
  /\ parted = {}
  /\ logins = 0 /\ rulings = 0 /\ outages = 0

-----------------------------------------------------------------------------
About(ip) == {i \in Inquiries :
                inquiries[i] # NoInquiry /\ inquiries[i].does # "login" /\ inquiries[i].ip = ip}

\* A request to ban and one to lift the ban are under way for the address.
PartedBy(does, ip) ==
  IF \E i \in About(ip) : (inquiries[i].does = "unban") # (does = "unban") THEN {ip} ELSE {}

GoesOn(i, inquiry) == inquiries' = [inquiries EXCEPT ![i] = inquiry]

\* The request of an admin passes the guard; nobody bans the address the
\* request comes from.
Ruling(i, does, ip) ==
  /\ inquiries[i] = NoInquiry
  /\ rulings < MaxRulings
  /\ rulings' = rulings + 1
  /\ \E from \in Addresses \ bannedIps : does = "ban" => from # ip
  /\ GoesOn(i, [does |-> does, ip |-> ip, at |-> "table"])
  /\ parted' = parted \union PartedBy(does, ip)
  /\ UNCHANGED <<bannedRows, bannedIps, failedLogins, logins, outages>>

\* A login passes the guard; its password is checked.
LoginArrives(i, ip) ==
  /\ inquiries[i] = NoInquiry
  /\ ip \notin bannedIps
  /\ logins < MaxLogins
  /\ logins' = logins + 1
  /\ GoesOn(i, [does |-> "login", ip |-> ip, at |-> "password"])
  /\ UNCHANGED <<bannedRows, bannedIps, failedLogins, parted, rulings, outages>>

\* clearFailedLogins.
LoginSucceeds(i) ==
  /\ inquiries[i] # NoInquiry /\ inquiries[i].at = "password"
  /\ failedLogins' = [failedLogins EXCEPT ![inquiries[i].ip] = 0]
  /\ GoesOn(i, NoInquiry)
  /\ UNCHANGED <<bannedRows, bannedIps, parted, logins, rulings, outages>>

\* registerFailedLogin: the failures that left the window are dropped, which
\* may be any number of them, and the address is banned if too many are left.
LoginFails(i) ==
  /\ inquiries[i] # NoInquiry /\ inquiries[i].at = "password"
  /\ LET ip == inquiries[i].ip IN
     \E kept \in 0..failedLogins[ip] :
       /\ failedLogins' = [failedLogins EXCEPT ![ip] = kept + 1]
       /\ IF kept + 1 >= Threshold /\ ip \notin bannedIps
          THEN /\ GoesOn(i, [does |-> "auto", ip |-> ip, at |-> "table"])
               /\ parted' = parted \union PartedBy("auto", ip)
          ELSE /\ GoesOn(i, NoInquiry)
               /\ UNCHANGED parted
  /\ UNCHANGED <<bannedRows, bannedIps, logins, rulings, outages>>

Written(inquiry) ==
  IF inquiry.does = "unban" THEN bannedRows \ {inquiry.ip} ELSE bannedRows \union {inquiry.ip}

\* The upsert of banIp or the delete of unbanIp succeeds.
TableWritten(i) ==
  /\ inquiries[i] # NoInquiry /\ inquiries[i].at = "table"
  /\ bannedRows' = Written(inquiries[i])
  /\ GoesOn(i, [inquiries[i] EXCEPT !.at = "cache"])
  /\ UNCHANGED <<bannedIps, failedLogins, parted, logins, rulings, outages>>

\* It is reported as failed: a ban ends with the error, unbanIp ignores it.
TableFails(i) ==
  /\ inquiries[i] # NoInquiry /\ inquiries[i].at = "table"
  /\ outages < MaxOutages
  /\ outages' = outages + 1
  /\ bannedRows' \in {bannedRows, Written(inquiries[i])}
  /\ GoesOn(i, IF inquiries[i].does = "unban" THEN [inquiries[i] EXCEPT !.at = "cache"]
               ELSE NoInquiry)
  /\ parted' = parted \union {inquiries[i].ip}
  /\ UNCHANGED <<bannedIps, failedLogins, logins, rulings>>

\* Faulty: the failures that led to the ban are kept when it is lifted.
CacheFollowsKeepingFailures(i) ==
  /\ inquiries[i] # NoInquiry /\ inquiries[i].at = "cache"
  /\ LET ip == inquiries[i].ip IN
     bannedIps' = IF inquiries[i].does = "unban" THEN bannedIps \ {ip} ELSE bannedIps \union {ip}
  /\ GoesOn(i, NoInquiry)
  /\ UNCHANGED <<bannedRows, failedLogins, parted, logins, rulings, outages>>

\* What banIp, unbanIp and registerFailedLogin do after the await.
CacheFollows(i) ==
  /\ inquiries[i] # NoInquiry /\ inquiries[i].at = "cache"
  /\ LET ip == inquiries[i].ip IN
     /\ bannedIps' = IF inquiries[i].does = "unban" THEN bannedIps \ {ip} ELSE bannedIps \union {ip}
     /\ failedLogins' = IF inquiries[i].does = "ban" THEN failedLogins
                        ELSE [failedLogins EXCEPT ![ip] = 0]
  /\ GoesOn(i, NoInquiry)
  /\ UNCHANGED <<bannedRows, parted, logins, rulings, outages>>

\* The process is restarted and reads the table before it listens.
RestartsWithBans ==
  /\ outages < MaxOutages
  /\ outages' = outages + 1
  /\ bannedIps' = bannedRows
  /\ failedLogins' = [ip \in Addresses |-> 0]
  /\ inquiries' = [i \in Inquiries |-> NoInquiry]
  /\ parted' = {}
  /\ UNCHANGED <<bannedRows, logins, rulings>>

BansNext ==
  \/ \E i \in Inquiries, ip \in Addresses :
       \/ \E does \in {"ban", "unban"} : Ruling(i, does, ip)
       \/ LoginArrives(i, ip)
  \/ \E i \in Inquiries :
       \/ LoginSucceeds(i) \/ LoginFails(i)
       \/ TableWritten(i) \/ TableFails(i) \/ CacheFollows(i)
  \/ RestartsWithBans

-----------------------------------------------------------------------------
(***************************************************************************)
(* What must hold.                                                         *)
(***************************************************************************)

\* When no request concerns an address, the guard judges it as the table does,
\* so that a restart changes nothing and the list the admins see is the truth;
\* and one that failed too often is banned, or about to be. Excused are an
\* address whose last statement failed, which a lifted ban does not even notice
\* (it comes back with the next restart), and one banned and released at once.
BansInForce ==
  \A ip \in Addresses \ parted :
    /\ About(ip) = {} => (ip \in bannedIps <=> ip \in bannedRows)
    /\ failedLogins[ip] >= Threshold => ip \in bannedIps \/ About(ip) # {}
=============================================================================
