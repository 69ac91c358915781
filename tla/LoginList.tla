------------------------------ MODULE LoginList ------------------------------
(***************************************************************************)
(* The list of logged-in web users (user_login_list): a singly linked list *)
(* of malloc'ed structs, grown at its head by formLogin() and cut by the   *)
(* logout form, by auth_authorize(), by SIGHUP and by the sweep that       *)
(* main() makes on every pass of its loop.                                 *)
(*                                                                         *)
(* Several of these delete entries while they walk the list, and step on   *)
(* through an entry just freed.  The next field is not among the words of  *)
(* a chunk that free() overwrites, so the walk reads the old value; what   *)
(* the server does once freed memory is on the list is not modelled: every *)
(* action needs a sound list.                                              *)
(*                                                                         *)
(* The build is the one of CONFIG_DEONET_SESSION: one IP address may hold  *)
(* several sessions, told apart by a cookie.  Passwords are left out: a    *)
(* login is one that passed them.                                          *)
(***************************************************************************)
EXTENDS Naturals, SequencesExt

CONSTANTS
  Nodes,        \* the structs that malloc() may return
  Null,         \* the null pointer
  Ips,          \* client addresses
  Sids,         \* session ids handed out in cookies
  MaxSessions,  \* the 10 of formLogin()
  AutoExit      \* LOGIN_AUTOEXIT_TIME, in steps of the clock

ASSUME LoginAssumption ==
  /\ IsFiniteSet(Nodes) /\ Null \notin Nodes
  /\ Ips # {}
  /\ {"", "NULL", "other"} \cap Sids = {}
  /\ MaxSessions \in Nat \ {0} /\ AutoExit \in Nat

VARIABLES
  head,    \* user_login_list
  next,    \* the next field of every struct
  alloc,   \* the structs that are malloc'ed
  ip,      \* remote_ip_addr
  sid,     \* session_id, "" until a response has set it
  age      \* time_counter - last_time, up to AutoExit + 1

vars == <<head, next, alloc, ip, sid, age>>

(* The cookie of a request: none at all, one without a session id, or one  *)
(* with it.                                                                *)
Cookies == {"NULL", "other"} \cup Sids

(***************************************************************************)
(* The entries a walk from user_login_list visits, in order.  The walk is  *)
(* cut after as many steps as there are structs.                           *)
(***************************************************************************)
Steps == 0..Cardinality(Nodes)

Path ==
  LET walk[i \in Steps] ==
        IF i = 0 THEN [seen |-> <<>>, at |-> head]
        ELSE LET w == walk[i - 1] IN
             IF w.at = Null THEN w
             ELSE [seen |-> Append(w.seen, w.at), at |-> next[w.at]]
  IN  walk[Cardinality(Nodes)].seen

Listed == Range(Path)

Sound == Listed \subseteq alloc

FirstOf(S) == LET hits == SelectSeq(Path, LAMBDA n : n \in S)
              IN  IF hits = <<>> THEN Null ELSE hits[1]

(* search_login_list(): with no cookie the address decides, with a session *)
(* id an entry of the address that has the same id, or none yet.           *)
SearchLoginList(i, c) ==
  FirstOf({n \in Nodes : /\ ip[n] = i
                         /\ c = "NULL" \/ (c \in Sids /\ sid[n] \in {"", c})})

AnIp == CHOOSE i \in Ips : TRUE

Init ==
  /\ head = Null
  /\ next = [n \in Nodes |-> Null]
  /\ alloc = {}
  /\ ip = [n \in Nodes |-> AnIp]
  /\ sid = [n \in Nodes |-> ""]
  /\ age = [n \in Nodes |-> 0]

-----------------------------------------------------------------------------
(***************************************************************************)
(* ulist_free_login_entry(b, p) in the loop                                *)
(*   for (p = user_login_list; p; b = p, p = p->next)                      *)
(* for the entries in D, one record per state of the walk.                 *)
(* Mutants: the head test is missing; the list is cut off.                 *)
(***************************************************************************)
FreeEntryNoHead(w) ==
  [w EXCEPT !.next  = IF w.b = Null THEN @ ELSE [@ EXCEPT ![w.b] = w.next[w.p]],
            !.alloc = @ \ {w.p}]

FreeEntryCut(w) ==
  [w EXCEPT !.head  = IF w.p = w.head THEN w.next[w.p] ELSE @,
            !.next  = IF w.p = w.head THEN @ ELSE [@ EXCEPT ![w.b] = Null],
            !.alloc = @ \ {w.p}]

FreeEntry(w) ==
  [w EXCEPT !.head  = IF w.p = w.head THEN w.next[w.p] ELSE @,
            !.next  = IF w.p = w.head THEN @ ELSE [@ EXCEPT ![w.b] = w.next[w.p]],
            !.alloc = @ \ {w.p}]

Advance(w) == [w EXCEPT !.b = w.p, !.p = w.next[w.p]]

WalkDeleting(D) ==
  LET walk[i \in Steps] ==
        IF i = 0
          THEN [head |-> head, next |-> next, alloc |-> alloc,
                b |-> Null, p |-> head]
        ELSE LET w == walk[i - 1] IN
             IF w.p = Null THEN w
             ELSE Advance(IF w.p \in D THEN FreeEntry(w) ELSE w)
  IN  walk[Cardinality(Nodes)]

(* The data fields of a freed entry are dead: malloc'ed again, it is       *)
(* filled anew.                                                            *)
Delete(D) ==
  /\ head' = WalkDeleting(D).head
  /\ next' = WalkDeleting(D).next
  /\ alloc' = WalkDeleting(D).alloc
  /\ ip' = [n \in Nodes |-> IF n \in alloc' THEN ip[n] ELSE AnIp]
  /\ sid' = [n \in Nodes |-> IF n \in alloc' THEN sid[n] ELSE ""]
  /\ age' = [n \in Nodes |-> IF n \in alloc' THEN age[n] ELSE 0]

(* formLogin(), from pass_check: an entry of this browser is refreshed,    *)
(* else a new one becomes the head.  The form always sets req->cookie.     *)
(* Mutant of HasRoom: one session too many.                                *)
HasRoomOffByOne == Len(Path) <= MaxSessions

HasRoom == Len(Path) < MaxSessions

Login(i, c) ==
  /\ Sound /\ HasRoom /\ c # "NULL"
  /\ LET p == SearchLoginList(i, c) IN
     \/ /\ p = Null
        /\ \E n \in Nodes \ alloc :
             /\ alloc' = alloc \cup {n}
             /\ next' = [next EXCEPT ![n] = head]
             /\ head' = n
             /\ ip' = [ip EXCEPT ![n] = i]
             /\ sid' = [sid EXCEPT ![n] = ""]
             /\ age' = [age EXCEPT ![n] = 0]
     \/ /\ p # Null
        /\ age' = [age EXCEPT ![p] = 0]
        /\ UNCHANGED <<head, next, alloc, ip, sid>>

(* print_set_cookie(): the first entry of the address gets the session id  *)
(* of the cookie, or a new random one.  Mutant: what the cookie holds is   *)
(* taken without a look at the result of get_sessionid_from_cookie().      *)
CookieSidRaw(c) == {c}

CookieSid(c) == IF c \in Sids THEN {c} ELSE Sids

SetCookie(i, c) ==
  /\ Sound
  /\ LET p == FirstOf({n \in Nodes : ip[n] = i}) IN
     /\ p # Null
     /\ \E s \in CookieSid(c) : sid' = [sid EXCEPT ![p] = s]
  /\ UNCHANGED <<head, next, alloc, ip, age>>

(* auth_authorize(): a known session is refreshed.                         *)
Authorized(i, c) ==
  /\ Sound
  /\ SearchLoginList(i, c) # Null
  /\ age' = [age EXCEPT ![SearchLoginList(i, c)] = 0]
  /\ UNCHANGED <<head, next, alloc, ip, sid>>

(* Any other request but that for "/" is sent to the login page, and       *)
(* free_from_login_list_by_ip() ends the sessions of its address.  Without *)
(* a cookie that happens to a known address too, on most pages.            *)
Unauthorized(i, c) ==
  /\ Sound
  /\ c = "NULL" \/ SearchLoginList(i, c) = Null
  /\ Delete({n \in Nodes : ip[n] = i})

(* free_from_login_list(): the first entry with the session id goes.       *)
Logout(s) ==
  /\ Sound
  /\ FirstOf({n \in Nodes : sid[n] = s}) # Null
  /\ Delete({FirstOf({n \in Nodes : sid[n] = s})})

(* free_login_list(), on SIGHUP.                                           *)
FreeLoginList == Sound /\ Delete(Nodes)

(* The sweep of main().                                                    *)
Expired == {n \in Nodes : age[n] > AutoExit}

Sweep == Sound /\ Listed \cap Expired # {} /\ Delete(Expired)

Tick ==
  /\ Sound
  /\ age' = [n \in Nodes |-> IF n \in alloc /\ age[n] <= AutoExit
                               THEN age[n] + 1 ELSE age[n]]
  /\ UNCHANGED <<head, next, alloc, ip, sid>>

Next ==
  \/ \E i \in Ips, c \in Cookies : \/ Login(i, c) \/ SetCookie(i, c)
                                   \/ Authorized(i, c) \/ Unauthorized(i, c)
  \/ \E s \in Sids : Logout(s)
  \/ FreeLoginList \/ Sweep \/ Tick

Spec == Init /\ [][Next]_vars

-----------------------------------------------------------------------------
(* Types: what print_set_cookie() stores is a session id.                  *)
TypeOK ==
  /\ head \in Nodes \cup {Null}
  /\ next \in [Nodes -> Nodes \cup {Null}]
  /\ alloc \subseteq Nodes
  /\ ip \in [Nodes -> Ips]
  /\ sid \in [Nodes -> Sids \cup {""}]
  /\ age \in [Nodes -> 0..AutoExit + 1]

(* On a sound list every malloc'ed entry is listed (ulist_free_login_entry *)
(* loses none) and no entry is listed twice (no walk runs for ever).       *)
NoLeak == Sound => Listed = alloc /\ Len(Path) = Cardinality(Listed)

(* formLogin() never lists more sessions than getNumLoginUserInfo() >= 10  *)
(* allows.                                                                 *)
SessionBound == Sound => Len(Path) <= MaxSessions

(* Two neighbours in D, behind an entry that stays.                        *)
Adjacent(D) ==
  \E j \in 1..Len(Path) - 1 :
    /\ Path[j] \in D /\ Path[j + 1] \in D
    /\ \E k \in 1..j : Path[k] \notin D

(* The entries of the list s that are not in D, in their order.            *)
Without(s, D) ==
  LET kept[j \in 0..Len(s)] ==
        IF j = 0 THEN <<>>
        ELSE IF s[j] \in D THEN kept[j - 1] ELSE Append(kept[j - 1], s[j])
  IN  kept[Len(s)]

(* A step that deletes a set D of entries leaves the others on the list,   *)
(* in their order, and nothing else, unless two of D are neighbours behind *)
(* an entry that stays.  In particular free_login_list() always empties    *)
(* the list, although it steps through entries it has freed.               *)
WalkExact ==
  [][LET D == alloc \ alloc' IN
     D # {} /\ ~Adjacent(D) => Path' = Without(Path, D)]_vars

=============================================================================
