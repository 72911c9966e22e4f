------------------------------- MODULE Guard2 -------------------------------
(***************************************************************************)
(* The lists Guard2.sol keeps for one dapp: the directives of the calls to *)
(* each of its addresses, and those of the messages of one of its domains. *)
(* Entries of other dapps and domains are kept apart by the mappings.      *)
(*                                                                         *)
(* An operator of the core lists and unlists directives at any time; which *)
(* ones, and for which addresses, are parameters (GuardScripts).  An       *)
(* address is put on the list that FROM_LIST reads by giving it a first    *)
(* directive whose selector is ListMarker.                                 *)
(***************************************************************************)
EXTENDS TypedData, FiniteSets

CONSTANTS
  Addresses,         \* of the dapp and its tokens
  Senders,           \* pools
  ListMarker,        \* the selector 0x11111111
  MaxDirectives,     \* MAX_DIRECTIVES_PER_ADDRESS
  TargetLists,       \* of the calls of whitelistProtocol
  Batches,           \* the directives of its calls
  SignBatches,       \* and those of whitelistEIP712
  Calls,             \* for the properties
  MaxListed          \* bound of the entries of all lists together

ListedBlobs      == UNION {Range(directives) : directives \in Batches}
ListedSignatures == UNION {Range(directives) : directives \in SignBatches}

ASSUME GuardAssumption ==
  /\ Addresses \cup Senders \subseteq [1..AddressLength -> Nat]
  /\ ListMarker \in [1..SelectorLength -> Nat]
  /\ MaxDirectives \in Nat
  /\ ListedBlobs \cup Calls \subseteq Seq(Nat)
  /\ TargetLists \subseteq Seq(Addresses)
  /\ Batches \subseteq Seq(ListedBlobs)
  /\ SignBatches \subseteq Seq(ListedSignatures)

VARIABLES
  whitelist,         \* of each address: its entries, payloadLength and directives
  eip712Whitelist    \* of the domain: directives and dictionary

vars == <<whitelist, eip712Whitelist>>

Init ==
  /\ whitelist = [a \in Addresses |-> <<>>]
  /\ eip712Whitelist = <<>>

Listed == Len(eip712Whitelist) + MapThenSumSet(LAMBDA a : Len(whitelist[a]), Addresses)

-----------------------------------------------------------------------------
(* Operations                                                              *)

EntryOf(blob) == [payloadLength |-> PayloadLength(blob), directives |-> blob]

Acceptable(blob) == PayloadLength(blob) # Invalid /\ ExtractSelector(blob) # Zeros(SelectorLength)

\* What a call appends to the list of an address: each of the directives, once
\* for every time the address is named.
Pushed(address, targets, directives) ==
  LET times == Cardinality({k \in DOMAIN targets : targets[k] = address})
  IN [n \in 1..(times * Len(directives)) |-> EntryOf(directives[((n - 1) \div times) + 1])]

\* A directive that cannot be parsed, and a list that grows too long, undo the
\* whole call.
WhitelistProtocol(targets, directives) ==
  /\ targets # <<>> /\ directives # <<>>
  /\ \A i \in DOMAIN directives : Acceptable(directives[i])
  /\ \A i \in DOMAIN targets :
       Len(whitelist[targets[i]] \o Pushed(targets[i], targets, directives)) <= MaxDirectives
  /\ whitelist' = [a \in Addresses |-> whitelist[a] \o Pushed(a, targets, directives)]
  /\ UNCHANGED eip712Whitelist

\* The last entry takes the place of the one that is removed.
SwapRemoved(entries, idx) == Front([entries EXCEPT ![idx] = Last(entries)])

UnwhitelistProtocol(target, idx) ==
  /\ idx \in DOMAIN whitelist[target]
  /\ whitelist' = [whitelist EXCEPT ![target] = SwapRemoved(@, idx)]
  /\ UNCHANGED eip712Whitelist

WhitelistEIP712(directives) ==
  /\ directives # <<>>
  /\ Len(eip712Whitelist) + Len(directives) <= MaxDirectives
  /\ \A i \in DOMAIN directives : ValidSignDirective(directives[i])
  /\ eip712Whitelist' = eip712Whitelist \o directives
  /\ UNCHANGED whitelist

UnwhitelistEIP712(idx) ==
  /\ idx \in DOMAIN eip712Whitelist
  /\ eip712Whitelist' = SwapRemoved(eip712Whitelist, idx)
  /\ UNCHANGED whitelist

\* Mistake: the marker is looked for in the newest entry.
OnList_Newest(entries) == entries # <<>> /\ ExtractSelector(Last(entries).directives) = ListMarker

\* What FROM_LIST asks of the entries of an address.
OnList(entries) == entries # <<>> /\ ExtractSelector(entries[1].directives) = ListMarker

Members == {a \in Addresses : OnList(whitelist[a])}

\* isProtocolAllowed: the first entry that fits decides, and one before it that
\* panics ends the call.
IsProtocolAllowed(target, payload, sender) ==
  LET entries    == whitelist[target]
      verdict(i) == IF entries[i].payloadLength \in {AnyLength, Len(payload)}
                      THEN Match(entries[i].directives, payload, sender, Members) ELSE "no"
      decisive   == SelectInSeq([i \in DOMAIN entries |-> verdict(i)], LAMBDA v : v # "no")
  IN IF decisive = 0 THEN "no" ELSE verdict(decisive)

-----------------------------------------------------------------------------
Next ==
  \/ /\ Listed < MaxListed
     /\ \E targets \in TargetLists, directives \in Batches : WhitelistProtocol(targets, directives)
  \/ Listed < MaxListed /\ \E directives \in SignBatches : WhitelistEIP712(directives)
  \/ \E a \in Addresses : \E idx \in DOMAIN whitelist[a] : UnwhitelistProtocol(a, idx)
  \/ \E idx \in DOMAIN eip712Whitelist : UnwhitelistEIP712(idx)

Spec == Init /\ [][Next]_vars

-----------------------------------------------------------------------------
(* Properties                                                              *)

Entries == UNION {Range(whitelist[a]) : a \in Addresses}

\* The lists are within their limits, and whatever was moved and removed every
\* entry is one that was parsed, with its own length (_whitelistProtocol,
\* whitelistEIP712).
ListsAreSound ==
  /\ \A a \in Addresses : Len(whitelist[a]) <= MaxDirectives
  /\ Len(eip712Whitelist) <= MaxDirectives
  /\ \A e \in Entries : e = EntryOf(e.directives) /\ Acceptable(e.directives)
  /\ \A d \in Range(eip712Whitelist) : ValidSignDirective(d)

\* An entry is asked about a call, and its exact bytes are cut off at its end, or
\* it is for any length and the call ends before its directives do.
RunsOut(e, call) ==
  /\ e.payloadLength \in {AnyLength, Len(call)}
  /\ \/ EndOf(e.directives).blob > Len(e.directives)
     \/ e.payloadLength = AnyLength /\ EndOf(e.directives).call > Len(call)

\* The length an entry was given when it was listed is that of every call its
\* directives allow, and of the calls an entry is asked about only those panic for
\* which it runs out: the two loops of Guard2 agree (_whitelistProtocol,
\* _matchDirective).
EntriesAreSound ==
  /\ ListsAreSound
  /\ \A e \in Entries, c \in Calls, s \in Senders :
       LET verdict == Match(e.directives, c, s, Members)
           asked   == e.payloadLength \in {AnyLength, Len(c)}
       IN (verdict = "yes" => asked) /\ (asked /\ verdict = "panic" => RunsOut(e, c))

\* An address gets on the list, or off it, only with its first entry: listing
\* more directives for it, or removing another one, changes nothing although
\* entries move (whitelistProtocol, unwhitelistProtocol).  Removing the first
\* one may change it either way: the last entry decides from then on.
ListedByFirstEntry ==
  [][\A a \in Addresses :
       (a \in Members) # (a \in Members') =>
         \/ whitelist[a] = <<>>
         \/ whitelist'[a] = SwapRemoved(whitelist[a], 1)]_vars
=============================================================================
