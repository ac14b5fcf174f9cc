----------------------------- MODULE HandoffPackets -----------------------------
(***************************************************************************)
(* What becomes of a context packet: the choice of its receiver            *)
(* (handoff-routing.ts), its serialisation and restoration                 *)
(* (context-packet-serializers.ts), the checks on the way in and the       *)
(* partial packet on the way out (handoff-schema.ts).                      *)
(*                                                                         *)
(* A text is one of Texts: all that is looked at is whether it is empty,   *)
(* blank, or matches a pattern of prompt injection.                        *)
(***************************************************************************)
EXTENDS Questions, Integers, FiniteSets, SequencesExt

CONSTANTS PacketTools,    \* tool names, in the order localeCompare gives them
          Costs,          \* estimated costs
          Weights,        \* task type weights and cost weights
          Capabilities,   \* constraints and permissions of packets
          MostCandidates, \* bound on the candidates of a packet
          MostLayers,     \* bound on the layers of a routing policy
          MostFields      \* bound on the fields of a partial packet

Texts == {"empty", "blank", "plain", "injection"}
HugeCost == 1000      \* Number.MAX_SAFE_INTEGER

ASSUME PacketAssumption ==
  /\ PacketTools \in Seq(ToSet(PacketTools))
  /\ \A i, j \in DOMAIN PacketTools : PacketTools[i] = PacketTools[j] => i = j
  /\ Weights \subseteq Nat /\ Costs \subseteq 0..HugeCost
  /\ {MostCandidates, MostLayers, MostFields} \subseteq Nat
  /\ None \notin Costs /\ None \notin {"value", "mark", "object"}
  /\ \A list \in SUBSET Capabilities : list # None

-----------------------------------------------------------------------------
(* resolveHandoffRouting.  A candidate is a tool with its cost, or None, and
   whether it is available and supports the packet's task type. *)
Candidate == [tool : ToSet(PacketTools), cost : Costs \cup {None}, available : BOOLEAN,
              supports : BOOLEAN]

DefaultRouting == [routing |-> "capability-match", taskWeight |-> 100, costWeight |-> 1,
                   tool |-> None]

(* Object.assign, layer after layer: of a field, what the last layer that
   mentions it says; what a layer leaves None it does not mention. *)
LastSaid(layers, field) ==
  LET said == {i \in DOMAIN layers : layers[i][field] # None}
  IN  IF said = {} THEN DefaultRouting[field]
      ELSE layers[CHOOSE i \in said : \A j \in said : j <= i][field]

MergeHandoffRoutingPolicy(layers) ==
  [field \in {"routing", "taskWeight", "costWeight", "tool"} |-> LastSaid(layers, field)]

CostOf(candidate) == IF candidate.cost = None THEN HugeCost ELSE candidate.cost

Score(candidate, policy, typed) ==
  (IF typed /\ candidate.supports THEN policy.taskWeight ELSE 0) - CostOf(candidate) * policy.costWeight

NameBefore(s, t) == \E i, j \in DOMAIN PacketTools : i < j /\ PacketTools[i] = s /\ PacketTools[j] = t

Better(c, d, policy, typed) ==
  \/ Score(c, policy, typed) > Score(d, policy, typed)
  \/ Score(c, policy, typed) = Score(d, policy, typed) /\ NameBefore(c.tool, d.tool)

(* A mistake in Available. *)
AllAreAvailable(candidates) == candidates

Available(candidates) == {c \in candidates : c.available}

(* The tool that gets the packet, or "error". *)
ResolveHandoffRouting(candidates, direct, layers, typed) ==
  LET policy == MergeHandoffRoutingPolicy(layers)
      able == Available(candidates)
      target == IF direct = None THEN policy.tool ELSE direct
  IN  CASE able = {} -> "error"
        [] able # {} /\ (direct # None \/ policy.routing = "direct") ->
             IF \E c \in able : c.tool = target THEN target ELSE "error"
        [] OTHER -> (CHOOSE c \in able : \A d \in able : ~Better(d, c, policy, typed)).tool

-----------------------------------------------------------------------------
(* The checks on the way in.  constraints and the permission lists are None
   when a partial packet leaves them out. *)
OrEmpty(list) == IF list = None THEN {} ELSE list

IncomingAccepted(packet, policy) ==
  /\ packet.wellFormed
  /\ packet.sender \in policy.registered
  /\ OrEmpty(policy.required) \subseteq OrEmpty(packet.constraints)
  /\ OrEmpty(policy.denied) \cap OrEmpty(packet.constraints) = {}
  /\ policy.allowedPermissions # None => OrEmpty(packet.allow) \subseteq policy.allowedPermissions
  /\ OrEmpty(policy.deniedPermissions) \cap OrEmpty(packet.allow) \subseteq OrEmpty(packet.deny)
  /\ "injection" \notin packet.texts

(* A serialised packet: task and summary are the text of the task, the
   constraints its capabilities; it has no permissions. *)
BuildPacket(in) ==
  [wellFormed |-> in.sender # "", sender |-> in.sender, key |-> in.serializer,
   native |-> in.native, constraints |-> in.capabilities, allow |-> None, deny |-> None,
   summary |-> IF in.task = None THEN "empty" ELSE in.task,
   texts |-> {in.native.text, in.native.memory} \cup (IF in.task = None THEN {} ELSE {in.task})]

CompressForTransport(packet, size, threshold) ==
  IF size <= threshold THEN packet ELSE [envelope |-> packet]

(* Only what looks like an envelope is inflated. *)
DecompressForValidation(transport) ==
  IF "envelope" \in DOMAIN transport THEN transport.envelope ELSE transport

PrependSummary(summary, memory) ==
  IF summary \in {"empty", "blank"} THEN <<memory>> ELSE <<summary, memory>>

(* What the deserializer gives for a tool's key, or "rejected". *)
Deserialize(transport, key, policy) ==
  LET packet == DecompressForValidation(transport)
  IN  IF IncomingAccepted(packet, policy) /\ packet.key = key
      THEN [native |-> packet.native,
            memory |-> IF key = "claudeCode" THEN PrependSummary(packet.summary, packet.native.memory)
                       ELSE <<>>]
      ELSE [rejected |-> TRUE]

-----------------------------------------------------------------------------
(* createPartialPacket.  A packet has a task object with an entry "x" and a
   summary.  The partial packet's task is absent, the very object of the
   packet, one of its own, or the redaction mark. *)
Leaves == {"x", "z"}
PacketPaths == {<<"task">>, <<"summary">>} \cup ({"task"} \X Leaves)
Field == [path : PacketPaths, redact : BOOLEAN, required : BOOLEAN]

Whole == [leaf \in Leaves |-> IF leaf = "x" THEN "value" ELSE None]
NoTask == [leaf \in Leaves |-> None]
NoPartial == [task |-> "absent", own |-> NoTask, original |-> Whole, summary |-> None, thrown |-> FALSE]

GetNestedValue(partial, path) ==
  IF path = <<"task">> THEN "object" ELSE IF path = <<"summary">> THEN "value" ELSE partial.original[path[2]]

SetNestedValue(partial, path, value) ==
  CASE path = <<"summary">> -> [partial EXCEPT !.summary = value]
    [] path = <<"task">> -> [partial EXCEPT !.task = IF value = "object" THEN "same" ELSE "mark"]
    [] OTHER ->
         CASE partial.task = "absent" -> [partial EXCEPT !.task = "own", !.own[path[2]] = value]
           [] partial.task = "own" -> [partial EXCEPT !.own[path[2]] = value]
           [] partial.task = "same" -> [partial EXCEPT !.original[path[2]] = value]
           [] partial.task = "mark" -> partial

(* A mistake in Redacted. *)
RedactedIfRequired(field, value) == IF field.redact /\ field.required THEN "mark" ELSE value

Redacted(field, value) == IF field.redact THEN "mark" ELSE value

WithField(partial, field) ==
  LET value == GetNestedValue(partial, field.path)
  IN  CASE partial.thrown -> partial
        [] ~partial.thrown /\ value # None ->
             SetNestedValue(partial, field.path, Redacted(field, value))
        [] OTHER -> [partial EXCEPT !.thrown = field.required]

(* one field after the other *)
CreatePartialPacket(fields) ==
  LET upTo[i \in 0..Len(fields)] == IF i = 0 THEN NoPartial ELSE WithField(upTo[i - 1], fields[i])
  IN  upTo[Len(fields)]

(* What a receiver of the partial packet sees of the task's entry. *)
SeenLeaf(partial, leaf) == CASE partial.task = "own" -> partial.own[leaf]
                         [] partial.task = "same" -> partial.original[leaf]
                         [] OTHER -> None

-----------------------------------------------------------------------------
RoutingLayers == {l \in [routing : {None, "direct"}, taskWeight : {None} \cup Weights,
                        costWeight : {None} \cup Weights, tool : {None, PacketTools[1]}] :
                    l.routing = "direct" => l.taskWeight = None /\ l.costWeight = None}

RoutingQuestions ==
  {q \in [about : {"routing"}, typed : BOOLEAN, direct : {None, PacketTools[1]},
          candidates : {Range(listed) : listed \in UNION {[1..n -> Candidate] : n \in 0..MostCandidates}},
          layers : UNION {[1..n -> RoutingLayers] : n \in 0..MostLayers}] :
     q.direct # None => q.layers = <<>>}

Lists == {None} \cup SUBSET Capabilities
IncomingPolicies ==
  [registered : {{"a"}}, required : {None} \cup {{c} : c \in Capabilities}, denied : Lists,
   allowedPermissions : Lists, deniedPermissions : Lists]

IncomingQuestions ==
  [about : {"incoming"}, constraints : Lists, allow : Lists, deny : Lists, policy : IncomingPolicies]

TransportQuestions ==
  [about : {"transport"}, policy : {p \in IncomingPolicies : p.allowedPermissions = None},
   in : [sender : {"a", "b", ""}, serializer : {"claudeCode", "cursor"}, task : {None} \cup Texts,
         capabilities : SUBSET Capabilities, native : [text : {"plain", "injection"}, memory : {"plain"}]],
   key : {"claudeCode", "cursor"}, size : {1, 2}]

PartialQuestions == [about : {"partial"}, fields : UNION {[1..n -> Field] : n \in 1..MostFields}]

PacketsNext == \/ Ask(RoutingQuestions) \/ Ask(IncomingQuestions)
               \/ Ask(TransportQuestions) \/ Ask(PartialQuestions)

(* A packet goes to an available tool; which one does not depend on the
   candidates that were not chosen, nor on what the available ones are listed
   with; and a tool that gets cheaper does not lose a packet it had. *)
RoutingSound ==
  AskedAbout("routing") =>
    LET to(candidates) == ResolveHandoffRouting(candidates, asked.direct, asked.layers, asked.typed)
        chosen == to(asked.candidates)
    IN  chosen # "error" =>
          /\ \E c \in asked.candidates : c.tool = chosen /\ c.available
          /\ \A d \in asked.candidates : d.tool # chosen => to(asked.candidates \ {d}) = chosen
          /\ \A c \in asked.candidates : c.tool = chosen /\ c.available =>
               \A cost \in Costs : cost <= CostOf(c) =>
                 to((asked.candidates \ {c}) \cup {[c EXCEPT !.cost = cost]}) = chosen

StricterPolicies(policy) ==
  {p \in IncomingPolicies :
     /\ OrEmpty(policy.required) \subseteq OrEmpty(p.required)
     /\ OrEmpty(policy.denied) \subseteq OrEmpty(p.denied)
     /\ OrEmpty(policy.deniedPermissions) \subseteq OrEmpty(p.deniedPermissions)
     /\ policy.allowedPermissions # None =>
          p.allowedPermissions # None /\ p.allowedPermissions \subseteq policy.allowedPermissions}

IncomingPacket == [wellFormed |-> TRUE, sender |-> "a", constraints |-> asked.constraints,
                   allow |-> asked.allow, deny |-> asked.deny, texts |-> {}]

(* What a packet that was let in may do is within both lists of its policy,
   and a stricter policy lets in nothing more, however lists are left out. *)
IncomingSound ==
  AskedAbout("incoming") =>
    LET effective == OrEmpty(asked.allow) \ OrEmpty(asked.deny)
    IN  /\ IncomingAccepted(IncomingPacket, asked.policy) =>
             /\ effective \cap OrEmpty(asked.policy.deniedPermissions) = {}
             /\ asked.policy.allowedPermissions # None =>
                  effective \subseteq asked.policy.allowedPermissions
        /\ ~IncomingAccepted(IncomingPacket, asked.policy) =>
             \A p \in StricterPolicies(asked.policy) : ~IncomingAccepted(IncomingPacket, p)

(* Sent and restored by one tool's pair of functions, the native context
   comes back as it was, compressed or not, and the memory starts with the
   summary of the task; nothing else is restored from. *)
TransportSound ==
  AskedAbout("transport") =>
    LET sent == CompressForTransport(BuildPacket(asked.in), asked.size, 1)
        got == Deserialize(sent, asked.key, asked.policy)
    IN  IF "rejected" \in DOMAIN got
        THEN \/ asked.key # asked.in.serializer
             \/ asked.in.sender \notin asked.policy.registered
             \/ "injection" \in {asked.in.task, asked.in.native.text, asked.in.native.memory}
             \/ ~(OrEmpty(asked.policy.required) \subseteq asked.in.capabilities)
             \/ OrEmpty(asked.policy.denied) \cap asked.in.capabilities # {}
        ELSE /\ got.native = asked.in.native
             /\ asked.in.serializer = "claudeCode" => Last(got.memory) = asked.in.native.memory
             /\ Len(got.memory) = 2 => Head(got.memory) = asked.in.task

Covers(field, leaf) == field.path \in {<<"task">>, <<"task", leaf>>}
Below(field) == Len(field.path) = 2

(* A value is seen in the partial packet only if the last field that covers
   it does not redact it; and the packet itself is changed only by a field
   within an object that was included before. *)
PartialSound ==
  AskedAbout("partial") =>
    LET partial == CreatePartialPacket(asked.fields)
        covering == {i \in DOMAIN asked.fields : Covers(asked.fields[i], "x")}
        last == CHOOSE i \in covering : \A j \in covering : j <= i
    IN  ~partial.thrown =>
          /\ SeenLeaf(partial, "x") = "value" => covering # {} /\ ~asked.fields[last].redact
          /\ partial.summary = "value" =>
               \E f \in Range(asked.fields) : f.path = <<"summary">> /\ ~f.redact
          /\ partial.original # Whole =>
               \E i, j \in DOMAIN asked.fields : /\ i < j /\ Below(asked.fields[j])
                                                 /\ asked.fields[i].path = <<"task">>
                                                 /\ ~asked.fields[i].redact

(* A packet reaches who it should, whole where it is shown and hidden where
   it is not. *)
PacketsSound == RoutingSound /\ IncomingSound /\ TransportSound /\ PartialSound
=============================================================================
