------------------------------ MODULE Settings ------------------------------
(***************************************************************************)
(* The settings of a product: columns of JSON which a request reads whole, *)
(* merges with what it was sent, and writes back whole.  Several admins    *)
(* and tabs do so at the same time; each request is made once here, so     *)
(* that a value can be named after the request that wrote it.              *)
(***************************************************************************)
EXTENDS Naturals, Sequences

CONSTANTS
  Updates,        \* the requests
  SectionSets,  \* bound: the sections a request may be sent
  Providers,    \* LLM providers
  DefaultModel, \* EMBEDDING_DEFAULTS: Providers -> Models
  Models,       \* embedding models
  Unset         \* what a request leaves out

\* What is stored in support_policy: the sections of a PUT, in the order in which
\* they are merged, and the two public keys.
SectionOrder == <<"notifications", "ci", "chat", "retention">>
Sections == {"notifications", "ci", "chat", "retention"}
Keys == {"chatPublicKey", "contactFormPublicKey"}
Fields == Sections \cup Keys

ASSUME SettingsAssumption ==
  /\ DefaultModel \in [Providers -> Models] /\ SectionSets \subseteq SUBSET Sections
  /\ Unset \notin Providers \cup Models

VARIABLES
  policy,   \* products.support_policy: which request wrote a field
  llm,      \* products.llm_config
  update,     \* the requests
  history   \* reads and writes in their order

settingsVars == <<policy, llm, update, history>>

\* explicit: the embedding model was chosen by hand.
Llm == [provider : Providers, embedding : Models, explicit : BOOLEAN]

UpdatePoints == {"todo", "validate", "load", "write", "done"}

\* fields: of support_policy.  provider, embedding: of llm_config.
\* policy, llm: the row the request has read.
Update == [pc : UpdatePoints, fields : SUBSET Fields, provider : Providers \cup {Unset},
         embedding : Models \cup {Unset}, policy : [Fields -> Updates \cup {Unset}], llm : Llm]

UpdateAt(i, point) == update[i].pc = point
Asks(i, fields, provider, embedding) ==
  update' = [update EXCEPT ![i] = [@ EXCEPT !.pc = "validate", !.fields = fields,
             !.provider = provider, !.embedding = embedding]]

-----------------------------------------------------------------------------
(* One request.                                                            *)

\* PUT /settings, with any sections ...
PutSettings(i) ==
  /\ UpdateAt(i, "todo")
  /\ \E fields \in SectionSets, p \in Providers \cup {Unset}, m \in Models \cup {Unset} :
       Asks(i, fields, p, m)
  /\ UNCHANGED <<policy, llm, history>>

\* ... or one of the two endpoints that generate a public key.
GenerateKey(i) ==
  /\ UpdateAt(i, "todo")
  /\ \E k \in Keys : Asks(i, {k}, Unset, Unset)
  /\ UNCHANGED <<policy, llm, history>>

\* The calls of the provider that test a new key come before the row is read;
\* 422 ends the request.  Without a key there is nothing to wait for.
ValidateLlm(i) ==
  /\ UpdateAt(i, "validate")
  /\ \E point \in {"load", "done"} :
       /\ point = "load" \/ update[i].provider # Unset
       /\ update' = [update EXCEPT ![i] = [@ EXCEPT !.pc = point]]
  /\ UNCHANGED <<policy, llm, history>>

LoadProduct(i) ==
  /\ UpdateAt(i, "load")
  /\ update' = [update EXCEPT ![i] = [@ EXCEPT !.pc = "write", !.policy = policy, !.llm = llm]]
  /\ history' = Append(history, <<"read", i>>)
  /\ UNCHANGED <<policy, llm>>

Touched(i) == {n \in 1..4 : SectionOrder[n] \in update[i].fields}

\* Mutant of MergePolicy: a section starts from the product and not from what the
\* sections before it have made of it.
MergeFromProduct(i) ==
  LET last == {n \in Touched(i) : \A m \in Touched(i) : m <= n}
      kept == {SectionOrder[n] : n \in last} \cup (update[i].fields \cap Keys)
  IN [f \in Fields |-> IF f \in kept THEN i ELSE update[i].policy[f]]

\* Each section starts from what the sections before it have made of the policy:
\* updates.support_policy ?? product.support_policy.
MergePolicy(i) == [f \in Fields |-> IF f \in update[i].fields THEN i ELSE update[i].policy[f]]

\* Mutant of MergeLlm: the embedding model stays when the provider changes.
MergeLlmFields(i) ==
  LET old == update[i].llm  e == update[i]
  IN [provider |-> IF e.provider = Unset THEN old.provider ELSE e.provider,
      embedding |-> IF e.embedding = Unset THEN old.embedding ELSE e.embedding,
      explicit |-> old.explicit \/ e.embedding # Unset]

\* A new provider takes its default embedding model along, unless one was sent.
MergeLlm(i) ==
  LET old == update[i].llm  e == update[i]
  IN IF e.embedding # Unset
     THEN [provider |-> IF e.provider = Unset THEN old.provider ELSE e.provider,
           embedding |-> e.embedding, explicit |-> TRUE]
     ELSE IF e.provider = Unset THEN old
     ELSE [provider |-> e.provider, embedding |-> DefaultModel[e.provider], explicit |-> FALSE]

\* Only the columns that were sent are written.
SaveProduct(i) ==
  /\ UpdateAt(i, "write")
  /\ policy' = IF update[i].fields = {} THEN policy ELSE MergePolicy(i)
  /\ llm' = IF update[i].provider = Unset /\ update[i].embedding = Unset THEN llm ELSE MergeLlm(i)
  /\ update' = [update EXCEPT ![i] = [@ EXCEPT !.pc = "done"]]
  /\ history' = Append(history, <<"write", i>>)

\* The database fails, or the process ends.
UpdateFails(i) ==
  /\ update[i].pc \in {"load", "write"}
  /\ update' = [update EXCEPT ![i] = [@ EXCEPT !.pc = "done"]]
  /\ UNCHANGED <<policy, llm, history>>

-----------------------------------------------------------------------------
\* What POST /setup/complete leaves: no policy, and the provider's own embedding.
SettingsInit ==
  /\ policy = [f \in Fields |-> Unset]
  /\ llm \in {l \in Llm : l.embedding = DefaultModel[l.provider] /\ ~l.explicit}
  /\ update = [i \in Updates |-> [pc |-> "todo", fields |-> {}, provider |-> Unset,
                              embedding |-> Unset, policy |-> policy, llm |-> llm]]
  /\ history = <<>>

SettingsNext ==
  \E i \in Updates :
    \/ PutSettings(i) \/ GenerateKey(i) \/ ValidateLlm(i) \/ LoadProduct(i)
    \/ SaveProduct(i) \/ UpdateFails(i)

SettingsSpec == SettingsInit /\ [][SettingsNext]_settingsVars

-----------------------------------------------------------------------------
(* Properties.                                                             *)

Wrote(i) == \E n \in 1..Len(history) : history[n] = <<"write", i>>
Before(e, f) == \E m, n \in 1..Len(history) : m < n /\ history[m] = e /\ history[n] = f
Overlap(i, j) == Before(<<"read", j>>, <<"write", i>>) /\ Before(<<"write", i>>, <<"write", j>>)

\* The fields of the product, the requests and the history have their types.
SettingsTypeOK ==
  /\ policy \in [Fields -> Updates \cup {Unset}] /\ llm \in Llm
  /\ update \in [Updates -> Update]

\* Settings and keys that were saved are lost in one way only: to a request that
\* had read the product before them.  The sections of one request never lose each
\* other's, and a request that comes later keeps what it was not sent.
SavedUnlessOverlapped ==
  \A i \in Updates : Wrote(i) =>
    \A f \in update[i].fields :
      \/ policy[f] = i
      \/ \E j \in Updates : /\ Before(<<"write", i>>, <<"write", j>>)
                            /\ (f \in update[j].fields \/ Overlap(i, j))

\* "When provider changes, always reset embedding to provider defaults unless the
\* user explicitly sent an embeddingModel" (settings.ts:591), in any order of
\* concurrent changes: an embedding model of another provider makes every
\* retrieval of the product fail.
EmbeddingFitsProvider == llm.explicit \/ llm.embedding = DefaultModel[llm.provider]
=============================================================================
