------------------------------- MODULE MCAccess --------------------------------
(* A small instance of Access for TLC. *)
EXTENDS Access, TLC

CONSTANTS main, monitor, session,   \* secrets
          cc, grok,                 \* agents
          ada,                      \* an OAuth subject
          web, cli                  \* its OAuth clients

(* An OAuth configuration that tells the clients of one subject apart. *)
MCOAuth == [bindings |-> <<[subject |-> ada, client |-> web, from |-> cc],
                           [subject |-> ada, client |-> cli, from |-> grok]>>,
            scopes |-> {"bus"}]

Complete ==
  [main |-> main, dev_no_auth |-> FALSE, resource |-> TRUE, oauth |-> MCOAuth,
   machines |-> <<[secret |-> monitor, from |-> cc, agents |-> {grok}, scopes |-> {"create"}]>>,
   agents |-> <<[secret |-> session, from |-> grok]>>]

Bare == [main |-> NULL, dev_no_auth |-> TRUE, resource |-> FALSE, oauth |-> NULL,
         machines |-> <<>>, agents |-> <<>>]

(* The server starts with Complete, with Bare and without OAuth; every other one has a fault. *)
MCConfigs ==
  {Complete, Bare, [Complete EXCEPT !.resource = FALSE, !.oauth = NULL],
   [Bare EXCEPT !.dev_no_auth = FALSE],
   [Complete EXCEPT !.main = NULL, !.dev_no_auth = TRUE],
   [Bare EXCEPT !.resource = TRUE, !.oauth = MCOAuth],
   [Complete EXCEPT !.agents[1].secret = monitor],
   [Complete EXCEPT !.machines[1].secret = main],
   [Complete EXCEPT !.machines[1].agents = {}],
   [Complete EXCEPT !.machines[1].scopes = {"read", Bad}],
   [Complete EXCEPT !.oauth.scopes = {Bad}],
   [Complete EXCEPT !.oauth.bindings[1].client = NULL]}

(* In force for a while; in force throughout; lacking a scope. *)
MCJwts ==
  LET Forms == {[iat |-> 1, exp |-> 3, client |-> cli, scopes |-> {"bus"}],
                [iat |-> 0, exp |-> MaxTime + 1, client |-> cli, scopes |-> {"bus"}],
                [iat |-> 0, exp |-> MaxTime + 1, client |-> web, scopes |-> {}]}
  IN {[key |-> k, header |-> TRUE, verified |-> TRUE, iat |-> f.iat, exp |-> f.exp,
       subject |-> ada, client |-> f.client, scopes |-> f.scopes] : k \in Keys, f \in Forms}

(* Keys and requests are only ever compared with one another. *)
Interchangeable == Permutations(Keys) \cup Permutations(Requests)
===============================================================================
