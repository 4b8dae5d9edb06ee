---------------------------- MODULE MCHttpServer ----------------------------
(* A small instance of HttpServer for TLC: one client sends requests to     *)
(* every path, another one creates and deletes.                             *)
EXTENDS HttpServer

CONSTANTS visitor, writer

Req(method, path, input) ==
  [method |-> method, path |-> path, type |-> NoType, input |-> input,
   entries |-> IF path = <<"api", "logs", "batch">> THEN 2 ELSE 0, name |-> "n"]

Documented ==
  {Req("POST", <<"api", "logs">>, i) : i \in Inputs}
  \cup {Req("POST", <<"api", "logs", "batch">>, i) : i \in Inputs \ {"bad level"}}
  \cup {Req("GET", <<"api", "logs">>, i) : i \in {"valid", "invalid"}}
  \cup {Req(m, <<"api", "logs", "l1">>, "valid") : m \in {"GET", "DELETE"}}
  \cup {Req("DELETE", <<"api", "logs">>, i) : i \in {"valid", "broken"}}
  \cup {Req("POST", <<"api", "rules">>, i) : i \in {"valid", "invalid"}}
  \cup {Req(m, <<"api", "rules", "r1">>, "valid") : m \in {"GET", "PUT", "DELETE"}}
  \cup {Req("POST", <<"api", "rules", "r1", a>>, "valid") : a \in {"enable", "disable"}}
  \cup {Req(m, <<"api", "alerts", "a1">>, "valid") : m \in {"GET", "DELETE"}}
  \cup {Req("POST", <<"api", "alerts", "a1", a>>, "valid") : a \in {"acknowledge", "resolve"}}
  \cup {Req("GET", p, "valid") : p \in {<<"api", "rules">>, <<"api", "alerts">>,
          <<"api", "alerts", "active", "count">>, <<"api", "stats", "sources">>, <<"info">>}}
  \cup {Req("GET", <<"api", "stats">>, i) : i \in Inputs \ {"bad level"}}
  \cup {Req("GET", <<"api", "stats", "daily">>, "broken")}

Undocumented ==
  {Req("POST", <<"api", "rules", a>>, "valid") : a \in {"enable", "disable", ""}}
  \cup {Req("POST", <<"api", "alerts", a>>, "valid") : a \in {"acknowledge", "resolve"}}
  \cup {Req("GET", p, "valid") :
          p \in {<<"">>, <<"x">>, <<"api">>, <<"api", "x">>, <<"api", "logs", "">>}}
  \cup {Req("OPTIONS", <<"api", "logs">>, "valid"), Req("PUT", <<"api", "logs">>, "valid")}
  \cup {[Req("POST", <<"api", p>>, "valid") EXCEPT !.type = Json] : p \in {"logs", "rules"}}

Writes ==
  {Req("POST", <<"api", "logs", "batch">>, "valid"), Req("POST", <<"api", "rules">>, "valid"),
   Req("DELETE", <<"api", "logs", "l1">>, "valid")}

MCClients == {visitor, writer}
MCRequests ==
  [c \in MCClients |-> IF c = visitor THEN Documented \cup Undocumented ELSE Writes]
=============================================================================
