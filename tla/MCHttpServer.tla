---------------------------- MODULE MCHttpServer ----------------------------
(* HttpServer with one request for every branch that builds a response.    *)
EXTENDS HttpServer

Req(v, t, b) == [verb |-> v, target |-> t, body |-> b]

MCRequests ==
  { Req("get", "/count", "noJson"), Req("get", "/time", "noJson"),
    Req("get", "/other", "noJson"), Req("post", "/email", "email"),
    Req("post", "/email", "noJson"), Req("post", "/email", "noEmail"),
    Req("post", "/other", "email"), Req("other", "/count", "noJson") }
=============================================================================
