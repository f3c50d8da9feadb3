------------------------------ MODULE Dispatch ------------------------------
(***************************************************************************)
(* HttpServer::onMessage() from a parsed request to its response: a        *)
(* service by its URL, a service by a pattern, a file below a mounted      *)
(* directory, a PHP script.  The maps are unordered: a pattern or a mount  *)
(* is visited in any order, and the first that answers ends the search.    *)
(* A path is a sequence of names and slashes; "php" is the name of a       *)
(* script, which may be a default page like any other name.                *)
(***************************************************************************)
EXTENDS FastCgi

CONSTANTS Urls, Sites,     \* requests; what a server has: services, patterns, mounts, files, enable_php
          default_pages_   \* names of default pages, in the order they are tried

(* A URL is a path, and a mount takes a prefix of a path to a directory. *)
ASSUME DispAssumption ==
    /\ default_pages_ \in Seq(STRING \ {"/"})
    /\ Urls \subseteq Seq(STRING)
    /\ \A s \in Sites : /\ DOMAIN s.mounts \subseteq Seq(STRING)
                        /\ s.mounts \in [DOMAIN s.mounts -> STRING]

VARIABLES site, url,
          unvisited,   \* keys of mount_dir_ that each() has not come to
          response,    \* code and what the body is made from
          dispPc

dispVars == <<site, url, unvisited, response, dispPc>>
Nothing == [code |-> 200, source |-> <<>>]

DispRest == unvisited = {} /\ response = Nothing
NoSite == [services |-> {}, patterns |-> {}, mounts |-> <<>>, files |-> {}, enable_php |-> FALSE]
DispIdle == site = NoSite /\ url = <<>> /\ DispRest /\ dispPc = "idle"
DispInit == site \in Sites /\ url \in Urls /\ DispRest /\ dispPc = "pattern"
-----------------------------------------------------------------------------
Respond(code, source) == response' = [code |-> code, source |-> source]

(* A service answers, or has no method for the request. *)
Served(name) == /\ \E code \in {200, 405} : Respond(code, <<name>>)
                /\ dispPc' = "finish" /\ UNCHANGED unvisited

(* A pattern is the set of URLs that it matches. *)
dispatchUrlPattern ==
    /\ dispPc = "pattern"
    /\ IF url \in site.services THEN Served("service")
       ELSE \/ \E p \in site.patterns : url \in p /\ Served("pattern")
            \/ /\ \A p \in site.patterns : url \notin p
               /\ unvisited' = DOMAIN site.mounts
               /\ dispPc' = IF site.mounts = <<>> THEN "finish" ELSE "mounts"
               /\ UNCHANGED response
    /\ UNCHANGED <<site, url, cgiVars>>

(* Faulty variants of definitions below, as in Session. *)
StopAtFirstMount(p) == dispPc' = "finish" /\ Respond(404, <<>>) /\ UNCHANGED <<unvisited, cgiVars>>

PathOf(p) == <<site.mounts[p]>> \o SubSeq(url, Len(p) + 1, Len(url))
exist(path) == path \in site.files
IsDirectory(path) == Len(path) = 1 \/ Last(path) = "/"

(* dispatchFile() returns false: the next mount is tried. *)
NotHere(p) == unvisited' = unvisited \ {p} /\ UNCHANGED <<response, dispPc, cgiVars>>
Answered(code, source) == Respond(code, source) /\ dispPc' = "finish" /\ UNCHANGED <<unvisited, cgiVars>>

Page(dir, i) == Append(dir, default_pages_[i])
Present(dir) == {i \in DOMAIN default_pages_ : exist(Page(dir, i))}
getIndexPageFileName(dir) == IF Present(dir) = {} THEN dir ELSE Page(dir, Min(Present(dir)))

dispatchFile(p) ==
    LET path == IF IsDirectory(PathOf(p)) THEN getIndexPageFileName(PathOf(p)) ELSE PathOf(p)
        found == ~IsDirectory(path) /\ exist(path) IN
    CASE IsDirectory(path) -> Answered(403, <<>>)
      [] ~IsDirectory(path) /\ ~exist(path) -> NotHere(p)
      [] found /\ Last(path) # "php" -> Answered(200, path)
      [] found /\ Last(path) = "php" /\ ~site.enable_php -> Answered(403, <<>>)
      [] OTHER -> /\ dispPc' = "php" /\ Respond(200, path)
                  /\ cgiPc' = "connect" /\ UNCHANGED <<unvisited, cgiReq, outbox, inbox, cgiResp>>

dispatchMountDir ==
    /\ dispPc = "mounts"
    /\ IF unvisited = {} THEN Answered(404, <<>>)
       ELSE \E p \in unvisited : IF IsPrefix(p, url) THEN dispatchFile(p) ELSE NotHere(p)
    /\ UNCHANGED <<site, url>>

dispatchPhpProcessor ==
    /\ dispPc = "php" /\ cgiPc = "responded"
    /\ Respond(cgiResp.code, response.source) /\ dispPc' = "finish"
    /\ UNCHANGED <<site, url, unvisited, cgiVars>>

(* The error service replaces the body. *)
onError == /\ dispPc = "finish"
           /\ IF response.code \in 400..599 THEN Respond(response.code, <<"error_page">>)
              ELSE UNCHANGED response
           /\ dispPc' = "sent"
           /\ UNCHANGED <<site, url, unvisited, cgiVars>>

DispNext == dispatchUrlPattern \/ dispatchMountDir \/ dispatchPhpProcessor \/ onError

(* A request and the PHP conversation that it may start. *)
DispSpec == DispInit /\ CgiIdle /\ [][(CgiNext /\ UNCHANGED dispVars) \/ DispNext]_<<cgiVars, dispVars>>

DispEnded == dispPc \in {"idle", "sent"} \/ (dispPc = "php" /\ CgiLost)
-----------------------------------------------------------------------------
(***************************************************************************)
(* DispatchExact: a service is preferred to a pattern and both to files; a *)
(* request for a file is answered by a mount that has it, if any has, in   *)
(* whatever order the mounts are visited, a directory by the first of its  *)
(* default pages that is there, and 404 says that no mount has it; an      *)
(* error has a page.  Two mounts answer differently only where both have   *)
(* an answer, such as a directory without a default page in one of them    *)
(* (HttpServer.cc 108-121, 180-263).                                       *)
(***************************************************************************)
Has(p, f) == IsPrefix(p, url) /\ f \in site.files
               /\ IF IsDirectory(PathOf(p))
                  THEN \E i \in DOMAIN default_pages_ :
                         f = Page(PathOf(p), i) /\ \A j \in 1..i - 1 : ~exist(Page(PathOf(p), j))
                  ELSE f = PathOf(p)
Listed(p) == IsPrefix(p, url) /\ IsDirectory(PathOf(p)) /\ Present(PathOf(p)) = {}
Found == \E p \in DOMAIN site.mounts : \E f \in site.files : Has(p, f)
Refused403 == \E p \in DOMAIN site.mounts : Listed(p)

Answers(name) == {[code |-> 200, source |-> <<name>>], [code |-> 405, source |-> <<"error_page">>]}

DispatchExact ==
    dispPc = "sent" =>
      CASE url \in site.services ->
             response \in Answers("service")
        [] url \notin site.services /\ (\E q \in site.patterns : url \in q) ->
             response \in Answers("pattern")
        [] OTHER ->
             /\ response.code = 404 /\ cgiPc = "idle" <=> ~Found /\ ~Refused403 /\ site.mounts # <<>>
             /\ response.code >= 400 <=> response.source = <<"error_page">>
             /\ response.code = 200 /\ response.source # <<>> =>
                  \E p \in DOMAIN site.mounts : Has(p, response.source)
             /\ Found /\ ~Refused403 /\ site.enable_php /\ cgiPc = "idle" => response.code = 200
=============================================================================
