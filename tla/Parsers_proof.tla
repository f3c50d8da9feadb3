--------------------------- MODULE Parsers_proof ----------------------------
(***************************************************************************)
(* Proofs about what a worker does with a request: the dispatch of any URL *)
(* on any server, and the indices of the JSON reader for any text.         *)
(***************************************************************************)
EXTENDS Json, Dispatch, SequenceTheorems, WellFoundedInduction, TLAPS

(* Nobody but a service or a pattern answers this request. *)
ForFiles == url \notin site.services /\ \A q \in site.patterns : url \notin q

(* What a service or a pattern has answered, before the error service. *)
ServedAs(name) == response \in {[code |-> 200, source |-> <<name>>], [code |-> 405, source |-> <<name>>]}

(* What a mount, or the end of the search, has answered. *)
FileAnswer ==
    \/ response = Nothing /\ site.mounts = <<>> /\ cgiPc = "idle"
    \/ response = [code |-> 404, source |-> <<>>] /\ site.mounts # <<>> /\ cgiPc = "idle"
         /\ ~Found /\ ~Refused403
    \/ response = [code |-> 403, source |-> <<>>] /\ cgiPc = "idle"
         /\ (Refused403 \/ (Found /\ ~site.enable_php))
    \/ /\ response.code \in {200, 201, 404, 500} /\ response = [code |-> response.code, source |-> response.source]
       /\ \E p \in DOMAIN site.mounts : Has(p, response.source)
       /\ Len(response.source) # 1
       /\ cgiPc = "idle" => response.code = 200

(* What the conversation with php-fpm leaves in the response. *)
CgiInv == /\ cgiPc # "responded" => cgiResp = NoResponse
          /\ cgiPc = "responded" => cgiResp.code \in {200, 201, 404, 500}

DispInv ==
    /\ dispPc \in {"pattern", "mounts", "php", "finish", "sent"}
    /\ site \in Sites /\ url \in Urls
    /\ CgiInv
    /\ dispPc # "php" => cgiPc \in {"idle", "responded"}
    /\ dispPc = "pattern" => cgiPc = "idle" /\ response = Nothing
    /\ dispPc = "mounts" =>
         /\ cgiPc = "idle" /\ response = Nothing /\ ForFiles /\ site.mounts # <<>>
         /\ unvisited \subseteq DOMAIN site.mounts
         /\ \A p \in DOMAIN site.mounts \ unvisited : ~Listed(p) /\ \A f \in site.files : ~Has(p, f)
    /\ dispPc = "php" => ForFiles /\ FileAnswer /\ response.code = 200 /\ cgiPc # "idle"
    /\ dispPc = "finish" =>
         \/ url \in site.services /\ ServedAs("service")
         \/ url \notin site.services /\ ~ForFiles /\ ServedAs("pattern")
         \/ ForFiles /\ FileAnswer
    /\ DispatchExact

-----------------------------------------------------------------------------
(* CgiNext moves only a conversation that was started, and no further than a response. *)
LEMMA CgiStep ==
    ASSUME CgiInv, CgiNext
    PROVE  cgiPc \notin {"idle", "responded"} /\ cgiPc' # "idle" /\ CgiInv'
<1>1. CASE connectPhpFpm
  BY <1>1 DEF CgiInv, connectPhpFpm, NoResponse
<1>2. CASE sendParams
  BY <1>2 DEF CgiInv, sendParams
<1>3. CASE sendEndRequestRecord
  BY <1>3 DEF CgiInv, sendEndRequestRecord
<1>4. CASE sendPost
  BY <1>4 DEF CgiInv, sendPost
<1>a. CASE sendPostHeader
  BY <1>a DEF CgiInv, sendPostHeader
<1>b. CASE sendPostEnd
  BY <1>b DEF CgiInv, sendPostEnd
<1>5. CASE FpmAnswers
  BY <1>5 DEF CgiInv, FpmAnswers
<1>6. CASE Short
  BY <1>6 DEF CgiInv, Short
<1>7. CASE readHeader
  BY <1>7 DEF CgiInv, readHeader
<1>8. CASE readContent
  BY <1>8 DEF CgiInv, readContent
<1>9. CASE respond
  <2>1. cgiPc = "read" /\ cgiPc' = "responded"
    BY <1>9 DEF respond
  <2>2. \A v : CodeOf(v) \in {200, 201, 404}
    BY DEF CodeOf
  <2>3. cgiResp'.code \in {200, 201, 404}
    BY <1>9, <2>2 DEF respond
  <2> QED
    BY <2>1, <2>2, <2>3 DEF CgiInv
<1> QED
  BY <1>1, <1>2, <1>3, <1>4, <1>5, <1>6, <1>7, <1>8, <1>9, <1>a, <1>b DEF CgiNext

-----------------------------------------------------------------------------
(* What a mount makes of a URL below it is a path of at least one name. *)
LEMMA PathFacts ==
    ASSUME site \in Sites, url \in Urls, NEW p \in DOMAIN site.mounts
    PROVE  PathOf(p) \in Seq(STRING) /\ Len(PathOf(p)) >= 1
<1>1. url \in Seq(STRING) /\ p \in Seq(STRING) /\ site.mounts[p] \in STRING
  BY DispAssumption
<1>2. Len(p) + 1 \in Int /\ Len(url) \in Int /\ \A i \in (Len(p) + 1)..Len(url) : url[i] \in STRING
  BY <1>1
<1>3. SubSeq(url, Len(p) + 1, Len(url)) \in Seq(STRING)
  BY <1>2, SubSeqProperties
<1>4. <<site.mounts[p]>> \in Seq(STRING) /\ Len(<<site.mounts[p]>>) = 1
  BY <1>1
<1> QED
  BY <1>3, <1>4 DEF PathOf

(* Min() of a set of numbers. *)
LEMMA MinOfNats ==
    ASSUME NEW T, T \subseteq Nat, T # {}
    PROVE  Min(T) \in T /\ \A k \in T : Min(T) <= k
<1>1. \E m \in T : \A k \in T : <<k, m>> \notin OpToRel(<, Nat)
  BY NatLessThanWellFounded, WFMin
<1>2. PICK m \in T : \A k \in T : ~(k < m)
  BY <1>1 DEF OpToRel
<1>3. \A k \in T : m <= k
  BY <1>2
<1> QED
  BY <1>2, <1>3 DEF Min

(* A default page of a directory is not a directory. *)
LEMMA IndexFacts ==
    ASSUME NEW d \in Seq(STRING), Len(d) >= 1, NEW i \in DOMAIN default_pages_
    PROVE  Len(Page(d, i)) # 1 /\ ~IsDirectory(Page(d, i))
<1>1. default_pages_[i] \in STRING /\ default_pages_[i] # "/"
  BY DispAssumption
<1>2. /\ Len(Page(d, i)) = Len(d) + 1
      /\ Page(d, i)[Len(d) + 1] = default_pages_[i]
  BY <1>1 DEF Page
<1> QED
  BY <1>1, <1>2 DEF IsDirectory, Last

(* The default page that getIndexPageFileName() finds is the first that is there. *)
LEMMA FirstPage ==
    ASSUME NEW d, Present(d) # {}
    PROVE  LET m == Min(Present(d)) IN
           /\ m \in DOMAIN default_pages_ /\ exist(Page(d, m))
           /\ \A j \in 1..m - 1 : ~exist(Page(d, j))
           /\ \A i \in DOMAIN default_pages_ :
                exist(Page(d, i)) /\ (\A j \in 1..i - 1 : ~exist(Page(d, j))) => i = m
<1>1. DOMAIN default_pages_ = 1..Len(default_pages_) /\ Len(default_pages_) \in Nat
  BY DispAssumption
<1>2. Present(d) \subseteq DOMAIN default_pages_ /\ Present(d) \subseteq Nat
  BY <1>1 DEF Present
<1>3. PICK m : m = Min(Present(d)) /\ m \in Present(d) /\ \A k \in Present(d) : m <= k
  BY <1>2, MinOfNats
<1>4. m \in DOMAIN default_pages_ /\ exist(Page(d, m)) /\ m \in 1..Len(default_pages_)
  BY <1>1, <1>2, <1>3 DEF Present
<1>5. \A i \in DOMAIN default_pages_ : exist(Page(d, i)) => m <= i
  BY <1>3 DEF Present
<1>6. \A j \in 1..m - 1 : j \in DOMAIN default_pages_ /\ ~(m <= j)
  BY <1>1, <1>4
<1>7. \A j \in 1..m - 1 : ~exist(Page(d, j))
  BY <1>5, <1>6
<1>8. ASSUME NEW i \in DOMAIN default_pages_, exist(Page(d, i)), \A j \in 1..i - 1 : ~exist(Page(d, j))
      PROVE  i = m
  <2>1. m <= i /\ m \notin 1..i - 1
    BY <1>4, <1>5, <1>8
  <2> QED
    BY <1>1, <1>4, <1>8, <2>1
<1> QED
  BY <1>3, <1>4, <1>7, <1>8

(* What a mount finds is all it has: dispatchFile() decides by it. *)
FileOf(p) == IF IsDirectory(PathOf(p)) THEN getIndexPageFileName(PathOf(p)) ELSE PathOf(p)

LEMMA FileFacts ==
    ASSUME site \in Sites, url \in Urls, NEW p \in DOMAIN site.mounts, IsPrefix(p, url)
    PROVE  /\ IsDirectory(FileOf(p)) <=> Listed(p)
           /\ ~IsDirectory(FileOf(p)) => Len(FileOf(p)) # 1
           /\ \A f \in site.files : Has(p, f) <=> f = FileOf(p) /\ ~IsDirectory(FileOf(p))
<1> DEFINE d == PathOf(p)
<1>1. d \in Seq(STRING) /\ Len(d) >= 1
  BY PathFacts
<1>2. \A i \in DOMAIN default_pages_ : ~IsDirectory(Page(d, i)) /\ Len(Page(d, i)) # 1
  BY <1>1, IndexFacts
<1>3. CASE ~IsDirectory(d)
  <2>1. FileOf(p) = d
    BY <1>3 DEF FileOf
  <2>2. ~Listed(p)
    BY <1>3 DEF Listed
  <2>3. Len(d) # 1
    BY <1>3 DEF IsDirectory
  <2>4. \A f \in site.files : Has(p, f) <=> f = d
    BY <1>3 DEF Has
  <2> QED
    BY <1>3, <2>1, <2>2, <2>3, <2>4
<1>4. CASE IsDirectory(d) /\ Present(d) # {}
  <2>1. PICK m \in DOMAIN default_pages_ :
           /\ m = Min(Present(d))
           /\ \A j \in 1..m - 1 : ~exist(Page(d, j))
           /\ \A i \in DOMAIN default_pages_ :
                exist(Page(d, i)) /\ (\A j \in 1..i - 1 : ~exist(Page(d, j))) => i = m
    BY <1>4, FirstPage
  <2>2. FileOf(p) = Page(d, m)
    BY <1>4, <2>1 DEF FileOf, getIndexPageFileName
  <2>3. ~Listed(p)
    BY <1>4 DEF Listed
  <2>4. \A f \in site.files : Has(p, f) <=> f = Page(d, m)
    BY <1>4, <2>1 DEF Has, exist
  <2> QED
    BY <1>2, <2>1, <2>2, <2>3, <2>4
<1>5. CASE IsDirectory(d) /\ Present(d) = {}
  <2>1. FileOf(p) = d
    BY <1>5 DEF FileOf, getIndexPageFileName
  <2>2. Listed(p)
    BY <1>5 DEF Listed
  <2>3. \A f \in site.files : ~Has(p, f)
    BY <1>5 DEF Has, Present, exist
  <2> QED
    BY <1>5, <2>1, <2>2, <2>3
<1> QED
  BY <1>3, <1>4, <1>5
-----------------------------------------------------------------------------
LEMMA DispInitInv == DispInit /\ CgiIdle => DispInv
BY DEF DispInit, DispRest, CgiIdle, CgiRest, DispInv, CgiInv, DispatchExact

(* A step of the conversation: the request waits in "php". *)
LEMMA CgiKeeps ==
    ASSUME DispInv, CgiNext, UNCHANGED dispVars
    PROVE  DispInv'
<1>1. cgiPc \notin {"idle", "responded"} /\ cgiPc' # "idle" /\ CgiInv'
  BY CgiStep DEF DispInv
<1>2. dispPc = "php"
  BY <1>1 DEF DispInv
<1>3. /\ dispPc' = dispPc /\ site' = site /\ url' = url /\ response' = response
      /\ site \in Sites /\ url \in Urls /\ ForFiles /\ FileAnswer /\ response.code = 200
  BY <1>2 DEF dispVars, DispInv
<1>4. ForFiles'
  BY <1>3 DEF ForFiles
<1>5. FileAnswer'
  <2>1. \A p : Has(p, response.source)' <=> Has(p, response.source)
    BY <1>3 DEF Has, PathOf, Page, exist, IsDirectory
  <2> QED
    BY <1>1, <1>3, <2>1 DEF FileAnswer, Nothing
<1> QED
  BY <1>1, <1>2, <1>3, <1>4, <1>5 DEF DispInv, DispatchExact

(* The step of a service or of a pattern. *)
LEMMA PatternKeeps ==
    ASSUME DispInv, dispatchUrlPattern
    PROVE  DispInv'
<1>1. /\ dispPc = "pattern" /\ cgiPc = "idle" /\ response = Nothing /\ CgiInv
      /\ site \in Sites /\ url \in Urls
  BY DEF dispatchUrlPattern, DispInv
<1>2. site' = site /\ url' = url /\ cgiPc' = cgiPc /\ cgiResp' = cgiResp
  BY DEF dispatchUrlPattern, cgiVars
<1>3. CgiInv'
  BY <1>1, <1>2 DEF CgiInv
<1>4. CASE url \in site.services
  <2>1. dispPc' = "finish" /\ ServedAs("service")'
    BY <1>4 DEF dispatchUrlPattern, Served, Respond, ServedAs
  <2> QED
    BY <1>1, <1>2, <1>3, <1>4, <2>1 DEF DispInv, DispatchExact
<1>5. CASE url \notin site.services /\ ~ForFiles
  <2>1. dispPc' = "finish" /\ ServedAs("pattern")'
    BY <1>5 DEF dispatchUrlPattern, Served, Respond, ServedAs, ForFiles
  <2>2. ~ForFiles'
    BY <1>2, <1>5 DEF ForFiles
  <2> QED
    BY <1>1, <1>2, <1>3, <1>5, <2>1, <2>2 DEF DispInv, DispatchExact
<1>6. CASE ForFiles
  <2>1. /\ unvisited' = DOMAIN site.mounts /\ response' = response
        /\ dispPc' = IF site.mounts = <<>> THEN "finish" ELSE "mounts"
    BY <1>6 DEF dispatchUrlPattern, ForFiles
  <2>2. ForFiles'
    BY <1>2, <1>6 DEF ForFiles
  <2>3. CASE site.mounts = <<>>
    <3>1. FileAnswer'
      BY <1>1, <1>2, <2>1, <2>3 DEF FileAnswer, Nothing
    <3> QED
      BY <1>1, <1>2, <1>3, <2>1, <2>2, <2>3, <3>1 DEF DispInv, DispatchExact
  <2>4. CASE site.mounts # <<>>
    BY <1>1, <1>2, <1>3, <2>1, <2>2, <2>4 DEF DispInv, DispatchExact, Nothing
  <2> QED
    BY <2>3, <2>4
<1> QED
  BY <1>4, <1>5, <1>6 DEF ForFiles

(* The step of a mount, or the end of the search. *)
LEMMA MountKeeps ==
    ASSUME DispInv, dispatchMountDir
    PROVE  DispInv'
<1>1. /\ dispPc = "mounts" /\ cgiPc = "idle" /\ response = Nothing /\ CgiInv
      /\ site \in Sites /\ url \in Urls /\ ForFiles /\ site.mounts # <<>>
      /\ unvisited \subseteq DOMAIN site.mounts
      /\ \A p \in DOMAIN site.mounts \ unvisited : ~Listed(p) /\ \A f \in site.files : ~Has(p, f)
  BY DEF dispatchMountDir, DispInv
<1>2. site' = site /\ url' = url
  BY DEF dispatchMountDir
<1>3. ForFiles'
  BY <1>1, <1>2 DEF ForFiles
<1>4. /\ Found' <=> Found
      /\ Refused403' <=> Refused403
      /\ \A p : \A f : Has(p, f)' <=> Has(p, f)
      /\ \A p : Listed(p)' <=> Listed(p)
  BY <1>2 DEF Found, Refused403, Has, Listed, PathOf, Present, Page, exist, IsDirectory
<1>5. ASSUME NEW c, NEW s, Answered(c, s), FileAnswer'
      PROVE  DispInv'
  <2>1. dispPc' = "finish" /\ cgiPc' = cgiPc /\ cgiResp' = cgiResp
    BY <1>5 DEF Answered, cgiVars
  <2>2. CgiInv'
    BY <1>1, <2>1 DEF CgiInv
  <2> QED
    BY <1>1, <1>2, <1>3, <1>5, <2>1, <2>2 DEF DispInv, DispatchExact
<1>6. CASE unvisited = {}
  <2>1. Answered(404, <<>>)
    BY <1>6 DEF dispatchMountDir
  <2>2. ~Found /\ ~Refused403
    BY <1>1, <1>6 DEF Found, Refused403
  <2>3. FileAnswer'
    BY <1>1, <1>2, <1>4, <2>1, <2>2 DEF FileAnswer, Answered, Respond, cgiVars
  <2> QED
    BY <1>5, <2>1, <2>3
<1>7. ASSUME NEW p \in unvisited, NotHere(p), ~Listed(p), \A f \in site.files : ~Has(p, f)
      PROVE  DispInv'
  <2>1. /\ dispPc' = dispPc /\ response' = response /\ cgiPc' = cgiPc /\ cgiResp' = cgiResp
        /\ unvisited' = unvisited \ {p}
    BY <1>7 DEF NotHere, cgiVars
  <2>2. CgiInv'
    BY <1>1, <2>1 DEF CgiInv
  <2>3. ASSUME NEW q \in DOMAIN site.mounts \ unvisited'
        PROVE  ~Listed(q)' /\ \A f \in site.files : ~Has(q, f)'
    BY <1>1, <1>4, <1>7, <2>1
  <2> QED
    BY <1>1, <1>2, <1>3, <2>1, <2>2, <2>3 DEF DispInv, DispatchExact, Nothing
<1>8. ASSUME NEW p \in unvisited, ~IsPrefix(p, url), NotHere(p)
      PROVE  DispInv'
  <2>1. ~Listed(p) /\ \A f \in site.files : ~Has(p, f)
    BY <1>8 DEF Listed, Has
  <2> QED
    BY <1>7, <1>8, <2>1
<1>9. ASSUME NEW p \in unvisited, IsPrefix(p, url), dispatchFile(p)
      PROVE  DispInv'
  <2>1. /\ IsDirectory(FileOf(p)) <=> Listed(p)
        /\ ~IsDirectory(FileOf(p)) => Len(FileOf(p)) # 1
        /\ \A f \in site.files : Has(p, f) <=> f = FileOf(p) /\ ~IsDirectory(FileOf(p))
    BY <1>1, <1>9, FileFacts
  <2>2. CASE IsDirectory(FileOf(p))
    <3>1. Answered(403, <<>>)
      BY <1>9, <2>2 DEF dispatchFile, FileOf
    <3>2. Refused403
      BY <1>1, <2>1, <2>2 DEF Refused403
    <3>3. FileAnswer'
      BY <1>1, <1>4, <3>1, <3>2 DEF FileAnswer, Answered, Respond, cgiVars
    <3> QED
      BY <1>5, <3>1, <3>3
  <2>3. CASE ~IsDirectory(FileOf(p)) /\ ~exist(FileOf(p))
    <3>1. NotHere(p)
      BY <1>9, <2>3 DEF dispatchFile, FileOf
    <3>2. ~Listed(p) /\ \A f \in site.files : ~Has(p, f)
      BY <2>1, <2>3 DEF exist
    <3> QED
      BY <1>7, <3>1, <3>2
  <2>4. CASE ~IsDirectory(FileOf(p)) /\ exist(FileOf(p))
    <3>1. Has(p, FileOf(p)) /\ Found /\ Len(FileOf(p)) # 1
      BY <1>1, <2>1, <2>4 DEF exist, Found
    <3> PICK path : path = FileOf(p)
      OBVIOUS
    <3>2. \E q \in DOMAIN site'.mounts : Has(q, path)'
      BY <1>1, <1>2, <1>4, <3>1
    <3>3. CASE Last(FileOf(p)) # "php"
      <4>1. Answered(200, FileOf(p))
        BY <1>9, <2>4, <3>3 DEF dispatchFile, FileOf
      <4>2. response' = [code |-> 200, source |-> path]
        BY <4>1 DEF Answered, Respond
      <4>3. FileAnswer'
        BY <3>1, <3>2, <4>2 DEF FileAnswer
      <4> QED
        BY <1>5, <4>1, <4>3
    <3>4. CASE Last(FileOf(p)) = "php" /\ ~site.enable_php
      <4>1. Answered(403, <<>>)
        BY <1>9, <2>4, <3>4 DEF dispatchFile, FileOf
      <4>2. FileAnswer'
        BY <1>1, <1>2, <1>4, <3>1, <3>4, <4>1 DEF FileAnswer, Answered, Respond, cgiVars
      <4> QED
        BY <1>5, <4>1, <4>2
    <3>5. CASE Last(FileOf(p)) = "php" /\ site.enable_php
      <4>1. /\ dispPc' = "php" /\ cgiPc' = "connect" /\ cgiResp' = cgiResp
            /\ response' = [code |-> 200, source |-> path]
        BY <1>9, <2>4, <3>5 DEF dispatchFile, FileOf, Respond
      <4>2. FileAnswer'
        BY <3>1, <3>2, <4>1 DEF FileAnswer
      <4>3. CgiInv'
        BY <1>1, <4>1 DEF CgiInv
      <4> QED
        BY <1>1, <1>2, <1>3, <4>1, <4>2, <4>3 DEF DispInv, DispatchExact
    <3> QED
      BY <3>3, <3>4, <3>5
  <2> QED
    BY <2>2, <2>3, <2>4
<1> QED
  BY <1>6, <1>8, <1>9 DEF dispatchMountDir

(* The answer of the script is the code of the response. *)
LEMMA PhpKeeps ==
    ASSUME DispInv, dispatchPhpProcessor
    PROVE  DispInv'
<1>1. /\ dispPc = "php" /\ cgiPc = "responded" /\ CgiInv
      /\ site \in Sites /\ url \in Urls /\ ForFiles /\ FileAnswer
      /\ cgiResp.code \in {200, 201, 404, 500}
  BY DEF dispatchPhpProcessor, DispInv, CgiInv
<1>2. /\ site' = site /\ url' = url /\ cgiPc' = cgiPc /\ cgiResp' = cgiResp /\ dispPc' = "finish"
      /\ response' = [code |-> cgiResp.code, source |-> response.source]
  BY DEF dispatchPhpProcessor, cgiVars, Respond
<1>3. ForFiles' /\ CgiInv'
  BY <1>1, <1>2 DEF ForFiles, CgiInv
<1>4. \E p \in DOMAIN site.mounts : Has(p, response.source) /\ Len(response.source) # 1
  BY <1>1 DEF FileAnswer
<1>5. \E p \in DOMAIN site'.mounts : Has(p, response.source)'
  BY <1>2, <1>4 DEF Has, PathOf, Page, exist, IsDirectory
<1>6. FileAnswer'
  BY <1>1, <1>2, <1>4, <1>5 DEF FileAnswer
<1> QED
  BY <1>1, <1>2, <1>3, <1>6 DEF DispInv, DispatchExact

(* The error page, and the end. *)
LEMMA ErrorKeeps ==
    ASSUME DispInv, onError
    PROVE  DispInv'
<1>1. /\ dispPc = "finish" /\ CgiInv /\ site \in Sites /\ url \in Urls
      /\ cgiPc \in {"idle", "responded"}
      /\ \/ url \in site.services /\ ServedAs("service")
         \/ url \notin site.services /\ ~ForFiles /\ ServedAs("pattern")
         \/ ForFiles /\ FileAnswer
  BY DEF onError, DispInv
<1>2. /\ site' = site /\ url' = url /\ cgiPc' = cgiPc /\ cgiResp' = cgiResp /\ dispPc' = "sent"
      /\ response' = IF response.code \in 400..599
                     THEN [code |-> response.code, source |-> <<"error_page">>] ELSE response
  BY DEF onError, cgiVars, Respond
<1>3. CgiInv'
  BY <1>1, <1>2 DEF CgiInv
<1>4. /\ Found' <=> Found
      /\ Refused403' <=> Refused403
      /\ \A p : \A f : Has(p, f)' <=> Has(p, f)
  BY <1>2 DEF Found, Refused403, Has, Listed, PathOf, Present, Page, exist, IsDirectory
<1>5. ASSUME NEW name, ServedAs(name)
      PROVE  response' \in Answers(name)
  <2>1. CASE response = [code |-> 200, source |-> <<name>>]
    <3>1. response.code = 200 /\ 200 \notin 400..599
      BY <2>1
    <3>2. response' = response
      BY <1>2, <3>1
    <3> QED
      BY <2>1, <3>2 DEF Answers
  <2>2. CASE response = [code |-> 405, source |-> <<name>>]
    <3>1. response.code = 405 /\ 405 \in 400..599
      BY <2>2
    <3>2. response' = [code |-> 405, source |-> <<"error_page">>]
      BY <1>2, <3>1
    <3> QED
      BY <3>2 DEF Answers
  <2> QED
    BY <1>5, <2>1, <2>2 DEF ServedAs
<1>6. CASE url \in site.services /\ ServedAs("service")
  <2>1. response' \in Answers("service")
    BY <1>5, <1>6
  <2>2. DispatchExact'
    BY <1>2, <1>6, <2>1 DEF DispatchExact, Answers
  <2> QED
    BY <1>1, <1>2, <1>3, <2>2 DEF DispInv
<1>7. CASE url \notin site.services /\ ~ForFiles /\ ServedAs("pattern")
  <2>1. response' \in Answers("pattern")
    BY <1>5, <1>7
  <2>2. DispatchExact'
    BY <1>2, <1>7, <2>1 DEF DispatchExact, Answers, ForFiles
  <2> QED
    BY <1>1, <1>2, <1>3, <2>2 DEF DispInv
<1>8. CASE ForFiles /\ FileAnswer
  <2> PICK c, s : c = response'.code /\ s = response'.source
    OBVIOUS
  <2>1. /\ c = 404 /\ cgiPc = "idle" <=> ~Found /\ ~Refused403 /\ site.mounts # <<>>
        /\ c >= 400 <=> s = <<"error_page">>
        /\ c = 200 /\ s # <<>> => \E p \in DOMAIN site.mounts : Has(p, s)
        /\ Found /\ ~Refused403 /\ site.enable_php /\ cgiPc = "idle" => c = 200
    <3>1. CASE response = Nothing /\ site.mounts = <<>> /\ cgiPc = "idle"
      <4>1. c = 200 /\ s = <<>> /\ s # <<"error_page">>
        BY <1>2, <3>1 DEF Nothing
      <4>2. ~Found
        BY <3>1 DEF Found
      <4> QED
        BY <3>1, <4>1, <4>2
    <3>2. CASE /\ response = [code |-> 404, source |-> <<>>] /\ site.mounts # <<>> /\ cgiPc = "idle"
               /\ ~Found /\ ~Refused403
      <4>1. response.code = 404 /\ 404 \in 400..599
        BY <3>2
      <4>2. response' = [code |-> 404, source |-> <<"error_page">>]
        BY <1>2, <4>1
      <4>3. c = 404 /\ s = <<"error_page">>
        BY <4>2
      <4>4. c >= 400 /\ c # 200
        BY <4>3
      <4> QED
        BY <3>2, <4>3, <4>4
    <3>3. CASE /\ response = [code |-> 403, source |-> <<>>] /\ cgiPc = "idle"
               /\ Refused403 \/ (Found /\ ~site.enable_php)
      <4>1. response.code = 403 /\ 403 \in 400..599
        BY <3>3
      <4>2. response' = [code |-> 403, source |-> <<"error_page">>]
        BY <1>2, <4>1
      <4>3. c = 403 /\ s = <<"error_page">>
        BY <4>2
      <4>4. c >= 400 /\ c # 200
        BY <4>3
      <4> QED
        BY <3>3, <4>3, <4>4
    <3>4. CASE /\ response.code \in {200, 201, 404, 500}
               /\ \E p \in DOMAIN site.mounts : Has(p, response.source)
               /\ Len(response.source) # 1
               /\ cgiPc = "idle" => response.code = 200
      <4>1. Found
        BY <3>4 DEF Found, Has
      <4>2. response.source # <<"error_page">>
        <5>1. Len(<<"error_page">>) = 1
          OBVIOUS
        <5> QED
          BY <3>4, <5>1
      <4>3. CASE response.code \in {200, 201}
        <5>1. response.code \notin 400..599
          BY <4>3
        <5>2. c = response.code /\ s = response.source
          BY <1>2, <5>1
        <5>3. ~(c >= 400) /\ c # 404
          BY <4>3, <5>2
        <5> QED
          BY <3>4, <4>1, <4>2, <5>2, <5>3
      <4>4. CASE response.code \in {404, 500}
        <5>1. response.code \in 400..599
          BY <4>4
        <5>2. c = response.code /\ s = <<"error_page">>
          BY <1>2, <5>1
        <5>3. c >= 400 /\ c # 200
          BY <4>4, <5>2
        <5> QED
          BY <3>4, <4>1, <4>4, <5>2, <5>3
      <4> QED
        BY <3>4, <4>3, <4>4
    <3> QED
      BY <1>8, <3>1, <3>2, <3>3, <3>4 DEF FileAnswer
  <2>2. ASSUME NEW p, Has(p, s)
        PROVE  Has(p, response.source)'
    BY <1>2, <2>2 DEF Has, PathOf, Page, exist, IsDirectory
  <2>3. c = 200 /\ s # <<>> => \E p \in DOMAIN site'.mounts : Has(p, response.source)'
    BY <1>2, <2>1, <2>2
  <2>4. url' \notin site'.services /\ ~(\E q \in site'.patterns : url' \in q)
    BY <1>2, <1>8 DEF ForFiles
  <2>5. /\ response'.code = 404 /\ cgiPc' = "idle" <=> ~Found' /\ ~Refused403' /\ site'.mounts # <<>>
        /\ response'.code >= 400 <=> response'.source = <<"error_page">>
        /\ Found' /\ ~Refused403' /\ site'.enable_php /\ cgiPc' = "idle" => response'.code = 200
    BY <1>2, <1>4, <2>1
  <2>6. response'.code = 200 /\ response'.source # <<>> =>
          \E p \in DOMAIN site'.mounts : Has(p, response.source)'
    BY <2>3
  <2>7. DispatchExact'
    BY <2>4, <2>5, <2>6, Zenon DEF DispatchExact
  <2> QED
    BY <1>1, <1>2, <1>3, <2>7 DEF DispInv
<1> QED
  BY <1>1, <1>6, <1>7, <1>8

LEMMA DispKeeps ==
    DispInv /\ [(CgiNext /\ UNCHANGED dispVars) \/ DispNext]_<<cgiVars, dispVars>> => DispInv'
<1> SUFFICES ASSUME DispInv, [(CgiNext /\ UNCHANGED dispVars) \/ DispNext]_<<cgiVars, dispVars>>
             PROVE  DispInv'
  OBVIOUS
<1>1. CASE CgiNext /\ UNCHANGED dispVars
  BY <1>1, CgiKeeps
<1>2. CASE dispatchUrlPattern
  BY <1>2, PatternKeeps
<1>3. CASE dispatchMountDir
  BY <1>3, MountKeeps
<1>4. CASE dispatchPhpProcessor
  BY <1>4, PhpKeeps
<1>5. CASE onError
  BY <1>5, ErrorKeeps
<1>6. CASE UNCHANGED <<cgiVars, dispVars>>
  <2>1. /\ site' = site /\ url' = url /\ unvisited' = unvisited /\ response' = response
        /\ dispPc' = dispPc /\ cgiPc' = cgiPc /\ cgiResp' = cgiResp
    BY <1>6 DEF cgiVars, dispVars
  <2>2. /\ Found' <=> Found
        /\ Refused403' <=> Refused403
        /\ \A p : \A f : Has(p, f)' <=> Has(p, f)
        /\ \A p : Listed(p)' <=> Listed(p)
        /\ \A p : Has(p, response.source)' <=> Has(p, response.source)
    BY <2>1 DEF Found, Refused403, Has, Listed, PathOf, Present, Page, exist, IsDirectory
  <2>3. DispatchExact'
    BY <2>1, <2>2 DEF DispInv, DispatchExact, Answers
  <2>4. CgiInv' /\ (ForFiles' <=> ForFiles) /\ (FileAnswer => FileAnswer')
    BY <2>1, <2>2 DEF DispInv, CgiInv, ForFiles, FileAnswer, Nothing
  <2>5. \A name : ServedAs(name)' <=> ServedAs(name)
    BY <2>1 DEF ServedAs
  <2> QED
    BY <2>1, <2>2, <2>3, <2>4, <2>5 DEF DispInv, Nothing
<1> QED
  BY <1>1, <1>2, <1>3, <1>4, <1>5, <1>6 DEF DispNext

(***************************************************************************)
(* DispatchAlwaysExact: on every server, whatever its services, patterns,  *)
(* mounts and files, and for every URL, the response is the one that       *)
(* DispatchExact describes, in whatever order the mounts are visited and   *)
(* whatever php-fpm answers (HttpServer.cc 108-121, 180-263).              *)
(***************************************************************************)
THEOREM DispatchAlwaysExact == DispSpec => []DispatchExact
<1>1. DispInv => DispatchExact
  BY DEF DispInv
<1> QED
  BY <1>1, DispInitInv, DispKeeps, PTL DEF DispSpec

-----------------------------------------------------------------------------
(***************************************************************************)
(* JSON.  Once the parser is in its loops, the last token closes a         *)
(* container (handle_begin_end_mismatch_exception), so a key is not the    *)
(* last token and neither is a colon: that is what keeps the index of the  *)
(* value inside the list.                                                  *)
(***************************************************************************)
Closed == /\ token_list # <<>>
          /\ token_list[Len(token_list)].tag \in {"OBJECT_END", "ARRAY_END"}

JsonInv == /\ sbuffer \in Seq(STRING \ {EOF})
           /\ jsonPc = "lex" => ptr \in 0..(Len(sbuffer) + 1)
           /\ jsonPc \in {"parse", "loop", "done"} => ptr = Len(sbuffer) + 1
           /\ \E S : token_list \in Seq(S)
           /\ tokenIndex \in 0..Len(token_list)
           /\ jsonPc \in {"lex", "parse"} => tokenIndex = 0
           /\ jsonPc = "loop" => Closed

(* A loop over the characters of S ends in the text or just behind it. *)
LEMMA FirstBounds ==
    ASSUME sbuffer \in Seq(STRING \ {EOF}), NEW i \in Nat, i <= Len(sbuffer) + 1, NEW S, EOF \notin S
    PROVE  First(i, S) \in i..(Len(sbuffer) + 1)
<1> DEFINE T == {j \in i..(Len(sbuffer) + 1) : CharAt(j) \notin S}
<1>1. Len(sbuffer) \in Nat /\ DOMAIN sbuffer = 1..Len(sbuffer)
  OBVIOUS
<1>2. Len(sbuffer) + 1 \in T
  BY <1>1 DEF CharAt
<1>3. T \subseteq Nat
  BY <1>1
<1>4. Min(T) \in T
  <2> HIDE DEF T
  <2> QED
    BY <1>2, <1>3, MinOfNats
<1> QED
  BY <1>4 DEF First

(* A character that was compared with something else than EOF is one of the text. *)
LEMMA InText ==
    ASSUME NEW i, CharAt(i) # EOF
    PROVE  i \in DOMAIN sbuffer
BY DEF CharAt

LEMMA LexNumberBounds ==
    ASSUME sbuffer \in Seq(STRING \ {EOF}), NEW i \in DOMAIN sbuffer, ptr \in 0..(Len(sbuffer) + 1),
           lexNumber(i), jsonPc' # "refused"
    PROVE  ptr' \in 0..(Len(sbuffer) + 1)
<1>1. Len(sbuffer) \in Nat /\ DOMAIN sbuffer = 1..Len(sbuffer) /\ i \in Nat /\ i + 1 \in Nat /\ i + 1 <= Len(sbuffer) + 1
  OBVIOUS
<1>2. PICK j : j = First(i + 1, Digits)
  OBVIOUS
<1>3. j \in (i + 1)..(Len(sbuffer) + 1)
  BY <1>1, <1>2, FirstBounds DEF Digits, EOF
<1>4. PICK k : k = First(j + 1, Digits \cup Exponent \cup Signs)
  OBVIOUS
<1>5. CASE \E to : Refused(to)
  BY <1>5 DEF Refused
<1>6. CASE ptr' = j - 1
  BY <1>1, <1>3, <1>6
<1>7. CASE CharAt(j) \in Exponent \cup {"."} /\ ptr' = k - 1
  <2>1. CharAt(j) # EOF
    BY <1>7 DEF Exponent, EOF
  <2>2. j + 1 \in Nat /\ j + 1 <= Len(sbuffer) + 1
    BY <1>1, <1>3, <2>1, InText
  <2>3. k \in (j + 1)..(Len(sbuffer) + 1)
    BY <1>4, <2>2, FirstBounds DEF Digits, Exponent, Signs, EOF
  <2> QED
    BY <1>1, <1>3, <1>7, <2>3
<1> QED
  BY <1>2, <1>4, <1>5, <1>6, <1>7 DEF lexNumber, Emit

LEMMA LexBounds ==
    ASSUME sbuffer \in Seq(STRING \ {EOF}), ptr \in 0..(Len(sbuffer) + 1), analysis,
           jsonPc' \notin {"refused", "spins"}
    PROVE  ptr' \in 0..(Len(sbuffer) + 1)
<1>1. Len(sbuffer) \in Nat /\ DOMAIN sbuffer = 1..Len(sbuffer) /\ ptr + 1 \in Nat /\ ptr + 1 <= Len(sbuffer) + 1
  BY DEF analysis
<1>2. PICK i : i = First(ptr + 1, Blanks)
  OBVIOUS
<1>3. EOF \notin Blanks
  BY Zenon DEF EOF, Blanks
<1>4. i \in (ptr + 1)..(Len(sbuffer) + 1)
  BY <1>1, <1>2, <1>3, FirstBounds
<1>5. CASE Spins \/ \E to : Refused(to)
  BY <1>5 DEF Refused, Spins
<1>6. CASE ptr' = i
  BY <1>1, <1>4, <1>6
<1>7. CASE lexString(i)
  <2>1. PICK e : e = StringEnd(i + 1)
    OBVIOUS
  <2>2. CASE CharAt(e) # EOF /\ ptr' = e
    BY <1>1, <2>2, InText
  <2> QED
    BY <1>5, <1>7, <2>1, <2>2 DEF lexString, Emit
<1>8. CASE lexComment(i)
  <2>1. CASE CharAt(i + 1) = "/" /\ ptr' = First(i + 2, Range(sbuffer) \ {"\n"})
    <3>1. CharAt(i + 1) # EOF
      BY <2>1 DEF EOF
    <3>2. i + 2 \in Nat /\ i + 2 <= Len(sbuffer) + 1
      BY <1>1, <1>4, <3>1, InText
    <3>3. EOF \notin Range(sbuffer) \ {"\n"}
      BY DEF Range
    <3> QED
      BY <1>1, <1>4, <2>1, <3>2, <3>3, FirstBounds
  <2>2. CASE CharAt(CommentEnd(i + 2)) # EOF /\ ptr' = CommentEnd(i + 2)
    BY <1>1, <2>2, InText
  <2> QED
    BY <1>5, <1>8, <2>1, <2>2 DEF lexComment, Skip
<1>9. CASE CharAt(i) \in Digits \cup Signs /\ lexNumber(i)
  <2>1. CharAt(i) # EOF
    BY <1>9 DEF Digits, Signs, EOF
  <2> QED
    BY <1>9, <2>1, InText, LexNumberBounds
<1> QED
  BY <1>2, <1>5, <1>6, <1>7, <1>8, <1>9 DEF analysis, Emit, Skip

-----------------------------------------------------------------------------
LEMMA TokensAre ==
    ASSUME \E S : token_list \in Seq(S)
    PROVE  Len(token_list) \in Nat /\ DOMAIN token_list = 1..Len(token_list)
OBVIOUS

(* What parseJsonObject() relies on: behind a key are two more tokens, unless it throws. *)
LEMMA ValueIsThere ==
    ASSUME \E S : token_list \in Seq(S), Closed,
           NEW i \in DOMAIN token_list, ~key_not_string(i), ~object_missing_separator(i)
    PROVE  i + 2 \in DOMAIN token_list
<1>1. Len(token_list) \in Nat /\ DOMAIN token_list = 1..Len(token_list)
  BY TokensAre
<1>2. token_list[i].tag = "string"
  BY DEF key_not_string, TagAt
<1>3. i # Len(token_list)
  BY <1>2 DEF Closed
<1>4. i + 1 \in DOMAIN token_list
  BY <1>1, <1>3
<1>5. token_list[i + 1].tag \in {"KEY_VALUE_SEP", "none"}
  BY <1>4 DEF object_missing_separator, TagAt
<1>6. i + 1 # Len(token_list)
  BY <1>5 DEF Closed
<1> QED
  BY <1>1, <1>4, <1>6

LEMMA JsonInvBounds == JsonInv => JsonInBounds
<1> SUFFICES ASSUME JsonInv PROVE JsonInBounds
  OBVIOUS
<1>1. ASSUME NEW i \in DOMAIN token_list, jsonPc = "loop", ~key_not_string(i), ~object_missing_separator(i)
      PROVE  i + 2 \in DOMAIN token_list
  BY <1>1, ValueIsThere DEF JsonInv
<1> QED
  BY <1>1 DEF JsonInBounds, JsonInv

LEMMA JsonInitInv == AnyBuffer \/ AnyTokens => JsonInv
<1>1. ASSUME AnyBuffer PROVE JsonInv
  <2>1. token_list \in Seq({}) /\ Len(token_list) = 0
    BY <1>1 DEF AnyBuffer
  <2> QED
    BY <1>1, <2>1 DEF AnyBuffer, JsonRest, JsonInv
<1>2. ASSUME AnyTokens PROVE JsonInv
  <2>1. \E S : token_list \in Seq(S)
    BY <1>2, Zenon DEF AnyTokens
  <2>2. /\ sbuffer = <<>> /\ ptr = 1 /\ jsonPc = "parse" /\ tokenIndex = 0
    BY <1>2, Zenon DEF AnyTokens, JsonRest
  <2>3. sbuffer \in Seq(STRING \ {EOF}) /\ Len(sbuffer) = 0
    BY <2>2
  <2> QED
    BY <2>1, <2>2, <2>3, TokensAre DEF JsonInv
<1> QED
  BY <1>1, <1>2

(* A step of the lexer, with or without a new token. *)
LEMMA AnalysisKeeps ==
    ASSUME JsonInv, analysis
    PROVE  JsonInv'
<1>1. jsonPc' \notin {"refused", "spins"} => ptr' \in 0..(Len(sbuffer) + 1)
  BY LexBounds DEF JsonInv, analysis
<1>2. sbuffer' = sbuffer /\ tokenIndex' = tokenIndex /\ jsonPc = "lex" /\ tokenIndex = 0
  BY DEF analysis, JsonInv
<1>3. /\ token_list' = token_list \/ \E t : token_list' = Append(token_list, t)
      /\ jsonPc' \in {"lex", "refused", "spins"}
  <2>1. PICK i : i = First(ptr + 1, Blanks)
    OBVIOUS
  <2>2. CASE Spins \/ \E to : Refused(to)
    BY <2>2 DEF Refused, Spins
  <2>3. CASE \E to : Skip(to)
    BY <1>2, <2>3 DEF Skip
  <2>4. CASE \E tag, text, to : Emit(tag, text, to)
    BY <1>2, <2>4 DEF Emit
  <2>5. CASE lexString(i)
    BY <2>2, <2>4, <2>5, Zenon DEF lexString
  <2>6. CASE lexComment(i)
    BY <2>2, <2>3, <2>6, Zenon DEF lexComment
  <2>7. CASE lexNumber(i)
    BY <2>2, <2>4, <2>7, Zenon DEF lexNumber
  <2> QED
    BY <2>1, <2>2, <2>3, <2>4, <2>5, <2>6, <2>7, Zenon DEF analysis
<1>4. \E S : token_list' \in Seq(S)
  <2>1. CASE token_list' = token_list
    BY <2>1 DEF JsonInv
  <2>2. ASSUME NEW t, token_list' = Append(token_list, t)
        PROVE  \E S : token_list' \in Seq(S)
    <3>1. PICK S : token_list \in Seq(S)
      BY DEF JsonInv
    <3>2. token_list \in Seq(S \cup {t})
      BY <3>1, SeqMonotonic
    <3>3. token_list' \in Seq(S \cup {t})
      BY <2>2, <3>2
    <3> QED
      BY <3>3
  <2> QED
    BY <1>3, <2>1, <2>2
<1>5. Len(token_list') \in Nat
  BY <1>4
<1> QED
  BY <1>1, <1>2, <1>3, <1>4, <1>5 DEF JsonInv

LEMMA RoundKeeps ==
    ASSUME JsonInv, Round
    PROVE  JsonInv'
BY DEF Round, JsonInv, Closed

LEMMA GetTokensKeeps ==
    ASSUME JsonInv, getTokens
    PROVE  JsonInv'
<1>1. Len(sbuffer) \in Nat /\ ptr = Len(sbuffer) + 1
  BY DEF getTokens, JsonInv
<1> QED
  BY <1>1 DEF getTokens, JsonInv, Closed

LEMMA ParseKeeps ==
    ASSUME JsonInv, parse
    PROVE  JsonInv'
<1>1. /\ jsonPc = "parse" /\ tokenIndex = 0
      /\ sbuffer' = sbuffer /\ ptr' = ptr /\ token_list' = token_list
      /\ Len(token_list) \in Nat /\ DOMAIN token_list = 1..Len(token_list)
      /\ sbuffer \in Seq(STRING \ {EOF}) /\ ptr = Len(sbuffer) + 1
      /\ \E S : token_list \in Seq(S)
  BY TokensAre DEF parse, JsonInv
<1>2. CASE jsonPc' \in {"done", "refused"} /\ tokenIndex' \in {0, 1} /\ (tokenIndex' = 1 => token_list # <<>>)
  <2>1. tokenIndex' \in 0..Len(token_list)
    BY <1>1, <1>2
  <2> QED
    BY <1>1, <1>2, <2>1 DEF JsonInv
<1>3. CASE Opens(1) /\ ~begin_end_mismatch /\ jsonPc' = "loop" /\ tokenIndex' = 1
  <2>1. 1 \in DOMAIN token_list
    BY <1>3 DEF Opens, TagAt
  <2>2. Closed
    BY <1>1, <1>3, <2>1 DEF Opens, begin_end_mismatch, TagAt, Last, Closed
  <2>3. Closed' /\ tokenIndex' \in 0..Len(token_list)
    BY <1>1, <1>3, <2>1, <2>2 DEF Closed
  <2> QED
    BY <1>1, <1>3, <2>3 DEF JsonInv
<1> QED
  BY <1>1, <1>2, <1>3 DEF parse, Throw, Take

(* The loops: an index is increased only past a token that is there. *)
LEMMA LoopKeeps ==
    ASSUME JsonInv, jsonPc = "loop", UNCHANGED <<sbuffer, ptr, token_list>>,
           tokenIndex' \in 0..Len(token_list), jsonPc' \in {"loop", "done", "refused"}
    PROVE  JsonInv'
BY DEF JsonInv, Closed

LEMMA ReturnStep ==
    ASSUME NEW n \in Nat, Return(n), jsonPc = "loop"
    PROVE  tokenIndex' = tokenIndex + n /\ jsonPc' \in {"loop", "done"}
BY DEF Return, Take

LEMMA ValueStep ==
    ASSUME NEW i, NEW key, NEW n \in Nat, Value(i, key, n), jsonPc = "loop"
    PROVE  /\ tokenIndex' = tokenIndex \/ tokenIndex' = tokenIndex + n
           /\ jsonPc' \in {"loop", "refused"}
BY DEF Value, Throw, Take

LEMMA EndOrSeparatorStep ==
    ASSUME JsonInv, jsonPc = "loop", NEW i, i = tokenIndex + 1, EndOrSeparator(i),
           TagAt(i) \in {"none", "OBJECT_END", "ARRAY_END", "SEP"}
    PROVE  tokenIndex' \in 0..Len(token_list) /\ jsonPc' \in {"loop", "done", "refused"}
<1>1. Len(token_list) \in Nat /\ DOMAIN token_list = 1..Len(token_list) /\ tokenIndex \in 0..Len(token_list)
  BY TokensAre DEF JsonInv
<1>2. CASE Throw
  BY <1>1, <1>2 DEF Throw
<1>3. CASE Return(0)
  BY <1>1, <1>3, ReturnStep
<1>4. CASE TagAt(i) # "none" /\ (Return(1) \/ (Take(1) /\ jsonPc' = jsonPc))
  <2>1. i \in DOMAIN token_list
    BY <1>4 DEF TagAt
  <2>2. tokenIndex' = tokenIndex + 1 /\ jsonPc' \in {"loop", "done"}
    BY <1>4, ReturnStep DEF Take
  <2> QED
    BY <1>1, <2>1, <2>2
<1> QED
  BY <1>2, <1>3, <1>4 DEF EndOrSeparator

LEMMA ArrayKeeps ==
    ASSUME JsonInv, parseJsonArray
    PROVE  JsonInv'
<1>1. jsonPc = "loop" /\ UNCHANGED <<sbuffer, ptr, token_list>>
  BY DEF parseJsonArray, Loop
<1>2. Len(token_list) \in Nat /\ DOMAIN token_list = 1..Len(token_list) /\ tokenIndex \in 0..Len(token_list)
  BY TokensAre DEF JsonInv
<1>3. PICK i : i = tokenIndex + 1
  OBVIOUS
<1>4. CASE TagAt(i) \in {"none", "ARRAY_END", "SEP"}
  <2>1. EndOrSeparator(i)
    BY <1>3, <1>4 DEF parseJsonArray
  <2> QED
    BY <1>1, <1>3, <1>4, <2>1, EndOrSeparatorStep, LoopKeeps
<1>5. CASE TagAt(i) \notin {"none", "ARRAY_END", "SEP"}
  <2>1. Value(i, <<>>, 1)
    BY <1>3, <1>5 DEF parseJsonArray
  <2>2. i \in DOMAIN token_list
    BY <1>5 DEF TagAt
  <2>3. /\ tokenIndex' = tokenIndex \/ tokenIndex' = tokenIndex + 1
        /\ jsonPc' \in {"loop", "refused"}
    BY <1>1, <2>1, ValueStep
  <2>4. tokenIndex' \in 0..Len(token_list)
    BY <1>2, <1>3, <2>2, <2>3
  <2> QED
    BY <1>1, <2>3, <2>4, LoopKeeps
<1> QED
  BY <1>4, <1>5

LEMMA ObjectKeeps ==
    ASSUME JsonInv, parseJsonObject
    PROVE  JsonInv'
<1>1. jsonPc = "loop" /\ UNCHANGED <<sbuffer, ptr, token_list>>
  BY DEF parseJsonObject, Loop
<1>2. Len(token_list) \in Nat /\ DOMAIN token_list = 1..Len(token_list) /\ tokenIndex \in 0..Len(token_list)
  BY TokensAre DEF JsonInv
<1>3. PICK i : i = tokenIndex + 1
  OBVIOUS
<1>4. CASE EndOrSeparator(i) /\ TagAt(i) \in {"none", "OBJECT_END", "SEP"}
  BY <1>1, <1>3, <1>4, EndOrSeparatorStep, LoopKeeps
<1>5. CASE Throw
  BY <1>1, <1>2, <1>5, LoopKeeps DEF Throw
<1>6. CASE /\ TagAt(i) \notin {"none", "OBJECT_END", "SEP"} /\ ~key_not_string(i)
           /\ ~object_missing_separator(i) /\ Value(i + 2, token_list[i].text, 3)
  <2>1. i \in DOMAIN token_list
    BY <1>6 DEF TagAt
  <2>2. i + 2 \in DOMAIN token_list
    BY <1>1, <1>6, <2>1, ValueIsThere DEF JsonInv
  <2>3. /\ tokenIndex' = tokenIndex \/ tokenIndex' = tokenIndex + 3
        /\ jsonPc' \in {"loop", "refused"}
    BY <1>1, <1>6, ValueStep
  <2>4. tokenIndex' \in 0..Len(token_list)
    BY <1>2, <1>3, <2>2, <2>3
  <2> QED
    BY <1>1, <2>3, <2>4, LoopKeeps
<1> QED
  BY <1>3, <1>4, <1>5, <1>6 DEF parseJsonObject

LEMMA JsonKeeps == JsonInv /\ [JsonNext]_jsonVars => JsonInv'
<1> SUFFICES ASSUME JsonInv, [JsonNext]_jsonVars PROVE JsonInv'
  OBVIOUS
<1>1. CASE UNCHANGED jsonVars
  BY <1>1 DEF jsonVars, JsonInv, Closed
<1> QED
  BY <1>1, AnalysisKeeps, RoundKeeps, GetTokensKeeps, ParseKeeps, ArrayKeeps, ObjectKeeps DEF JsonNext

(***************************************************************************)
(* JsonAlwaysInBounds: for every text and every sequence of tokens the     *)
(* parser takes only tokens that are there, also where it does not compare *)
(* __tokenIndex with __tokenLength, and a text that is accepted was read   *)
(* to its end and no further, whatever the lexer went back and forth on    *)
(* the way; where it runs past the end, in a word cut off or in a string   *)
(* or comment without an end, the text is refused or the loop never ends   *)
(* (JsonParser.cc 23-30, JsonReader.h 47-79, JsonLexer.h 70-159).          *)
(***************************************************************************)
THEOREM JsonAlwaysInBounds == JsonSpec => []JsonInBounds
BY JsonInitInv, JsonKeeps, JsonInvBounds, PTL DEF JsonSpec
=============================================================================
