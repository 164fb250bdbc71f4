-------------------------------- MODULE Routing --------------------------------
(***************************************************************************)
(* Who answers a request: PacketProcessor::FindSite, Page::CheckURL,       *)
(* FileManager::ProcessFile.  The sites, their pages and the files under   *)
(* content/ are given; what a page does is the site's own code.            *)
(*                                                                         *)
(* A site is a record: Domains, a set of host names; Pages, a sequence of  *)
(* records [URL, Dynamic]; Protocols, the set it accepts; Get400, whether  *)
(* it has a page for bad requests; Files, a set of records [path, size];   *)
(* Cached, the directories in which there is a file cached_dir.txt.        *)
(***************************************************************************)
EXTENDS Integers, Sequences, TLC, SequencesExt

CONSTANTS
  Sites,      \* the sites, in the order they were loaded
  MAX_URL     \* 512

ASSUME RoutingAssumption ==
  /\ MAX_URL \in Nat
  /\ Sites \in Seq([Domains : SUBSET Seq(STRING), Protocols : SUBSET STRING, Get400 : BOOLEAN,
                    Pages : Seq([URL : Seq(STRING), Dynamic : BOOLEAN]),
                    Files : SUBSET [path : Seq(STRING), size : Nat], Cached : SUBSET Seq(STRING)])

(* The index of the first site for a domain, of its first page for a URL;  *)
(* 0 if there is none.                                                     *)
FindSite(domain) == SelectInSeq(Sites, LAMBDA s : domain \in s.Domains)

CheckURL(page, url) ==
  IF page.Dynamic THEN Len(page.URL) <= Len(url) /\ SubSeq(url, 1, Len(page.URL)) = page.URL
  ELSE page.URL = url

FindPage(site, url) == SelectInSeq(Sites[site].Pages, LAMBDA p : CheckURL(p, url))

(* GetFileTypeByExtAlt goes by the letter behind the last dot, or by two,  *)
(* but never looks at the last letter of the name.                         *)
ByLetter == ("a" :> "video/x-msvideo") @@ ("c" :> "text/css") @@ ("d" :> "application/msword")
  @@ ("g" :> "image/gif") @@ ("h" :> "text/html") @@ ("m" :> "audio/mpeg") @@ ("p" :> "image/png")
  @@ ("i" :> "image/x-icon") @@ ("z" :> "application/zip") @@ ("t" :> "text/plain")
  @@ ("jp" :> "image/jpeg") @@ ("js" :> "application/x-javascript")

MediaType(name) ==
  LET dot == SelectLastInSubSeq(name, 2, Len(name), LAMBDA c : c = ".")
      letter(i) == IF dot # 0 /\ dot + i < Len(name) THEN name[dot + i] ELSE ""
      key == IF letter(1) = "j" /\ letter(2) = "p" THEN "jp"
             ELSE IF letter(1) = "j" /\ letter(2) = "s" THEN "js" ELSE letter(1)
  IN  IF key \in DOMAIN ByLetter THEN ByLetter[key] ELSE "application/octet-stream"

Dots(url) == url[1] = "." \/ \E i \in 1 .. Len(url) - 1 : url[i] = "." /\ url[i + 1] = "."

Directory(url) == SubSeq(url, 1, SelectLastInSeq(url, LAMBDA c : c = "/") - 1)

Cached(site, url) ==
  (Len(url) > 1 /\ url[1] = "cached_") \/ Directory(url) \in Sites[site].Cached

Answer(status, from, type, cached) ==
  [status |-> status, from |-> from, type |-> type, cached |-> cached]

(* SendResult says nothing when the connection is gone.                    *)
SendResult_Always(connected, status, from) == <<Answer(status, from, "text/html", FALSE)>>

SendResult(connected, status, from) ==
  IF connected THEN <<Answer(status, from, "text/html", FALSE)>> ELSE <<>>

(* A bad request is answered by the page the site has for it, if any.      *)
SendBadRequest(site) ==
  SendResult(TRUE, "400", IF site # 0 /\ Sites[site].Get400 THEN "page" ELSE "server")

(* ProcessFile: the file, if it can be read and is not empty.              *)
ProcessFile(site, url) ==
  IF \E f \in Sites[site].Files : f.path = url /\ f.size > 0
  THEN <<Answer("200", "file", MediaType(url), Cached(site, url))>> ELSE <<>>
===============================================================================
