--------------------------- MODULE CloudSyncProofs ---------------------------
(***************************************************************************)
(* Theorems about CloudSync, for any providers, torrents, processes and    *)
(* mix of requests.  They rest on ConstantsAssumption; ReadyItems also on  *)
(* complete listings (Partial = FALSE).                                    *)
(***************************************************************************)
EXTENDS CloudSync, TLAPS

------------------------------------------------------------------------------
(* Listings and the steps operations share.                                  *)

\* What a listing holds.
LEMMA ListingTypes ==
  /\ NoListing \in Listings /\ ~NoListing.known /\ NoListing.items = {}
  /\ \A is \in SUBSET Items :
       Listing(is) \in Listings /\ Listing(is).known /\ Listing(is).items = is
  /\ \A l \in Listings : l.known \in BOOLEAN /\ l.items \subseteq Items
<1>1. NoListing \in Listings /\ \A is \in SUBSET Items : Listing(is) \in Listings
  BY DEF Listings
<1>2. ~NoListing.known /\ NoListing.items = {}
  BY DEF NoListing
<1>3. ASSUME NEW is \in SUBSET Items PROVE Listing(is).known /\ Listing(is).items = is
  BY DEF Listing
<1>4. ASSUME NEW l \in Listings PROVE l.known \in BOOLEAN /\ l.items \subseteq Items
  <2>1. CASE l = NoListing
    BY <2>1 DEF NoListing
  <2>2. ASSUME NEW is \in SUBSET Items, l = Listing(is) PROVE l.known /\ l.items = is
    BY <2>2 DEF Listing
  <2>3. QED BY <2>1, <2>2 DEF Listings
<1>5. QED BY <1>1, <1>2, <1>3, <1>4

\* What a provider may answer is its own, and complete unless answers may be
\* partial.
LEMMA AnswerTypes ==
  ASSUME TypeOK, NEW p \in Providers, NEW is \in Answers(p)
  PROVE  /\ is \subseteq Of(p) /\ is \subseteq Items
         /\ ~Partial => {p} \X stays \subseteq is
BY DEF TypeOK, Answers, Of, Items

\* Items have a provider.
LEMMA ItemTypes == NoItem \notin Items /\ \A i \in Items : i[1] \in Providers
BY ConstantsAssumption DEF Items

\* TypeOK and Own, taken apart: the shared state ...
World ==
  /\ cloud \subseteq Items /\ tracked \subseteq Items /\ strm \subseteq Items
  /\ cache \in [Providers -> Listings]
  /\ \A p \in Providers : cache[p].items \subseteq Of(p)
  /\ fileCache \subseteq Items
  /\ failed \in BOOLEAN
  /\ late \subseteq Procs
  /\ newer \in [Items -> SUBSET Procs]
  /\ calm \in BOOLEAN
  /\ stays \subseteq Permanent /\ Providers \X stays \subseteq cloud

\* ... what the processes hold ...
Kinds ==
  /\ pc \in [Procs -> PC]
  /\ op \in [Procs -> Request \cup {"none"}]
  /\ item \in [Procs -> Items \cup {NoItem}]
  /\ provs \in [Procs -> SUBSET Providers]
  /\ prov \in [Procs -> Providers \cup {NoProvider}]
  /\ listing \in [Procs -> Listings]
  /\ todo \in [Procs -> SUBSET Items]
  /\ cur \in [Procs -> Items \cup {NoItem}]

\* ... and how that goes together, process by process.
Fits(y) ==
  /\ op[y] = "none" <=> pc[y] = "idle"
  /\ pc[y] \in {"store", "files"} \cup Writing =>
       prov[y] \in Providers /\ listing[y].known /\ listing[y].items \subseteq Of(prov[y])
  /\ cur[y] \in Items <=> pc[y] \in {"prunerow"} \cup Writing
  /\ pc[y] \in {"invalidate", "clean"} => item[y] \in Items
  /\ pc[y] = "invalidate" => op[y] \in {"add", "remove"}
  /\ pc[y] = "clean" => op[y] = "remove"
  /\ pc[y] = "fetch" => prov[y] \in Providers

\* That is TypeOK and Own.
LEMMA Parts ==
  /\ TypeOK /\ Own <=> World /\ Kinds /\ \A y \in Procs : Fits(y)
  /\ World' /\ Kinds' /\ (\A y \in Procs : Fits(y)') => TypeOK' /\ Own'
BY DEF TypeOK, Own, World, Kinds, Fits

\* The end of an operation.
LEMMA FinishTypes ==
  ASSUME Kinds, NEW x \in Procs, Finish(x)
  PROVE  /\ pc' \in [Procs -> PC]
         /\ op' \in [Procs -> Request \cup {"none"}]
         /\ item' \in [Procs -> Items \cup {NoItem}]
         /\ pc'[x] = "idle" /\ op'[x] = "none" /\ item'[x] = NoItem
         /\ \A y \in Procs \ {x} : pc'[y] = pc[y] /\ op'[y] = op[y] /\ item'[y] = item[y]
BY DEF Kinds, Finish, Goto, PC

\* What UseListing comes to.
Used(x, is) ==
  /\ pc' \in [Procs -> PC]
  /\ op' \in [Procs -> Request \cup {"none"}]
  /\ item' \in [Procs -> Items \cup {NoItem}]
  /\ listing' \in [Procs -> Listings]
  /\ todo' \in [Procs -> SUBSET Items]
  /\ op[x] = "page" =>
       /\ op'[x] = "none" /\ pc'[x] = "idle" /\ UNCHANGED <<todo, timeVars>>
       /\ prov' \in [Procs -> Providers \cup {NoProvider}]
       /\ \A y \in Procs \ {x} : prov'[y] = prov[y]
  /\ op[x] # "page" =>
       /\ UNCHANGED <<op, item>> /\ ForgetPass(x)
       /\ pc'[x] = "files" /\ listing'[x] = Listing(is) /\ todo'[x] = is
  /\ \A y \in Procs \ {x} :
       /\ pc'[y] = pc[y] /\ op'[y] = op[y] /\ item'[y] = item[y]
       /\ listing'[y] = listing[y] /\ todo'[y] = todo[y]

\* A page is served, or a pass takes up a listing.
LEMMA UseListingTypes ==
  ASSUME Kinds, NEW x \in Procs, NEW is \in SUBSET Items, UseListing(x, is)
  PROVE  Used(x, is)
<1>1. CASE op[x] = "page"
  BY <1>1, FinishTypes, ListingTypes DEF Used, Kinds, UseListing
<1>2. CASE op[x] # "page"
  BY <1>2, ListingTypes DEF Used, Kinds, UseListing, Goto, PC
<1>3. QED BY <1>1, <1>2

\* Every step keeps the types.
LEMMA TypesStep ==
  ASSUME TypeOK, Own, Next PROVE TypeOK' /\ Own'
<1> USE ListingTypes, ItemTypes DEF libVars, procVars, timeVars, memVars, env, PC,
    Writing, Request, Goto, SyncAll, Begin, Cancellable, ForgetPass, Stamp
<1>0. World /\ Kinds /\ \A y \in Procs : Fits(y)
  BY Parts
<1>1. ASSUME NEW x \in Procs, Invalidate(x) PROVE TypeOK' /\ Own'
  <2>1. World'
    BY <1>0, <1>1 DEF Invalidate, World, Fits
  <2>2. Kinds'
    <3>1. CASE op[x] = "add"
      BY <3>1, <1>0, <1>1 DEF Invalidate, World, Kinds
    <3>2. CASE ~(op[x] = "add")
      BY <3>2, <1>0, <1>1 DEF Invalidate, World, Kinds
    <3>3. QED BY <3>1, <3>2
  <2>3. ASSUME NEW y \in Procs PROVE Fits(y)'
    <3>1. CASE y # x
      BY <3>1, <1>0, <1>1 DEF Invalidate, Kinds, Fits
    <3>2. CASE y = x
      BY <3>2, <1>0, <1>1 DEF Invalidate, Kinds, Fits
    <3>3. QED BY <3>1, <3>2
  <2>4. QED BY <2>1, <2>2, <2>3, Parts
<1>2. ASSUME NEW x \in Procs, ListTorrent(x) PROVE TypeOK' /\ Own'
  <2>1. World'
    BY <1>0, <1>2 DEF ListTorrent, World, Fits
  <2>2. Kinds'
    <3>1. CASE Finish(x) /\ UNCHANGED todo
      BY <3>1, <1>0, <1>2, FinishTypes DEF ListTorrent, Kinds
    <3>2. CASE Goto(x, "prune") /\ UNCHANGED <<op, item>>
      BY <3>2, <1>0, <1>2, FinishTypes DEF ListTorrent, World, Kinds
    <3>3. QED BY <3>1, <3>2, <1>2 DEF ListTorrent
  <2>3. ASSUME NEW y \in Procs PROVE Fits(y)'
    <3>1. CASE y # x
      BY <3>1, <1>0, <1>2, FinishTypes DEF ListTorrent, Kinds, Fits
    <3>2. CASE y = x
      BY <3>2, <1>0, <1>2, FinishTypes DEF ListTorrent, Kinds, Fits
    <3>3. QED BY <3>1, <3>2
  <2>4. QED BY <2>1, <2>2, <2>3, Parts
<1>3. ASSUME NEW x \in Procs, LookInCache(x) PROVE TypeOK' /\ Own'
  <2>0. PICK p \in provs[x] :
          /\ provs' = [provs EXCEPT ![x] = @ \ {p}]
          /\ IF cache[p].known
               THEN /\ UseListing(x, cache[p].items)
                    /\ IF op[x] = "page" THEN TRUE ELSE prov' = [prov EXCEPT ![x] = p]
               ELSE /\ Goto(x, "fetch")
                    /\ prov' = [prov EXCEPT ![x] = p]
                    /\ UNCHANGED <<op, item, listing, todo, timeVars>>
    BY <1>3 DEF LookInCache
  <2>a. /\ p \in Providers /\ cache[p].items \in SUBSET Items /\ pc[x] = "next"
        /\ cache[p].items \subseteq Of(p)
        /\ UNCHANGED <<cloud, libVars, memVars, cur, env>>
    BY <1>0, <1>3, ListingTypes DEF Kinds, World, LookInCache
  <2>b. cache[p].known => Used(x, cache[p].items)
    BY <2>0, <2>a, <1>0, UseListingTypes
  <2>1. World'
    <3>1. CASE cache[p].known
      BY <3>1, <2>0, <2>a, <1>0, <2>b DEF World, Used
    <3>2. CASE ~cache[p].known
      BY <3>2, <2>0, <2>a, <1>0 DEF World
    <3>3. QED BY <3>1, <3>2
  <2>2. Kinds'
    <3>1. CASE cache[p].known
      BY <3>1, <2>0, <2>a, <1>0, <2>b DEF Kinds, Used
    <3>2. CASE ~cache[p].known
      BY <3>2, <2>0, <2>a, <1>0 DEF Kinds
    <3>3. QED BY <3>1, <3>2
  <2>3. ASSUME NEW y \in Procs PROVE Fits(y)'
    <3>1. CASE cache[p].known /\ y # x
      <4>1. /\ pc'[y] = pc[y] /\ op'[y] = op[y] /\ item'[y] = item[y]
            /\ listing'[y] = listing[y] /\ todo'[y] = todo[y] /\ cur'[y] = cur[y]
        BY <3>1, <2>0, <2>a, <1>0, <2>b DEF Used
      <4>2. prov'[y] = prov[y]
        BY <3>1, <2>0, <2>a, <1>0, <2>b DEF Kinds, Used
      <4>3. QED BY <4>1, <4>2, <1>0 DEF Fits
    <3>2. CASE cache[p].known /\ y = x
      BY <3>2, <2>0, <2>a, <1>0, <2>b, ListingTypes DEF Kinds, Fits, Used
    <3>3. CASE ~cache[p].known
      BY <3>3, <2>0, <2>a, <1>0 DEF Kinds, Fits
    <3>4. QED BY <3>1, <3>2, <3>3
  <2>4. QED BY <2>1, <2>2, <2>3, Parts
<1>4. ASSUME NEW x \in Procs, Fetch(x) PROVE TypeOK' /\ Own'
  <2>1. World'
    BY <1>0, <1>4, AnswerTypes DEF Fetch, World, Fits
  <2>2. Kinds'
    BY <1>0, <1>4, AnswerTypes DEF Fetch, World, Kinds, Fits
  <2>3. ASSUME NEW y \in Procs PROVE Fits(y)'
    BY <1>0, <1>4, AnswerTypes DEF Fetch, Kinds, Fits
  <2>4. QED BY <2>1, <2>2, <2>3, Parts
<1>5. ASSUME NEW x \in Procs, FetchFails(x) PROVE TypeOK' /\ Own'
  <2>1. World'
    BY <1>0, <1>5 DEF FetchFails, World, Fits
  <2>2. Kinds'
    <3>1. CASE op[x] = "page"
      BY <3>1, <1>0, <1>5, FinishTypes DEF FetchFails, World, Kinds
    <3>2. CASE ~(op[x] = "page")
      BY <3>2, <1>0, <1>5, FinishTypes DEF FetchFails, World, Kinds
    <3>3. QED BY <3>1, <3>2
  <2>3. ASSUME NEW y \in Procs PROVE Fits(y)'
    <3>1. CASE y # x
      BY <3>1, <1>0, <1>5, FinishTypes DEF FetchFails, Kinds, Fits
    <3>2. CASE y = x
      BY <3>2, <1>0, <1>5, FinishTypes DEF FetchFails, Kinds, Fits
    <3>3. QED BY <3>1, <3>2
  <2>4. QED BY <2>1, <2>2, <2>3, Parts
<1>6. ASSUME NEW x \in Procs, StoreListing(x) PROVE TypeOK' /\ Own'
  <2>a. /\ pc[x] = "store" /\ listing[x] \in Listings /\ listing[x].items \in SUBSET Items
        /\ UseListing(x, listing[x].items)
        /\ IF op[x] = "page" THEN TRUE ELSE UNCHANGED prov
        /\ UNCHANGED <<cloud, libVars, fileCache, failed, provs, cur, env>>
    BY <1>0, <1>6, ListingTypes DEF Kinds, StoreListing
  <2>b. Used(x, listing[x].items)
    BY <2>a, <1>0, UseListingTypes
  <2>1. World'
    <3>1. CASE op[x] = "page"
      BY <3>1, <2>a, <1>0, <1>6, <2>b DEF World, StoreListing, Fits, Used
    <3>2. CASE op[x] # "page"
      BY <3>2, <2>a, <1>0, <1>6, <2>b DEF World, StoreListing, Fits, Used
    <3>3. QED BY <3>1, <3>2
  <2>2. Kinds'
    BY <2>a, <1>0, <2>b DEF Kinds, Used
  <2>3. ASSUME NEW y \in Procs PROVE Fits(y)'
    <3>1. CASE y # x
      <4>1. /\ pc'[y] = pc[y] /\ op'[y] = op[y] /\ item'[y] = item[y]
            /\ listing'[y] = listing[y] /\ todo'[y] = todo[y] /\ cur'[y] = cur[y]
        BY <3>1, <2>a, <1>0, <2>b DEF Used
      <4>2. prov'[y] = prov[y]
        BY <3>1, <2>a, <1>0, <2>b DEF Kinds, Used
      <4>3. QED BY <4>1, <4>2, <1>0 DEF Fits
    <3>2. CASE y = x
      BY <3>2, <2>a, <1>0, <2>b, ListingTypes DEF Kinds, Fits, Used
    <3>3. QED BY <3>1, <3>2
  <2>4. QED BY <2>1, <2>2, <2>3, Parts
<1>7. ASSUME NEW x \in Procs, LookupFile(x) PROVE TypeOK' /\ Own'
  <2>1. World'
    BY <1>0, <1>7 DEF LookupFile, World, Fits
  <2>2. Kinds'
    BY <1>0, <1>7 DEF LookupFile, World, Kinds
  <2>3. ASSUME NEW y \in Procs PROVE Fits(y)'
    BY <1>0, <1>7 DEF LookupFile, Kinds, Fits
  <2>4. QED BY <2>1, <2>2, <2>3, Parts
<1>8. ASSUME NEW x \in Procs, InsertFile(x) PROVE TypeOK' /\ Own'
  <2>1. World'
    BY <1>0, <1>8 DEF InsertFile, World, Fits
  <2>2. Kinds'
    <3>1. CASE cur[x] \in tracked
      BY <3>1, <1>0, <1>8 DEF InsertFile, World, Kinds
    <3>2. CASE ~(cur[x] \in tracked)
      BY <3>2, <1>0, <1>8 DEF InsertFile, World, Kinds
    <3>3. QED BY <3>1, <3>2
  <2>3. ASSUME NEW y \in Procs PROVE Fits(y)'
    <3>1. CASE y # x
      BY <3>1, <1>0, <1>8 DEF InsertFile, Kinds, Fits
    <3>2. CASE y = x
      BY <3>2, <1>0, <1>8 DEF InsertFile, Kinds, Fits
    <3>3. QED BY <3>1, <3>2
  <2>4. QED BY <2>1, <2>2, <2>3, Parts
<1>9. ASSUME NEW x \in Procs, UpdateFile(x) PROVE TypeOK' /\ Own'
  <2>1. World'
    BY <1>0, <1>9 DEF UpdateFile, World, Fits
  <2>2. Kinds'
    BY <1>0, <1>9 DEF UpdateFile, World, Kinds
  <2>3. ASSUME NEW y \in Procs PROVE Fits(y)'
    BY <1>0, <1>9 DEF UpdateFile, Kinds, Fits
  <2>4. QED BY <2>1, <2>2, <2>3, Parts
<1>10. ASSUME NEW x \in Procs, WriteStrm(x) PROVE TypeOK' /\ Own'
  <2>1. World'
    BY <1>0, <1>10 DEF WriteStrm, World, Fits
  <2>2. Kinds'
    BY <1>0, <1>10 DEF WriteStrm, World, Kinds
  <2>3. ASSUME NEW y \in Procs PROVE Fits(y)'
    BY <1>0, <1>10 DEF WriteStrm, Kinds, Fits
  <2>4. QED BY <2>1, <2>2, <2>3, Parts
<1>11. ASSUME NEW x \in Procs, StartPrune(x) PROVE TypeOK' /\ Own'
  <2>1. World'
    BY <1>0, <1>11 DEF StartPrune, World, Fits
  <2>2. Kinds'
    BY <1>0, <1>11 DEF StartPrune, World, Kinds
  <2>3. ASSUME NEW y \in Procs PROVE Fits(y)'
    BY <1>0, <1>11 DEF StartPrune, Kinds, Fits
  <2>4. QED BY <2>1, <2>2, <2>3, Parts
<1>12. ASSUME NEW x \in Procs, CancelPass(x) PROVE TypeOK' /\ Own'
  <2>1. World'
    BY <1>0, <1>12 DEF CancelPass, World, Fits
  <2>2. Kinds'
    BY <1>0, <1>12 DEF CancelPass, World, Kinds
  <2>3. ASSUME NEW y \in Procs PROVE Fits(y)'
    BY <1>0, <1>12 DEF CancelPass, Kinds, Fits
  <2>4. QED BY <2>1, <2>2, <2>3, Parts
<1>13. ASSUME NEW x \in Procs, RemoveStrm(x) PROVE TypeOK' /\ Own'
  <2>1. World'
    BY <1>0, <1>13 DEF RemoveStrm, World, Fits
  <2>2. Kinds'
    BY <1>0, <1>13 DEF RemoveStrm, World, Kinds
  <2>3. ASSUME NEW y \in Procs PROVE Fits(y)'
    BY <1>0, <1>13 DEF RemoveStrm, Kinds, Fits
  <2>4. QED BY <2>1, <2>2, <2>3, Parts
<1>14. ASSUME NEW x \in Procs, DeleteFile(x) PROVE TypeOK' /\ Own'
  <2>1. World'
    BY <1>0, <1>14 DEF DeleteFile, World, Fits
  <2>2. Kinds'
    <3>1. CASE op[x] \in {"sync", "add"}
      BY <3>1, <1>0, <1>14, FinishTypes DEF DeleteFile, World, Kinds
    <3>2. CASE ~(op[x] \in {"sync", "add"})
      BY <3>2, <1>0, <1>14, FinishTypes DEF DeleteFile, World, Kinds
    <3>3. QED BY <3>1, <3>2
  <2>3. ASSUME NEW y \in Procs PROVE Fits(y)'
    <3>1. CASE y # x
      BY <3>1, <1>0, <1>14, FinishTypes DEF DeleteFile, Kinds, Fits
    <3>2. CASE y = x
      BY <3>2, <1>0, <1>14, FinishTypes DEF DeleteFile, Kinds, Fits
    <3>3. QED BY <3>1, <3>2
  <2>4. QED BY <2>1, <2>2, <2>3, Parts
<1>15. ASSUME NEW x \in Procs, EndPrune(x) PROVE TypeOK' /\ Own'
  <2>1. World'
    BY <1>0, <1>15 DEF EndPrune, World, Fits
  <2>2. Kinds'
    <3>1. CASE op[x] = "remove"
      BY <3>1, <1>0, <1>15, FinishTypes DEF EndPrune, World, Kinds
    <3>2. CASE ~(op[x] = "remove")
      BY <3>2, <1>0, <1>15, FinishTypes DEF EndPrune, World, Kinds
    <3>3. QED BY <3>1, <3>2
  <2>3. ASSUME NEW y \in Procs PROVE Fits(y)'
    <3>1. CASE y # x
      BY <3>1, <1>0, <1>15, FinishTypes DEF EndPrune, Kinds, Fits
    <3>2. CASE y = x
      BY <3>2, <1>0, <1>15, FinishTypes DEF EndPrune, Kinds, Fits
    <3>3. QED BY <3>1, <3>2
  <2>4. QED BY <2>1, <2>2, <2>3, Parts
<1>16. ASSUME NEW x \in Procs, EndSync(x) PROVE TypeOK' /\ Own'
  <2>1. World'
    BY <1>0, <1>16, FinishTypes DEF EndSync, World, Fits
  <2>2. Kinds'
    BY <1>0, <1>16, FinishTypes DEF EndSync, World, Kinds
  <2>3. ASSUME NEW y \in Procs PROVE Fits(y)'
    BY <1>0, <1>16, FinishTypes DEF EndSync, Kinds, Fits
  <2>4. QED BY <2>1, <2>2, <2>3, Parts
<1>17. ASSUME NEW x \in Procs, StartSync(x) PROVE TypeOK' /\ Own'
  <2>1. World'
    BY <1>0, <1>17 DEF StartSync, World, Fits
  <2>2. Kinds'
    BY <1>0, <1>17 DEF StartSync, World, Kinds
  <2>3. ASSUME NEW y \in Procs PROVE Fits(y)'
    BY <1>0, <1>17 DEF StartSync, Kinds, Fits
  <2>4. QED BY <2>1, <2>2, <2>3, Parts
<1>18. ASSUME NEW x \in Procs, StartWipe(x) PROVE TypeOK' /\ Own'
  <2>1. World'
    BY <1>0, <1>18 DEF StartWipe, World, Fits
  <2>2. Kinds'
    BY <1>0, <1>18 DEF StartWipe, World, Kinds
  <2>3. ASSUME NEW y \in Procs PROVE Fits(y)'
    BY <1>0, <1>18 DEF StartWipe, Kinds, Fits
  <2>4. QED BY <2>1, <2>2, <2>3, Parts
<1>19. ASSUME NEW x \in Procs, Tick(x) PROVE TypeOK' /\ Own'
  <2>1. World'
    BY <1>0, <1>19 DEF Tick, World, Fits
  <2>2. Kinds'
    BY <1>0, <1>19 DEF Tick, World, Kinds
  <2>3. ASSUME NEW y \in Procs PROVE Fits(y)'
    BY <1>0, <1>19 DEF Tick, Kinds, Fits
  <2>4. QED BY <2>1, <2>2, <2>3, Parts
<1>20. ASSUME NEW x \in Procs, NEW p \in Providers, StartPage(x, p) PROVE TypeOK' /\ Own'
  <2>1. World'
    BY <1>0, <1>20 DEF StartPage, World, Fits
  <2>2. Kinds'
    BY <1>0, <1>20 DEF StartPage, World, Kinds
  <2>3. ASSUME NEW y \in Procs PROVE Fits(y)'
    BY <1>0, <1>20 DEF StartPage, Kinds, Fits
  <2>4. QED BY <2>1, <2>2, <2>3, Parts
<1>21. ASSUME NEW x \in Procs, NEW i \in Items, StartAdd(x, i) PROVE TypeOK' /\ Own'
  <2>1. World'
    BY <1>0, <1>21 DEF StartAdd, World, Fits
  <2>2. Kinds'
    BY <1>0, <1>21 DEF StartAdd, World, Kinds
  <2>3. ASSUME NEW y \in Procs PROVE Fits(y)'
    BY <1>0, <1>21 DEF StartAdd, Kinds, Fits
  <2>4. QED BY <2>1, <2>2, <2>3, Parts
<1>22. ASSUME NEW x \in Procs, NEW i \in Items, StartRemove(x, i) PROVE TypeOK' /\ Own'
  <2>1. World'
    BY <1>0, <1>22 DEF StartRemove, World, Fits
  <2>2. Kinds'
    BY <1>0, <1>22 DEF StartRemove, World, Kinds
  <2>3. ASSUME NEW y \in Procs PROVE Fits(y)'
    BY <1>0, <1>22 DEF StartRemove, Kinds, Fits
  <2>4. QED BY <2>1, <2>2, <2>3, Parts
<1>23. ASSUME NEW i \in Items, CloudChange(i) PROVE TypeOK' /\ Own'
  <2>1. World'
    BY <1>0, <1>23 DEF CloudChange, World, Fits
  <2>2. Kinds'
    BY <1>0, <1>23 DEF CloudChange, World, Kinds
  <2>3. ASSUME NEW y \in Procs PROVE Fits(y)'
    BY <1>0, <1>23 DEF CloudChange, Kinds, Fits
  <2>4. QED BY <2>1, <2>2, <2>3, Parts
<1>24. ASSUME NEW p \in Providers, Expire(p) PROVE TypeOK' /\ Own'
  <2>1. World'
    BY <1>0, <1>24 DEF Expire, World, Fits
  <2>2. Kinds'
    BY <1>0, <1>24 DEF Expire, World, Kinds
  <2>3. ASSUME NEW y \in Procs PROVE Fits(y)'
    BY <1>0, <1>24 DEF Expire, Kinds, Fits
  <2>4. QED BY <2>1, <2>2, <2>3, Parts
<1>25. ASSUME Restart PROVE TypeOK' /\ Own'
  <2>1. World'
    BY <1>0, <1>25 DEF Restart, World, Fits
  <2>2. Kinds'
    BY <1>0, <1>25 DEF Restart, World, Kinds
  <2>3. ASSUME NEW y \in Procs PROVE Fits(y)'
    BY <1>0, <1>25 DEF Restart, Kinds, Fits
  <2>4. QED BY <2>1, <2>2, <2>3, Parts
<1>26. ASSUME BecomeCalm PROVE TypeOK' /\ Own'
  <2>1. World'
    BY <1>0, <1>26 DEF BecomeCalm, World, Fits
  <2>2. Kinds'
    BY <1>0, <1>26 DEF BecomeCalm, World, Kinds
  <2>3. ASSUME NEW y \in Procs PROVE Fits(y)'
    BY <1>0, <1>26 DEF BecomeCalm, Kinds, Fits
  <2>4. QED BY <2>1, <2>2, <2>3, Parts
<1>27. QED BY <1>1, <1>2, <1>3, <1>4, <1>5, <1>6, <1>7, <1>8, <1>9, <1>10,
    <1>11, <1>12, <1>13, <1>14, <1>15, <1>16, <1>17, <1>18, <1>19, <1>20,
    <1>21, <1>22, <1>23, <1>24, <1>25, <1>26 DEF Next, ProcStep

Kept(p) == {p} \X stays

\* Spared, process by process.
Careful(y) ==
  /\ pc[y] \in {"store", "files"} \cup Writing => Kept(prov[y]) \subseteq listing[y].items
  /\ op[y] = "remove" => item[y] \notin Providers \X stays
  /\ pc[y] \in {"prune", "prunerow"} /\ op[y] # "wipe" =>
       todo[y] \cap (Providers \X stays) = {}

Cached == \A p \in Providers : cache[p].known => Kept(p) \subseteq cache[p].items

\* Spared, taken apart.
LEMMA SparedParts ==
  /\ Spared <=> Cached /\ \A y \in Procs : Careful(y)
  /\ Cached' /\ (\A y \in Procs : Careful(y)') => Spared'
BY DEF Spared, Cached, Careful, Kept

\* Every step keeps Spared, once listings are complete.
LEMMA SparedStep ==
  ASSUME TypeOK, Own, Spared, Next, ~Partial PROVE Spared'
<1> USE ListingTypes, ItemTypes DEF libVars, procVars, timeVars, memVars, env, PC,
    Writing, Request, Goto, SyncAll, Begin, Cancellable, ForgetPass, Stamp
<1>0. World /\ Kinds /\ (\A y \in Procs : Fits(y)) /\ Cached /\ \A y \in Procs : Careful(y)
  BY Parts, SparedParts
<1>1. ASSUME NEW x \in Procs, Invalidate(x) PROVE Spared'
  <2>1. Cached'
    BY <1>0, <1>1 DEF Invalidate, World, Cached, Kept
  <2>2. ASSUME NEW y \in Procs PROVE Careful(y)'
    BY <1>0, <1>1 DEF Invalidate, Kinds, Fits, Cached, Careful, Kept
  <2>3. QED BY <2>1, <2>2, SparedParts
<1>2. ASSUME NEW x \in Procs, ListTorrent(x) PROVE Spared'
  <2>1. Cached'
    BY <1>0, <1>2 DEF ListTorrent, World, Cached, Kept
  <2>2. ASSUME NEW y \in Procs PROVE Careful(y)'
    BY <1>0, <1>2, FinishTypes DEF ListTorrent, Kinds, Fits, Cached, Careful, Kept
  <2>3. QED BY <2>1, <2>2, SparedParts
<1>3. ASSUME NEW x \in Procs, LookInCache(x) PROVE Spared'
  <2>0. PICK p \in provs[x] :
          /\ provs' = [provs EXCEPT ![x] = @ \ {p}]
          /\ IF cache[p].known
               THEN /\ UseListing(x, cache[p].items)
                    /\ IF op[x] = "page" THEN TRUE ELSE prov' = [prov EXCEPT ![x] = p]
               ELSE /\ Goto(x, "fetch")
                    /\ prov' = [prov EXCEPT ![x] = p]
                    /\ UNCHANGED <<op, item, listing, todo, timeVars>>
    BY <1>3 DEF LookInCache
  <2>1. /\ p \in Providers /\ cache[p].items \in SUBSET Items /\ pc[x] = "next"
        /\ UNCHANGED <<cache, stays>>
    BY <1>0, <1>3, ListingTypes DEF Kinds, World, LookInCache
  <2>2. cache[p].known => Used(x, cache[p].items) /\ Kept(p) \subseteq cache[p].items
    BY <2>0, <2>1, <1>0, UseListingTypes DEF Cached
  <2>3. Cached'
    BY <2>1, <1>0 DEF Cached, Kept
  <2>4. ASSUME NEW y \in Procs PROVE Careful(y)'
    <3>1. CASE cache[p].known /\ y # x
      <4>1. prov'[y] = prov[y]
        BY <3>1, <2>0, <2>2, <1>0 DEF Used, Kinds
      <4>2. QED BY <4>1, <3>1, <2>1, <2>2, <1>0 DEF Careful, Kept, Used
    <3>2. CASE cache[p].known /\ y = x
      BY <3>2, <2>0, <2>1, <2>2, <1>0 DEF Careful, Kept, Used, Kinds
    <3>3. CASE ~cache[p].known
      BY <3>3, <2>0, <2>1, <1>0 DEF Careful, Kept, Kinds
    <3>4. QED BY <3>1, <3>2, <3>3
  <2>5. QED BY <2>3, <2>4, SparedParts
<1>4. ASSUME NEW x \in Procs, Fetch(x) PROVE Spared'
  <2>1. Cached'
    BY <1>0, <1>4 DEF Fetch, World, Cached, Kept
  <2>2. ASSUME NEW y \in Procs PROVE Careful(y)'
    BY <1>0, <1>4, AnswerTypes DEF Fetch, Kinds, Fits, Cached, Careful, Kept
  <2>3. QED BY <2>1, <2>2, SparedParts
<1>5. ASSUME NEW x \in Procs, FetchFails(x) PROVE Spared'
  <2>1. Cached'
    BY <1>0, <1>5 DEF FetchFails, World, Cached, Kept
  <2>2. ASSUME NEW y \in Procs PROVE Careful(y)'
    BY <1>0, <1>5, FinishTypes DEF FetchFails, Kinds, Fits, Cached, Careful, Kept
  <2>3. QED BY <2>1, <2>2, SparedParts
<1>6. ASSUME NEW x \in Procs, StoreListing(x) PROVE Spared'
  <2>1. /\ listing[x] \in Listings /\ listing[x].items \in SUBSET Items
        /\ Used(x, listing[x].items)
        /\ cache' = [cache EXCEPT ![prov[x]] = listing[x]]
        /\ prov[x] \in Providers /\ Kept(prov[x]) \subseteq listing[x].items
        /\ stays' = stays /\ (op[x] # "page" => prov' = prov)
    BY <1>0, <1>6, UseListingTypes DEF StoreListing, Kinds, Fits, Careful
  <2>2. Cached'
    BY <2>1, <1>0 DEF World, Cached, Kept
  <2>3. ASSUME NEW y \in Procs PROVE Careful(y)'
    <3>1. CASE y # x
      <4>1. prov'[y] = prov[y]
        BY <3>1, <2>1 DEF Used
      <4>2. QED BY <4>1, <3>1, <2>1, <1>0 DEF Careful, Kept, Used
    <3>2. CASE y = x
      BY <3>2, <2>1, <1>0 DEF Careful, Kept, Used
    <3>3. QED BY <3>1, <3>2
  <2>4. QED BY <2>2, <2>3, SparedParts
<1>7. ASSUME NEW x \in Procs, LookupFile(x) PROVE Spared'
  <2>1. Cached'
    BY <1>0, <1>7 DEF LookupFile, World, Cached, Kept
  <2>2. ASSUME NEW y \in Procs PROVE Careful(y)'
    BY <1>0, <1>7 DEF LookupFile, Kinds, Fits, Cached, Careful, Kept
  <2>3. QED BY <2>1, <2>2, SparedParts
<1>8. ASSUME NEW x \in Procs, InsertFile(x) PROVE Spared'
  <2>1. Cached'
    BY <1>0, <1>8 DEF InsertFile, World, Cached, Kept
  <2>2. ASSUME NEW y \in Procs PROVE Careful(y)'
    BY <1>0, <1>8 DEF InsertFile, Kinds, Fits, Cached, Careful, Kept
  <2>3. QED BY <2>1, <2>2, SparedParts
<1>9. ASSUME NEW x \in Procs, UpdateFile(x) PROVE Spared'
  <2>1. Cached'
    BY <1>0, <1>9 DEF UpdateFile, World, Cached, Kept
  <2>2. ASSUME NEW y \in Procs PROVE Careful(y)'
    BY <1>0, <1>9 DEF UpdateFile, Kinds, Fits, Cached, Careful, Kept
  <2>3. QED BY <2>1, <2>2, SparedParts
<1>10. ASSUME NEW x \in Procs, WriteStrm(x) PROVE Spared'
  <2>1. Cached'
    BY <1>0, <1>10 DEF WriteStrm, World, Cached, Kept
  <2>2. ASSUME NEW y \in Procs PROVE Careful(y)'
    BY <1>0, <1>10 DEF WriteStrm, Kinds, Fits, Cached, Careful, Kept
  <2>3. QED BY <2>1, <2>2, SparedParts
<1>11. ASSUME NEW x \in Procs, StartPrune(x) PROVE Spared'
  <2>1. Cached'
    BY <1>0, <1>11 DEF StartPrune, Cached, Kept
  <2>2. /\ pc[x] = "files" /\ Kept(prov[x]) \subseteq listing[x].items /\ stays' = stays
        /\ todo'[x] \subseteq Of(prov[x]) \ listing[x].items
    BY <1>0, <1>11 DEF StartPrune, Kinds, Careful
  <2>3. todo'[x] \cap (Providers \X stays) = {}
    BY <2>2 DEF Kept, Of
  <2>4. ASSUME NEW y \in Procs PROVE Careful(y)'
    BY <2>2, <2>3, <1>0, <1>11 DEF StartPrune, Kinds, Careful, Kept
  <2>5. QED BY <2>1, <2>4, SparedParts
<1>12. ASSUME NEW x \in Procs, CancelPass(x) PROVE Spared'
  <2>1. Cached'
    BY <1>0, <1>12 DEF CancelPass, World, Cached, Kept
  <2>2. ASSUME NEW y \in Procs PROVE Careful(y)'
    BY <1>0, <1>12 DEF CancelPass, Kinds, Fits, Cached, Careful, Kept
  <2>3. QED BY <2>1, <2>2, SparedParts
<1>13. ASSUME NEW x \in Procs, RemoveStrm(x) PROVE Spared'
  <2>1. Cached'
    BY <1>0, <1>13 DEF RemoveStrm, World, Cached, Kept
  <2>2. ASSUME NEW y \in Procs PROVE Careful(y)'
    BY <1>0, <1>13 DEF RemoveStrm, Kinds, Fits, Cached, Careful, Kept
  <2>3. QED BY <2>1, <2>2, SparedParts
<1>14. ASSUME NEW x \in Procs, DeleteFile(x) PROVE Spared'
  <2>1. Cached'
    BY <1>0, <1>14 DEF DeleteFile, World, Cached, Kept
  <2>2. ASSUME NEW y \in Procs PROVE Careful(y)'
    BY <1>0, <1>14, FinishTypes DEF DeleteFile, Kinds, Fits, Cached, Careful, Kept
  <2>3. QED BY <2>1, <2>2, SparedParts
<1>15. ASSUME NEW x \in Procs, EndPrune(x) PROVE Spared'
  <2>1. Cached'
    BY <1>0, <1>15 DEF EndPrune, World, Cached, Kept
  <2>2. ASSUME NEW y \in Procs PROVE Careful(y)'
    BY <1>0, <1>15, FinishTypes DEF EndPrune, Kinds, Fits, Cached, Careful, Kept
  <2>3. QED BY <2>1, <2>2, SparedParts
<1>16. ASSUME NEW x \in Procs, EndSync(x) PROVE Spared'
  <2>1. Cached'
    BY <1>0, <1>16 DEF EndSync, World, Cached, Kept
  <2>2. ASSUME NEW y \in Procs PROVE Careful(y)'
    BY <1>0, <1>16, FinishTypes DEF EndSync, Kinds, Fits, Cached, Careful, Kept
  <2>3. QED BY <2>1, <2>2, SparedParts
<1>17. ASSUME NEW x \in Procs, StartSync(x) PROVE Spared'
  <2>1. Cached'
    BY <1>0, <1>17 DEF StartSync, World, Cached, Kept
  <2>2. ASSUME NEW y \in Procs PROVE Careful(y)'
    BY <1>0, <1>17 DEF StartSync, Kinds, Fits, Cached, Careful, Kept
  <2>3. QED BY <2>1, <2>2, SparedParts
<1>18. ASSUME NEW x \in Procs, StartWipe(x) PROVE Spared'
  <2>1. Cached'
    BY <1>0, <1>18 DEF StartWipe, World, Cached, Kept
  <2>2. ASSUME NEW y \in Procs PROVE Careful(y)'
    BY <1>0, <1>18 DEF StartWipe, Kinds, Fits, Cached, Careful, Kept
  <2>3. QED BY <2>1, <2>2, SparedParts
<1>19. ASSUME NEW x \in Procs, Tick(x) PROVE Spared'
  <2>1. Cached'
    BY <1>0, <1>19 DEF Tick, World, Cached, Kept
  <2>2. ASSUME NEW y \in Procs PROVE Careful(y)'
    BY <1>0, <1>19 DEF Tick, Kinds, Fits, Cached, Careful, Kept
  <2>3. QED BY <2>1, <2>2, SparedParts
<1>20. ASSUME NEW x \in Procs, NEW p \in Providers, StartPage(x, p) PROVE Spared'
  <2>1. Cached'
    BY <1>0, <1>20 DEF StartPage, World, Cached, Kept
  <2>2. ASSUME NEW y \in Procs PROVE Careful(y)'
    BY <1>0, <1>20 DEF StartPage, Kinds, Fits, Cached, Careful, Kept
  <2>3. QED BY <2>1, <2>2, SparedParts
<1>21. ASSUME NEW x \in Procs, NEW i \in Items, StartAdd(x, i) PROVE Spared'
  <2>1. Cached'
    BY <1>0, <1>21 DEF StartAdd, World, Cached, Kept
  <2>2. ASSUME NEW y \in Procs PROVE Careful(y)'
    BY <1>0, <1>21 DEF StartAdd, Kinds, Fits, Cached, Careful, Kept
  <2>3. QED BY <2>1, <2>2, SparedParts
<1>22. ASSUME NEW x \in Procs, NEW i \in Items, StartRemove(x, i) PROVE Spared'
  <2>1. Cached'
    BY <1>0, <1>22 DEF StartRemove, World, Cached, Kept
  <2>2. ASSUME NEW y \in Procs PROVE Careful(y)'
    BY <1>0, <1>22 DEF StartRemove, Kinds, Fits, Cached, Careful, Kept
  <2>3. QED BY <2>1, <2>2, SparedParts
<1>23. ASSUME NEW i \in Items, CloudChange(i) PROVE Spared'
  <2>1. Cached'
    BY <1>0, <1>23 DEF CloudChange, World, Cached, Kept
  <2>2. ASSUME NEW y \in Procs PROVE Careful(y)'
    BY <1>0, <1>23 DEF CloudChange, Kinds, Fits, Cached, Careful, Kept
  <2>3. QED BY <2>1, <2>2, SparedParts
<1>24. ASSUME NEW p \in Providers, Expire(p) PROVE Spared'
  <2>1. Cached'
    BY <1>0, <1>24 DEF Expire, World, Cached, Kept
  <2>2. ASSUME NEW y \in Procs PROVE Careful(y)'
    BY <1>0, <1>24 DEF Expire, Kinds, Fits, Cached, Careful, Kept
  <2>3. QED BY <2>1, <2>2, SparedParts
<1>25. ASSUME Restart PROVE Spared'
  <2>1. Cached'
    BY <1>0, <1>25 DEF Restart, World, Cached, Kept
  <2>2. ASSUME NEW y \in Procs PROVE Careful(y)'
    BY <1>0, <1>25 DEF Restart, Kinds, Fits, Cached, Careful, Kept
  <2>3. QED BY <2>1, <2>2, SparedParts
<1>26. ASSUME BecomeCalm PROVE Spared'
  <2>1. Cached'
    BY <1>0, <1>26 DEF BecomeCalm, World, Cached, Kept
  <2>2. ASSUME NEW y \in Procs PROVE Careful(y)'
    BY <1>0, <1>26 DEF BecomeCalm, Kinds, Fits, Cached, Careful, Kept
  <2>3. QED BY <2>1, <2>2, SparedParts
<1>27. QED BY <1>1, <1>2, <1>3, <1>4, <1>5, <1>6, <1>7, <1>8, <1>9, <1>10,
    <1>11, <1>12, <1>13, <1>14, <1>15, <1>16, <1>17, <1>18, <1>19, <1>20,
    <1>21, <1>22, <1>23, <1>24, <1>25, <1>26 DEF Next, ProcStep

------------------------------------------------------------------------------
(* The theorems.                                                             *)

\* The initial states satisfy the invariant.
LEMMA InitInv == Init => IInv
<1> SUFFICES ASSUME Init PROVE IInv
  OBVIOUS
<1>1. World
  BY ListingTypes DEF Init, World, Items
<1>2. Kinds
  BY ListingTypes DEF Init, Kinds, PC
<1>3. ASSUME NEW y \in Procs PROVE Fits(y)
  BY ItemTypes DEF Init, Fits, Writing
<1>4. ASSUME NEW y \in Procs PROVE Careful(y)
  BY DEF Init, Careful, Writing
<1>5. Cached
  BY ListingTypes DEF Init, Cached
<1>6. QED BY <1>1, <1>2, <1>3, <1>4, <1>5, Parts, SparedParts DEF IInv

\* Every step keeps the invariant.
LEMMA StepInv == IInv /\ [Next]_vars => IInv'
<1> SUFFICES ASSUME IInv, [Next]_vars PROVE IInv'
  OBVIOUS
<1>1. CASE Next
  <2>1. TypeOK' /\ Own'
    BY <1>1, TypesStep DEF IInv
  <2>2. ASSUME ~Partial PROVE Spared'
    BY <1>1, <2>2, SparedStep DEF IInv
  <2>3. QED BY <2>1, <2>2 DEF IInv
<1>2. CASE UNCHANGED vars
  BY <1>2 DEF IInv, TypeOK, Own, Spared, vars, libVars, procVars, timeVars, env, Of
<1>3. QED BY <1>1, <1>2

\* The invariant holds for all Providers, Torrents, Procs and Requests.
THEOREM Invariant == Spec => []IInv
BY InitInv, StepInv, PTL DEF Spec

\* Every variable keeps its type, a listing in hand is of the provider its pass
\* is at, and the torrents that stay are in every cloud.
THEOREM TypeCorrect == Spec => []TypeOK
<1>1. IInv => TypeOK
  BY DEF IInv
<1>2. QED BY <1>1, Invariant, PTL

\* With complete listings, a .strm of an item that stays goes only in a wipe.
LEMMA StrmStays ==
  ASSUME IInv, [Next]_vars, ~Partial,
         NEW i \in Providers \X stays, i \in strm, \A x \in Procs : op[x] # "wipe"
  PROVE  i \in strm'
<1> USE DEF libVars, vars
<1>1. ASSUME NEW x \in Procs, RemoveStrm(x) PROVE i \in strm'
  BY <1>1 DEF RemoveStrm, IInv, Spared
<1>2. ASSUME NEW x \in Procs, ProcStep(x), ~RemoveStrm(x) PROVE i \in strm'
  BY <1>2 DEF ProcStep, Invalidate, ListTorrent, LookInCache, Fetch, FetchFails, StoreListing,
       LookupFile, InsertFile, UpdateFile, WriteStrm, StartPrune, CancelPass, DeleteFile,
       EndPrune, EndSync
<1>3. ASSUME NEW x \in Procs,
             \/ StartSync(x) \/ StartWipe(x) \/ Tick(x)
             \/ \E p \in Providers : StartPage(x, p)
             \/ \E j \in Items : StartAdd(x, j) \/ StartRemove(x, j)
      PROVE  i \in strm'
  BY <1>3 DEF StartSync, StartWipe, Tick, StartPage, StartAdd, StartRemove
<1>4. CASE \/ \E j \in Items : CloudChange(j)
           \/ \E p \in Providers : Expire(p)
           \/ Restart \/ BecomeCalm \/ UNCHANGED vars
  BY <1>4 DEF CloudChange, Expire, Restart, BecomeCalm
<1>5. QED BY <1>1, <1>2, <1>3, <1>4 DEF Next

\* An item that never left its cloud keeps its .strm until the library is wiped,
\* whatever passes, removals, failed providers and restarts overlap.
THEOREM ReadyItems == ASSUME ~Partial PROVE Spec => ReadyItemsStay
<1>1. IInv /\ [Next]_vars =>
        [\A i \in Providers \X stays :
           i \in strm /\ (\A x \in Procs : op[x] # "wipe") => i \in strm']_vars
  BY StrmStays
<1>2. QED BY <1>1, Invariant, PTL DEF Spec, ReadyItemsStay

------------------------------------------------------------------------------
(* A library that follows the clouds keeps following them.                   *)

\* Following, taken apart: what is shared ...
CacheFollows == \A p \in Providers : cache[p].known => cache[p].items = cloud \cap Of(p)

\* ... and process by process.
InStep(y) ==
  /\ op[y] \notin {"remove", "wipe"}
  /\ pc[y] \in {"store", "files"} \cup Writing => listing[y].items = cloud \cap Of(prov[y])
  /\ pc[y] \in {"files"} \cup Writing => todo[y] \subseteq cloud
  /\ pc[y] \in Writing => cur[y] \in cloud
  /\ pc[y] # "prunerow" /\ (pc[y] = "prune" => todo[y] = {})

LEMMA FollowingParts ==
  /\ Following => /\ calm /\ tracked = cloud /\ cloud \subseteq strm /\ CacheFollows
                  /\ \A y \in Procs : InStep(y)
  /\ calm' /\ tracked' = cloud' /\ cloud' \subseteq strm' /\ CacheFollows'
       /\ (\A y \in Procs : InStep(y)') => Following'
BY DEF Following, CacheFollows, InStep

\* An operation asks the provider, or the cache.
LEMMA AskingFollows ==
  ASSUME TypeOK, Own, Following, NEW x \in Procs,
         LookInCache(x) \/ Fetch(x) \/ StoreListing(x)
  PROVE  Following'
<1> USE ListingTypes DEF libVars, memVars, timeVars, env, Writing, Goto
<1>0. /\ World /\ Kinds /\ \A y \in Procs : Fits(y)
      /\ calm /\ tracked = cloud /\ cloud \subseteq strm /\ CacheFollows
      /\ \A y \in Procs : InStep(y)
  BY Parts, FollowingParts
<1>1. UNCHANGED <<cloud, tracked, strm, calm>>
  BY DEF LookInCache, Fetch, StoreListing
<1>2. CASE LookInCache(x)
  <2>0. PICK p \in provs[x] :
          /\ provs' = [provs EXCEPT ![x] = @ \ {p}]
          /\ IF cache[p].known
               THEN /\ UseListing(x, cache[p].items)
                    /\ IF op[x] = "page" THEN TRUE ELSE prov' = [prov EXCEPT ![x] = p]
               ELSE /\ Goto(x, "fetch")
                    /\ prov' = [prov EXCEPT ![x] = p]
                    /\ UNCHANGED <<op, item, listing, todo, timeVars>>
    BY <1>2 DEF LookInCache
  <2>1. /\ p \in Providers /\ cache[p].items \in SUBSET Items /\ pc[x] = "next"
        /\ UNCHANGED <<cache, cur>>
    BY <1>0, <1>2 DEF Kinds, World, LookInCache
  <2>2. cache[p].known => Used(x, cache[p].items) /\ cache[p].items = cloud \cap Of(p)
    BY <2>0, <2>1, <1>0, UseListingTypes DEF CacheFollows
  <2>3. CacheFollows'
    BY <2>1, <1>0, <1>1 DEF CacheFollows
  <2>4. ASSUME NEW y \in Procs PROVE InStep(y)'
    <3>1. CASE cache[p].known /\ y # x
      <4>1. prov'[y] = prov[y]
        BY <3>1, <2>0, <2>2, <1>0 DEF Used, Kinds
      <4>2. QED BY <4>1, <3>1, <2>1, <2>2, <1>0, <1>1 DEF InStep, Used
    <3>2. CASE cache[p].known /\ y = x
      BY <3>2, <2>0, <2>1, <2>2, <1>0, <1>1 DEF InStep, Used, Kinds
    <3>3. CASE ~cache[p].known
      BY <3>3, <2>0, <2>1, <1>0, <1>1 DEF InStep, Kinds
    <3>4. QED BY <3>1, <3>2, <3>3
  <2>5. QED BY <1>0, <1>1, <2>3, <2>4, FollowingParts
<1>3. CASE Fetch(x)
  <2>1. PICK is \in Answers(prov[x]) : listing' = [listing EXCEPT ![x] = Listing(is)]
    BY <1>3 DEF Fetch
  <2>2. is = cloud \cap Of(prov[x]) /\ is \in SUBSET Items
    BY <1>0, <2>1 DEF Answers, World
  <2>3. CacheFollows'
    BY <1>0, <1>1, <1>3 DEF Fetch, CacheFollows
  <2>4. ASSUME NEW y \in Procs PROVE InStep(y)'
    BY <1>0, <1>1, <1>3, <2>1, <2>2 DEF Fetch, Kinds, InStep
  <2>5. QED BY <1>0, <1>1, <2>3, <2>4, FollowingParts
<1>4. CASE StoreListing(x)
  <2>1. /\ listing[x] \in Listings /\ listing[x].items \in SUBSET Items
        /\ pc[x] = "store" /\ prov[x] \in Providers
        /\ listing[x].items = cloud \cap Of(prov[x])
    BY <1>0, <1>4 DEF StoreListing, Kinds, Fits, InStep
  <2>2. Used(x, listing[x].items) /\ (op[x] # "page" => prov' = prov) /\ cur' = cur
    BY <1>0, <1>4, <2>1, UseListingTypes DEF StoreListing
  <2>3. CacheFollows'
    BY <1>0, <1>1, <1>4, <2>1 DEF StoreListing, World, CacheFollows
  <2>4. ASSUME NEW y \in Procs PROVE InStep(y)'
    <3>1. CASE y # x
      <4>1. prov'[y] = prov[y]
        BY <3>1, <2>2 DEF Used
      <4>2. QED BY <3>1, <4>1, <2>2, <1>0, <1>1 DEF InStep, Used
    <3>2. CASE y = x
      BY <3>2, <2>1, <2>2, <1>0, <1>1 DEF InStep, Used
    <3>3. QED BY <3>1, <3>2
  <2>5. QED BY <1>0, <1>1, <2>3, <2>4, FollowingParts
<1>5. QED BY <1>2, <1>3, <1>4

\* A pass handles what is listed and prunes the rest: of which there is none.
LEMMA PassFollows ==
  ASSUME TypeOK, Own, Following, NEW x \in Procs,
         \/ LookupFile(x) \/ InsertFile(x) \/ UpdateFile(x) \/ WriteStrm(x)
         \/ StartPrune(x) \/ EndPrune(x) \/ EndSync(x)
  PROVE  Following'
<1> USE ListingTypes DEF libVars, memVars, timeVars, env, Writing, Goto
<1>0. /\ World /\ Kinds /\ \A y \in Procs : Fits(y)
      /\ calm /\ tracked = cloud /\ cloud \subseteq strm /\ CacheFollows
      /\ \A y \in Procs : InStep(y)
  BY Parts, FollowingParts
<1>1. UNCHANGED <<cloud, cache, calm>>
  BY DEF LookupFile, InsertFile, UpdateFile, WriteStrm, StartPrune, EndPrune, EndSync
<1>2. CacheFollows'
  BY <1>0, <1>1 DEF CacheFollows
<1>3. CASE LookupFile(x)
  BY <1>0, <1>1, <1>2, <1>3, FollowingParts DEF LookupFile, Kinds, InStep
<1>4. CASE InsertFile(x) \/ UpdateFile(x)
  BY <1>0, <1>1, <1>2, <1>4, FollowingParts DEF InsertFile, UpdateFile, Kinds, InStep
<1>5. CASE WriteStrm(x)
  BY <1>0, <1>1, <1>2, <1>5, FollowingParts DEF WriteStrm, Kinds, InStep
<1>6. CASE StartPrune(x)
  <2>1. /\ pc[x] = "files" /\ pc' = [pc EXCEPT ![x] = "prune"]
        /\ todo' = [todo EXCEPT ![x] =
             {i \in (tracked \cap Of(prov[x])) \ listing[x].items : x \notin newer[i]}]
        /\ listing' = [listing EXCEPT ![x] = NoListing]
        /\ prov' = [prov EXCEPT ![x] = NoProvider]
        /\ UNCHANGED <<tracked, strm, op, cur>>
    BY <1>6 DEF StartPrune
  <2>2. todo'[x] = {} /\ pc'[x] = "prune" /\ op'[x] = op[x]
    BY <1>0, <2>1 DEF Kinds, InStep
  <2>3. ASSUME NEW y \in Procs PROVE InStep(y)'
    BY <1>0, <1>1, <2>1, <2>2 DEF Kinds, InStep
  <2>4. QED BY <1>0, <1>1, <1>2, <2>1, <2>3, FollowingParts
<1>7. CASE EndPrune(x) \/ EndSync(x)
  <2>1. op[x] \notin {"remove", "wipe"} /\ UNCHANGED <<tracked, strm, prov, listing, todo, cur>>
    BY <1>0, <1>7 DEF EndPrune, EndSync, InStep
  <2>2. CASE EndPrune(x)
    BY <1>0, <1>1, <1>2, <2>1, <2>2, FollowingParts DEF EndPrune, Kinds, InStep
  <2>3. CASE EndSync(x)
    BY <1>0, <1>1, <1>2, <2>1, <2>3, FinishTypes, FollowingParts DEF EndSync, InStep
  <2>4. QED BY <1>7, <2>2, <2>3
<1>8. QED BY <1>3, <1>4, <1>5, <1>6, <1>7

LEMMA FollowingStep ==
  ASSUME IInv, Following, [Next]_vars PROVE Following'
<1> USE ListingTypes DEF libVars, memVars, procVars, timeVars, env, Writing, Goto
<1>0. /\ TypeOK /\ Own /\ World /\ Kinds /\ \A y \in Procs : Fits(y)
      /\ calm /\ tracked = cloud /\ cloud \subseteq strm /\ CacheFollows
      /\ \A y \in Procs : InStep(y)
  BY Parts, FollowingParts DEF IInv
<1>1. ASSUME NEW x \in Procs, ProcStep(x) PROVE Following'
  <2>1. ~ListTorrent(x) /\ ~FetchFails(x) /\ ~CancelPass(x) /\ ~RemoveStrm(x) /\ ~DeleteFile(x)
    BY <1>0 DEF ListTorrent, FetchFails, CancelPass, Cancellable, RemoveStrm, DeleteFile, Fits,
                InStep
  <2>2. CASE Invalidate(x)
    <3>1. op[x] = "add" /\ item[x][1] \in Providers
      BY <1>0, <2>2, ItemTypes DEF Invalidate, Fits, InStep
    <3>2. CacheFollows'
      BY <1>0, <2>2, <3>1 DEF Invalidate, World, CacheFollows
    <3>3. QED
      BY <1>0, <2>2, <3>1, <3>2, FollowingParts DEF Invalidate, SyncAll, Kinds, InStep
  <2>3. QED BY <1>0, <1>1, <2>1, <2>2, AskingFollows, PassFollows DEF ProcStep
<1>2. ASSUME NEW x \in Procs, StartSync(x) PROVE Following'
  BY <1>0, <1>2, FollowingParts DEF StartSync, Begin, SyncAll, Kinds, InStep, CacheFollows
<1>3. ASSUME NEW x \in Procs,
             \/ StartWipe(x) \/ \E p \in Providers : StartPage(x, p)
             \/ \E i \in Items : StartAdd(x, i) \/ StartRemove(x, i)
      PROVE  FALSE
  BY <1>0, <1>3 DEF StartWipe, StartPage, StartAdd, StartRemove, Begin
<1>4. ASSUME NEW x \in Procs, Tick(x) PROVE Following'
  BY <1>0, <1>4, FollowingParts DEF Tick, InStep, CacheFollows
<1>5. ASSUME NEW p \in Providers, Expire(p) PROVE Following'
  BY <1>0, <1>5, FollowingParts DEF Expire, World, InStep, CacheFollows
<1>6. CASE (\E i \in Items : CloudChange(i)) \/ Restart \/ BecomeCalm
  BY <1>0, <1>6 DEF CloudChange, Restart, BecomeCalm
<1>7. CASE UNCHANGED vars
  BY <1>0, <1>7, FollowingParts DEF vars, InStep, CacheFollows
<1>8. QED BY <1>1, <1>2, <1>3, <1>4, <1>5, <1>6, <1>7 DEF Next

\* Once the library follows the clouds and nothing outdated is cached or under way, it
\* follows them for good: no pass, cached listing or row's time stamp makes a later pass
\* write or prune anything else.  (LibraryFollows says that it comes to that.)
THEOREM FollowsForGood ==
  Spec => [](Following => [](tracked = cloud /\ cloud \subseteq strm))
<1>1. IInv /\ Following /\ [Next]_vars => Following'
  BY FollowingStep
<1>2. Following => tracked = cloud /\ cloud \subseteq strm
  BY DEF Following
<1>3. QED BY <1>1, <1>2, Invariant, PTL DEF Spec
=============================================================================
