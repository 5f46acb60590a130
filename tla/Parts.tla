------------------------------- MODULE Parts -------------------------------
(***************************************************************************)
(* The libraries behind the commands of one query, side by side.  They     *)
(* share no state: each is used by the thread that holds it (ImageLoop and *)
(* NeoQuery bring the threads of their own), so a behaviour drives one of  *)
(* them and leaves the others as they started.                             *)
(***************************************************************************)
EXTENDS GraphQuery, FindQuery, Descriptors, ImageLoop, TdbImage, VideoFile, KeyFrames,
  NeoQuery, Wire, Regions

CONSTANT Driven   \* the parts that a run drives

VARIABLE part   \* the one that is driven, fixed

\* words of the labels that are used: none, one, or two, of which a reload keeps the first
PartsLabels == {<<>>, <<1>>, <<1, 2>>}

ASSUME DrivenAssumption == Driven \subseteq
  {"graph", "find", "regions", "descriptors",
   "images", "tiledb", "video", "frames", "wire", "neo4j"}

PartsInit ==
  /\ part \in Driven
  /\ Init /\ (part # "graph" => graph.edges = <<>>)
  /\ FindInit /\ (part # "find" => ~agg.avg /\ agg.limit = 0)
  /\ DescInit /\ (part # "descriptors" => engine = "ivf")
  /\ ImageInit /\ (part # "images" => storage = "local" /\ findOps = <<"crop">>)
  /\ TdbInit
  /\ VideoInit
  /\ KeyInit /\ (part # "frames" => keyFrames = {0} /\ duration = 0)
  /\ NeoInit /\ (part # "neo4j" => connected)
  /\ WireInit /\ (part # "wire" => client = "cpp" /\ serverTls /\ clientTls)
  /\ RegionInit /\ (part # "regions" => readable = RegionImages)

PartsNext ==
  \/ /\ part = "graph" /\ Next
     /\ UNCHANGED <<part, findVars, descVars, imageVars, tdbVars, videoVars, keyVars,
                    neoVars, wireVars, regionVars>>
  \/ /\ part = "find" /\ FindNext
     /\ UNCHANGED <<part, vars, descVars, imageVars, tdbVars, videoVars, keyVars,
                    neoVars, wireVars, regionVars>>
  \/ /\ part = "descriptors" /\ DescNext
     /\ engine \in Forgetful /\ handle' # Absent => Len(handle'.names) <= 1   \* bound
     /\ UNCHANGED <<part, vars, findVars, imageVars, tdbVars, videoVars, keyVars,
                    neoVars, wireVars, regionVars>>
  \/ /\ part = "images" /\ ImageNext
     /\ UNCHANGED <<part, vars, findVars, descVars, tdbVars, videoVars, keyVars,
                    neoVars, wireVars, regionVars>>
  \/ /\ part = "tiledb" /\ TdbNext
     /\ UNCHANGED <<part, vars, findVars, descVars, imageVars, videoVars, keyVars,
                    neoVars, wireVars, regionVars>>
  \/ /\ part = "video" /\ VideoNext
     /\ UNCHANGED <<part, vars, findVars, descVars, imageVars, tdbVars, keyVars,
                    neoVars, wireVars, regionVars>>
  \/ /\ part = "frames" /\ KeyNext
     /\ UNCHANGED <<part, vars, findVars, descVars, imageVars, tdbVars, videoVars,
                    neoVars, wireVars, regionVars>>
  \/ /\ part = "wire" /\ WireNext
     /\ UNCHANGED <<part, vars, findVars, descVars, imageVars, tdbVars, videoVars, keyVars,
                    neoVars, regionVars>>
  \/ /\ part = "regions" /\ RegionNext
     /\ UNCHANGED <<part, vars, findVars, descVars, imageVars, tdbVars, videoVars, keyVars,
                    neoVars, wireVars>>
  \/ /\ part = "neo4j" /\ NeoNext
     /\ UNCHANGED <<part, vars, findVars, descVars, imageVars, tdbVars, videoVars, keyVars,
                    wireVars, regionVars>>

PartsSpec ==
  PartsInit /\ [][PartsNext]_<<part, vars, findVars, descVars, imageVars, tdbVars, videoVars,
                                keyVars, neoVars, wireVars, regionVars>>
=============================================================================
