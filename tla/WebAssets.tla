------------------------------- MODULE WebAssets -------------------------------
(***************************************************************************)
(* The dashboard's files as go-bindata has compiled them into the program  *)
(* (web/assets.go): a table from names to files, and a tree of directories *)
(* beside it.  A name is the sequence of its parts; contents are left out. *)
(***************************************************************************)
EXTENDS Integers, SequencesExt

\* bindataFileInfo: the modes are octal in the file system's eyes.
File(name, size, mode, modTime) ==
  [name |-> name, size |-> size, mode |-> mode, modTime |-> modTime]

assetsIndexHtml == File(<<"assets", "index.html">>, 9736, 509, 1482359841)
assetsCssIndexCss == File(<<"assets", "css", "index.css">>, 6836, 509, 1482287883)
assetsIcoFaviconIco == File(<<"assets", "ico", "favicon.ico">>, 105037, 436, 1481582168)
assetsImgSepHalfPng == File(<<"assets", "img", "sep-half.png">>, 951, 509, 1481582168)
assetsImgSkullSvg == File(<<"assets", "img", "skull.svg">>, 6889, 436, 1481582171)
assetsJsIndexJs == File(<<"assets", "js", "index.js">>, 8836, 436, 1482287885)
assetsJsLineandbarsJs == File(<<"assets", "js", "lineandbars.js">>, 2133, 509, 1481582175)

\* A Go map, from its entries.
Table(entries) ==
  [key \in {e[1] : e \in entries} |-> (CHOOSE e \in entries : e[1] = key)[2]]

\* _bindata.
Files == {
  <<<<"assets", "index.html">>, assetsIndexHtml>>,
  <<<<"assets", "css", "index.css">>, assetsCssIndexCss>>,
  <<<<"assets", "ico", "favicon.ico">>, assetsIcoFaviconIco>>,
  <<<<"assets", "img", "sep-half.png">>, assetsImgSepHalfPng>>,
  <<<<"assets", "img", "skull.svg">>, assetsImgSkullSvg>>,
  <<<<"assets", "js", "index.js">>, assetsJsIndexJs>>,
  <<<<"assets", "js", "lineandbars.js">>, assetsJsLineandbarsJs>>}

Bindata == Table(Files)

NoFile == File(<<>>, 0, 0, 0)

\* _bintree: the nodes by the path that leads to them from the root, each with
\* its Func, which a directory does not have.
Nodes == {
  <<<<>>, NoFile>>,
  <<<<"assets">>, NoFile>>,
  <<<<"assets", "css">>, NoFile>>,
  <<<<"assets", "css", "index.css">>, assetsCssIndexCss>>,
  <<<<"assets", "ico">>, NoFile>>,
  <<<<"assets", "ico", "favicon.ico">>, assetsIcoFaviconIco>>,
  <<<<"assets", "img">>, NoFile>>,
  <<<<"assets", "img", "sep-half.png">>, assetsImgSepHalfPng>>,
  <<<<"assets", "img", "skull.svg">>, assetsImgSkullSvg>>,
  <<<<"assets", "index.html">>, assetsIndexHtml>>,
  <<<<"assets", "js">>, NoFile>>,
  <<<<"assets", "js", "index.js">>, assetsJsIndexJs>>,
  <<<<"assets", "js", "lineandbars.js">>, assetsJsLineandbarsJs>>}

Bintree == Table(Nodes)

-----------------------------------------------------------------------------
\* The bytes of a file, here the file itself, or an error.  That none of the
\* compiled in gzip streams is corrupt is taken for granted.
bindataRead(file) == file

Asset(name) == IF name \in DOMAIN Bindata THEN bindataRead(Bindata[name]) ELSE NoFile

AssetInfo(name) == IF name \in DOMAIN Bindata THEN Bindata[name] ELSE NoFile

AssetNames == DOMAIN Bindata

IsDir(path) == path \in DOMAIN Bintree /\ Bintree[path] = NoFile

\* The parts of the paths into the tree.
Parts == UNION {Range(path) : path \in DOMAIN Bintree}

\* What AssetDir lists; a name that is no directory is an error.
AssetDir(path) == {part \in Parts : Append(path, part) \in DOMAIN Bintree}

\* RestoreAssets goes down one level: the children of directories, by their
\* names, and every other name as a file.
Descend(paths) ==
  UNION {IF IsDir(path) THEN {Append(path, child) : child \in AssetDir(path)}
         ELSE {path} : path \in paths}

\* The files RestoreAssets writes for a name, each as Asset and AssetInfo have it.
\* The tree is four levels deep, its root included.
RestoreAssets(name) ==
  {Asset(path) : path \in Descend(Descend(Descend({name})))}
=============================================================================
