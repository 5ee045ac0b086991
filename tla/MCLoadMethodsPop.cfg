SPECIFICATION MCSpec
CONSTANTS
    base = base
    sub = sub
    cat = cat
    alone = alone
    Root = Root
    Middle = Middle
    Leaf = Leaf
    Sub = Sub
    Own = Own
    MiddleCat = MiddleCat
    LeafCat = LeafCat
    RootCat = RootCat
    OwnCat = OwnCat
    o1 = o1
    Boundary = Boundary
    Images = {base, sub, cat, alone}
    Classes = {Root, Middle, Leaf, Sub, Own}
    Categories = {MiddleCat, LeafCat, RootCat, OwnCat}
    Nil = Nil
    DependsOn <- MCDependsOn
    ClassList <- MCClassList
    NonlazyClasses <- MCNonlazyClasses
    CategoryList <- MCCategoryList
    Superclass <- MCSuperclass
    CategoryClass <- MCCategoryClass
    HasLoad = {Root, Leaf, Sub, Own}
    UnmapsDetached = FALSE
    DeallocsMap = TRUE
    MaxPending = 5
INVARIANTS
    NoneForgotten
