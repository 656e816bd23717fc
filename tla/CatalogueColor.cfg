\* The same catalogue: a colour filter finds nothing.
CONSTANTS
    dress = dress  saree = saree  shawl = shawl
    silk = silk  cotton = cotton  ladies = ladies  kids = kids  red = red
    Products = {dress, saree, shawl}
    Productlist <- MCProductlist
    Rate <- MCRate
    Rating <- MCRating
    Fabric <- MCFabric
    Category <- MCCategory
    Colors = {red}
    ColorsOf <- MCColorsOf
    Fabrics = {silk, cotton}
    NoFabric = NoFabric
    NoColor = NoColor
    Home = Home
    Categories = {Home, ladies}
    Texts = {t1}
    Match <- MCMatch
    MinPrice = 0
    MaxPrice = 3
    Margin = 1
    MaxRefreshes = 1
SPECIFICATION Spec
PROPERTIES
    ColorFound
